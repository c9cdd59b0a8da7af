------------------------- MODULE CatchTrackerProofs -------------------------
(***************************************************************************)
(* Lemmas about the trackers of CatchTracker and the test functions of     *)
(* CatchRun, whatever the state of a session.  They say in turn:           *)
(*                                                                         *)
(*   - every operator of a context, called as the code calls it, leaves it *)
(*     in order (Ordered) and no tracker in an illogical state; for close, *)
(*     which closes one tracker after the other, by induction on their     *)
(*     number, from the well-foundedness of the natural numbers;           *)
(*   - the trackers are a tree that follows the function (Tree): each is   *)
(*     in the sections that enclose its place, and what comes before one   *)
(*     that has started is complete;                                       *)
(*   - a run of the function (InFunction) goes through the function one    *)
(*     instruction after the other.  Trackers that are busy from an        *)
(*     earlier cycle make this hard: CatchTracker opens whatever is not    *)
(*     complete, so that one of them, come to once the cycle is complete,  *)
(*     would run out of turn.  It never is: all of them are passed before  *)
(*     the first section ends (NoneAhead).                                 *)
(***************************************************************************)
EXTENDS CatchRun, SequenceTheorems, WellFoundedInduction, TLAPS

Path == Seq(Nat)

IsContext(c) ==
  /\ c \in [state : {c.state}, generator : {c.generator}, filters : {c.filters},
             current : {c.current}, completedCycle : {c.completedCycle}]
  /\ c.state \in [DOMAIN c.state -> CycleState]
  /\ DOMAIN c.state \subseteq Path
  /\ c.generator \in [DOMAIN c.generator -> [at : Nat, size : Nat]]
  /\ c.current \in Path
  /\ c.completedCycle \in BOOLEAN

Busy == {"Executing", "ExecutingChildren", "NeedsAnotherRun"}

(***************************************************************************)
(* A context in order: what is current is a tracker, and so is each one    *)
(* around it; and each of them but the root can be closed.                 *)
(***************************************************************************)
Ordered(c) ==
  /\ IsContext(c)
  /\ \A k \in 0 .. Len(c.current) : SubSeq(c.current, 1, k) \in DOMAIN c.state
  /\ \A k \in 1 .. Len(c.current) : c.state[SubSeq(c.current, 1, k)] \in Busy

-----------------------------------------------------------------------------
(* Every set of numbers has a least one, so that a fact about numbers can  *)
(* be proved by induction: it has no least exception.                      *)
LEMMA LeastNumber ==
  ASSUME NEW T \in SUBSET Nat, T # {}
  PROVE  \E m \in T : \A n \in T : m <= n
<1> DEFINE R == OpToRel(<, Nat)
<1>1. IsWellFoundedOn(R, Nat)
  BY NatLessThanWellFounded
<1>2. \A x, y \in T : y < x => <<y, x>> \in R
  BY DEF OpToRel
<1> HIDE DEF R
<1>3. PICK x \in T : \A y \in T : ~ (<<y, x>> \in R)
  BY <1>1, WFMin
<1>4. \A y \in T : ~ (y < x)
  BY <1>2, <1>3, Zenon
<1>5. \A y \in T : y \in Nat
  OBVIOUS
<1>6. QED
  BY <1>4, <1>5

(* What holds of zero, and of each number after one that it holds of,      *)
(* holds of all up to n.                                                   *)
LEMMA UpToInduction ==
  ASSUME NEW n \in Nat, NEW G \in SUBSET (0 .. n), 0 \in G,
         \A k \in 1 .. n : k - 1 \in G => k \in G
  PROVE  G = 0 .. n
<1> SUFFICES ASSUME (0 .. n) \ G # {} PROVE FALSE
  OBVIOUS
<1>1. PICK m \in (0 .. n) \ G : \A k \in (0 .. n) \ G : m <= k
  <2>1. (0 .. n) \ G \in SUBSET Nat
    OBVIOUS
  <2>2. QED
    BY <2>1, LeastNumber
<1>2. m \in 1 .. n
  BY <1>1
<1>3. m - 1 \in 0 .. n /\ ~ (m <= m - 1)
  BY <1>2
<1>4. m - 1 \in G
  BY <1>1, <1>3
<1>5. QED
  BY <1>1, <1>2, <1>4

-----------------------------------------------------------------------------
(* Paths.                                                                  *)
LEMMA PathParts ==
  ASSUME NEW t \in Path, NEW k \in 0 .. Len(t)
  PROVE  /\ SubSeq(t, 1, k) \in Path
         /\ Len(SubSeq(t, 1, k)) = k
         /\ \A j \in 0 .. k : SubSeq(SubSeq(t, 1, k), 1, j) = SubSeq(t, 1, j)
         /\ k > 0 => Parent(SubSeq(t, 1, k)) = SubSeq(t, 1, k - 1)
         /\ SubSeq(t, 1, Len(t)) = t
<1>1. Len(t) \in Nat /\ k \in Nat
  BY DEF Path
<1>2. \A j \in 0 .. Len(t) : /\ SubSeq(t, 1, j) \in Seq(Nat) /\ Len(SubSeq(t, 1, j)) = j
                             /\ \A i \in 1 .. j : SubSeq(t, 1, j)[i] = t[i]
  BY SubSeqProperties, <1>1 DEF Path
<1>3. ASSUME NEW j \in 0 .. k
      PROVE  SubSeq(SubSeq(t, 1, k), 1, j) = SubSeq(t, 1, j)
  <2> DEFINE s == SubSeq(t, 1, k)
  <2>1. s \in Seq(Nat) /\ Len(s) = k /\ \A i \in 1 .. k : s[i] = t[i]
    BY <1>2
  <2> HIDE DEF s
  <2>2. SubSeq(s, 1, j) \in Seq(Nat) /\ Len(SubSeq(s, 1, j)) = j
        /\ \A i \in 1 .. j : SubSeq(s, 1, j)[i] = s[i]
    BY <2>1, <1>1, SubSeqProperties
  <2>3. SubSeq(t, 1, j) \in Seq(Nat) /\ Len(SubSeq(t, 1, j)) = j
        /\ \A i \in 1 .. j : SubSeq(t, 1, j)[i] = t[i]
    BY <1>1, <1>2
  <2>4. \A i \in 1 .. j : SubSeq(s, 1, j)[i] = SubSeq(t, 1, j)[i]
    BY <2>1, <2>2, <2>3, <1>1
  <2>5. SubSeq(s, 1, j) = SubSeq(t, 1, j)
    BY <2>2, <2>3, <2>4, SeqEqual
  <2>6. QED
    BY <2>5 DEF s
<1>4. k > 0 => Parent(SubSeq(t, 1, k)) = SubSeq(t, 1, k - 1)
  BY <1>1, <1>2, <1>3 DEF Parent, Front
<1>5. SubSeq(t, 1, Len(t)) = t
  <2>1. \A i \in 1 .. Len(t) : SubSeq(t, 1, Len(t))[i] = t[i]
    BY <1>1, <1>2
  <2>2. QED
    BY <1>1, <1>2, <2>1, SeqEqual DEF Path
<1>6. QED
  BY <1>1, <1>2, <1>3, <1>4, <1>5 DEF Path

LEMMA PathGrows ==
  ASSUME NEW t \in Path, NEW place \in Nat
  PROVE  /\ Append(t, place) \in Path
         /\ Len(Append(t, place)) = Len(t) + 1
         /\ Append(t, place)[Len(t) + 1] = place
         /\ Parent(Append(t, place)) = t
         /\ \A k \in 0 .. Len(t) : SubSeq(Append(t, place), 1, k) = SubSeq(t, 1, k)
         /\ SubSeq(Append(t, place), 1, Len(t) + 1) = Append(t, place)
         /\ Append(t, place) # Root
<1> DEFINE s == Append(t, place)
<1>1. /\ s \in Seq(Nat) /\ Len(s) = Len(t) + 1 /\ Len(t) \in Nat /\ s[Len(t) + 1] = place
      /\ \A i \in 1 .. Len(t) : s[i] = t[i]
  BY AppendProperties DEF Path
<1> HIDE DEF s
<1>2. ASSUME NEW k \in 0 .. Len(t)
      PROVE  SubSeq(s, 1, k) = SubSeq(t, 1, k)
  <2>1. /\ SubSeq(t, 1, k) \in Seq(Nat) /\ Len(SubSeq(t, 1, k)) = k
        /\ \A i \in 1 .. k : SubSeq(t, 1, k)[i] = t[i]
    BY <1>1, SubSeqProperties DEF Path
  <2>2. /\ SubSeq(s, 1, k) \in Seq(Nat) /\ Len(SubSeq(s, 1, k)) = k
        /\ \A i \in 1 .. k : SubSeq(s, 1, k)[i] = s[i]
    BY <1>1, SubSeqProperties
  <2>3. \A i \in 1 .. k : SubSeq(s, 1, k)[i] = SubSeq(t, 1, k)[i]
    BY <1>1, <2>1, <2>2
  <2>4. QED
    BY <2>1, <2>2, <2>3, SeqEqual
<1>3. SubSeq(s, 1, Len(t)) = t
  BY <1>1, <1>2, PathParts
<1>4. Parent(s) = t
  BY <1>1, <1>3 DEF Parent, Front
<1>5. SubSeq(s, 1, Len(t) + 1) = s
  BY <1>1, PathParts DEF Path
<1>6. s # Root
  <2>1. Len(s) # 0 /\ Len(<<>>) = 0
    BY <1>1
  <2>2. QED
    BY <2>1 DEF Root
<1>7. QED
  BY <1>1, <1>2, <1>4, <1>5, <1>6 DEF s, Path

LEMMA PrefixIs ==
  ASSUME NEW s \in Path, NEW t \in Path
  PROVE  IsPrefix(s, t) <=> Len(s) <= Len(t) /\ SubSeq(t, 1, Len(s)) = s
<1>1. Len(s) \in Nat /\ Len(t) \in Nat
  BY DEF Path
<1>2. SubSeq(s, 1, Len(s)) = s
  BY <1>1, PathParts
<1>3. QED
  BY <1>1, <1>2 DEF IsPrefix

LEMMA PrefixOf ==
  ASSUME NEW t \in Path, NEW k \in 0 .. Len(t)
  PROVE  IsPrefix(SubSeq(t, 1, k), t)
<1> DEFINE s == SubSeq(t, 1, k)
<1>1. s \in Path /\ Len(s) = k /\ k <= Len(t) /\ SubSeq(t, 1, Len(s)) = s
  BY PathParts DEF Path
<1> HIDE DEF s
<1>2. IsPrefix(s, t)
  BY <1>1, PrefixIs
<1>3. QED
  BY <1>2 DEF s

LEMMA PrefixTransitive ==
  ASSUME NEW s \in Path, NEW t \in Path, NEW u \in Path, IsPrefix(s, t), IsPrefix(t, u)
  PROVE  IsPrefix(s, u)
<1>1. /\ Len(s) \in Nat /\ Len(t) \in Nat /\ Len(u) \in Nat
      /\ Len(s) <= Len(t) /\ SubSeq(t, 1, Len(s)) = s
      /\ Len(t) <= Len(u) /\ SubSeq(u, 1, Len(t)) = t
  BY PrefixIs DEF Path
<1>2. SubSeq(SubSeq(u, 1, Len(t)), 1, Len(s)) = SubSeq(u, 1, Len(s))
  BY <1>1, PathParts
<1>3. QED
  BY <1>1, <1>2, PrefixIs

(* To be around u, and not u, is to be around its parent, or that.         *)
LEMMA AroundParent ==
  ASSUME NEW s \in Path, NEW u \in Path, u # Root
  PROVE  /\ Parent(u) \in Path /\ IsPrefix(Parent(u), u) /\ Len(Parent(u)) = Len(u) - 1
         /\ IsStrictPrefix(s, u) <=> IsPrefix(s, Parent(u))
<1>1. Len(u) \in Nat /\ Len(u) > 0 /\ Len(s) \in Nat
  BY DEF Root, Path
<1>2. PICK n \in Nat : n = Len(u) /\ n > 0 /\ n - 1 \in 0 .. n /\ n \in 0 .. n
  BY <1>1
<1>3. SubSeq(u, 1, n) = u /\ Parent(SubSeq(u, 1, n)) = SubSeq(u, 1, n - 1)
  BY <1>2, PathParts
<1>4. /\ Parent(u) = SubSeq(u, 1, n - 1) /\ Parent(u) \in Path /\ Len(Parent(u)) = n - 1
      /\ \A j \in 0 .. n - 1 : SubSeq(Parent(u), 1, j) = SubSeq(u, 1, j)
  <2>1. Parent(u) = SubSeq(u, 1, n - 1)
    BY <1>3
  <2>2. /\ SubSeq(u, 1, n - 1) \in Path /\ Len(SubSeq(u, 1, n - 1)) = n - 1
        /\ \A j \in 0 .. n - 1 : SubSeq(SubSeq(u, 1, n - 1), 1, j) = SubSeq(u, 1, j)
    BY <1>2, PathParts
  <2>3. QED
    BY <2>1, <2>2
<1>5. IsPrefix(Parent(u), u)
  BY <1>2, <1>4, PrefixOf
<1>6. ASSUME IsStrictPrefix(s, u) PROVE IsPrefix(s, Parent(u))
  <2>1. Len(s) <= n /\ SubSeq(u, 1, Len(s)) = s /\ s # u
    BY <1>2, <1>6, PrefixIs DEF IsStrictPrefix
  <2>2. Len(s) # n
    BY <1>3, <2>1
  <2>3. Len(s) \in 0 .. n - 1
    <3>1. Len(s) \in Nat /\ Len(s) <= n /\ Len(s) # n
      BY <1>1, <2>1, <2>2
    <3>2. QED
      BY <3>1
  <2>4. Len(s) <= Len(Parent(u)) /\ SubSeq(Parent(u), 1, Len(s)) = s
    BY <1>4, <2>1, <2>3
  <2>5. QED
    BY <1>4, <2>4, PrefixIs
<1>7. ASSUME IsPrefix(s, Parent(u)) PROVE IsStrictPrefix(s, u)
  <2>1. IsPrefix(s, u)
    BY <1>4, <1>5, <1>7, PrefixTransitive
  <2>2. Len(s) <= n - 1
    BY <1>4, <1>7, PrefixIs
  <2>3. QED
    BY <1>1, <1>2, <2>1, <2>2 DEF IsStrictPrefix
<1>8. QED
  BY <1>2, <1>4, <1>5, <1>6, <1>7

LEMMA RootIs ==
  ASSUME NEW t \in Path
  PROVE  t = Root <=> Len(t) = 0
<1>1. Len(t) = 0 => t = <<>>
  BY EmptySeq DEF Path
<1>2. QED
  BY <1>1 DEF Root

LEMMA ParentIs ==
  ASSUME NEW t \in Path, t # Root
  PROVE  /\ Len(t) \in Nat /\ Len(t) > 0
         /\ Parent(t) \in Path /\ Len(Parent(t)) = Len(t) - 1
         /\ Parent(t) = SubSeq(t, 1, Len(t) - 1)
         /\ \A k \in 0 .. Len(t) - 1 : SubSeq(Parent(t), 1, k) = SubSeq(t, 1, k)
         /\ \A k \in 1 .. Len(t) : IsPrefix(Parent(SubSeq(t, 1, k)), Parent(t))
<1>1. Len(t) \in Nat /\ Len(t) > 0
  BY DEF Root, Path
<1>2. PICK n \in Nat : n = Len(t) /\ n > 0 /\ n - 1 \in 0 .. n /\ n \in 0 .. n
  BY <1>1
<1>3. Parent(t) = SubSeq(t, 1, n - 1)
  <2>1. SubSeq(t, 1, n) = t /\ Parent(SubSeq(t, 1, n)) = SubSeq(t, 1, n - 1)
    BY <1>2, PathParts
  <2>2. QED
    BY <2>1
<1>4. /\ Parent(t) \in Path /\ Len(Parent(t)) = n - 1
      /\ \A k \in 0 .. n - 1 : SubSeq(Parent(t), 1, k) = SubSeq(t, 1, k)
  <2>1. /\ SubSeq(t, 1, n - 1) \in Path /\ Len(SubSeq(t, 1, n - 1)) = n - 1
        /\ \A k \in 0 .. n - 1 : SubSeq(SubSeq(t, 1, n - 1), 1, k) = SubSeq(t, 1, k)
    BY <1>2, PathParts
  <2>2. QED
    BY <1>3, <2>1
<1>5. ASSUME NEW k \in 1 .. n PROVE IsPrefix(Parent(SubSeq(t, 1, k)), Parent(t))
  <2>1. k \in 0 .. n /\ k > 0 /\ k - 1 \in 0 .. n - 1
    BY <1>2
  <2>2. Parent(SubSeq(t, 1, k)) = SubSeq(t, 1, k - 1)
    BY <1>2, <2>1, PathParts
  <2>3. IsPrefix(SubSeq(Parent(t), 1, k - 1), Parent(t))
    BY <1>4, <2>1, PrefixOf
  <2>4. QED
    BY <1>4, <2>1, <2>2, <2>3
<1>6. QED
  BY <1>1, <1>2, <1>3, <1>4, <1>5

(* What is around t is no tracker that t is around.                        *)
LEMMA NotBelow ==
  ASSUME NEW t \in Path, NEW k \in 0 .. Len(t)
  PROVE  ~ IsStrictPrefix(t, SubSeq(t, 1, k))
<1>1. Len(t) \in Nat /\ SubSeq(t, 1, k) \in Path /\ Len(SubSeq(t, 1, k)) = k
  BY PathParts DEF Path
<1>2. SUFFICES ASSUME IsStrictPrefix(t, SubSeq(t, 1, k)) PROVE FALSE
  OBVIOUS
<1>3. Len(t) <= k
  BY <1>1, <1>2, PrefixIs DEF IsStrictPrefix
<1>4. SubSeq(t, 1, k) = t
  BY <1>1, <1>3, PathParts
<1>5. QED
  BY <1>2, <1>4 DEF IsStrictPrefix

-----------------------------------------------------------------------------
(***************************************************************************)
(* What closing may do to a context: trackers are forgotten with all that  *)
(* is beside them, at most t is in another state (Drops); and if several   *)
(* are closed, none is busy or incomplete that was not (Settles).          *)
(***************************************************************************)
Completed == {"CompletedSuccessfully", "Failed"}

KeepsFamilies(c, d) ==
  \A t \in DOMAIN d.state, u \in DOMAIN c.state :
    t # Root /\ u # Root /\ IsPrefix(Parent(u), Parent(t)) => u \in DOMAIN d.state

Shrinks(c, d) ==
  /\ d.filters = c.filters
  /\ DOMAIN d.state \subseteq DOMAIN c.state
  /\ \A u \in DOMAIN d.generator : u \in DOMAIN c.generator /\ (u \in DOMAIN c.state => u \in DOMAIN d.state)
  /\ \A u \in DOMAIN d.state : u \in DOMAIN d.generator <=> u \in DOMAIN c.generator
  /\ KeepsFamilies(c, d)

Drops(c, d, t) ==
  Shrinks(c, d) /\ \A u \in DOMAIN d.state : u # t => d.state[u] = c.state[u]

Settles(c, d) ==
  /\ Shrinks(c, d)
  /\ \A u \in DOMAIN d.state :
       /\ d.state[u] \in Busy => c.state[u] \in Busy
       /\ c.state[u] = "NotStarted" => d.state[u] = "NotStarted"
       /\ c.state[u] \in Completed => d.state[u] = c.state[u]

LEMMA ShrinksTransitive ==
  ASSUME NEW c, NEW d, NEW e, Shrinks(c, d), Shrinks(d, e)
  PROVE  Shrinks(c, e)
<1>1. KeepsFamilies(c, e)
  <2> SUFFICES ASSUME NEW t \in DOMAIN e.state, NEW u \in DOMAIN c.state,
                      t # Root, u # Root, IsPrefix(Parent(u), Parent(t))
               PROVE  u \in DOMAIN e.state
    BY DEF KeepsFamilies
  <2>1. t \in DOMAIN d.state
    BY DEF Shrinks
  <2>2. u \in DOMAIN d.state
    BY <2>1 DEF Shrinks, KeepsFamilies
  <2>3. QED
    BY <2>2 DEF Shrinks, KeepsFamilies
<1>2. QED
  BY <1>1 DEF Shrinks

LEMMA SettlesTransitive ==
  ASSUME NEW c, NEW d, NEW e, Settles(c, d), Settles(d, e)
  PROVE  Settles(c, e)
<1>1. Shrinks(c, e)
  BY ShrinksTransitive DEF Settles
<1>2. \A u \in DOMAIN e.state : u \in DOMAIN d.state
  BY DEF Settles, Shrinks
<1>3. QED
  BY <1>1, <1>2 DEF Settles

LEMMA DropsTransitive ==
  ASSUME NEW c, NEW d, NEW e, NEW t, Drops(c, d, t), Drops(d, e, t)
  PROVE  Drops(c, e, t)
<1>1. Shrinks(c, e)
  BY ShrinksTransitive DEF Drops
<1>2. \A u \in DOMAIN e.state : u \in DOMAIN d.state
  BY DEF Drops, Shrinks
<1>3. QED
  BY <1>1, <1>2 DEF Drops

LEMMA SameShrinks ==
  ASSUME NEW c, NEW d, d.filters = c.filters, DOMAIN d.state = DOMAIN c.state,
         DOMAIN d.generator = DOMAIN c.generator
  PROVE  Shrinks(c, d)
  BY DEF Shrinks, KeepsFamilies

LEMMA DropsSettles ==
  ASSUME NEW c, NEW d, NEW t, Drops(c, d, t), c.state[t] \in Busy
  PROVE  Settles(c, d)
<1>1. c.state[t] \notin Completed /\ c.state[t] # "NotStarted"
  BY DEF Busy, Completed
<1>2. QED
  BY <1>1 DEF Drops, Settles

(* close, one tracker at a time.                                           *)
LEMMA ClosedIs ==
  ASSUME NEW c, IsContext(c), NEW t \in DOMAIN c.state, ClosedState(c, t) \in CycleState
  PROVE  /\ IsContext(Closed(c, t))
         /\ DOMAIN Closed(c, t).state = DOMAIN c.state
         /\ Closed(c, t).state[t] = ClosedState(c, t)
         /\ Drops(c, Closed(c, t), t)
         /\ Closed(c, t).generator = c.generator
         /\ Closed(c, t).current = Parent(t)
         /\ Closed(c, t).completedCycle = TRUE
<1> DEFINE d == Closed(c, t)
           state == [c.state EXCEPT ![t] = ClosedState(c, t)]
<1>1. /\ d.state = state /\ d.generator = c.generator /\ d.filters = c.filters
      /\ d.current = Parent(t) /\ d.completedCycle = TRUE
      /\ d \in [state : {d.state}, generator : {d.generator}, filters : {d.filters},
                current : {d.current}, completedCycle : {d.completedCycle}]
  BY DEF Closed, IsContext
<1>2. Parent(t) \in Path
  <2>1. t \in Path /\ Len(t) \in Nat
    BY DEF IsContext, Path
  <2>2. CASE Len(t) > 0
    <3>1. SubSeq(t, 1, Len(t)) = t /\ Parent(SubSeq(t, 1, Len(t))) = SubSeq(t, 1, Len(t) - 1)
          /\ SubSeq(t, 1, Len(t) - 1) \in Path
      BY <2>1, <2>2, PathParts
    <3>2. QED
      BY <3>1
  <2>3. CASE Len(t) = 0
    BY <2>1, <2>3 DEF Parent, Front, Path
  <2>4. QED
    BY <2>1, <2>2, <2>3
<1>3. /\ state \in [DOMAIN c.state -> CycleState] /\ DOMAIN state = DOMAIN c.state
      /\ state[t] = ClosedState(c, t)
      /\ \A u \in DOMAIN c.state \ {t} : state[u] = c.state[u]
  BY DEF IsContext
<1> HIDE DEF d, state
<1>4. IsContext(d)
  BY <1>1, <1>2, <1>3 DEF IsContext
<1>5. Drops(c, d, t)
  BY <1>1, <1>3, SameShrinks DEF Drops
<1>6. QED
  BY <1>1, <1>3, <1>4, <1>5 DEF d

LEMMA ClosedStateIs ==
  ASSUME NEW c, NEW t, c.state[t] \in Busy
  PROVE  ClosedState(c, t) \in {"CompletedSuccessfully", "ExecutingChildren", "NeedsAnotherRun"}
  BY DEF ClosedState, Busy

LEMMA ClearedIs ==
  ASSUME NEW c, IsContext(c), NEW t \in DOMAIN c.state
  PROVE  /\ IsContext(Cleared(c, t))
         /\ Drops(c, Cleared(c, t), t)
         /\ DOMAIN Cleared(c, t).state = {u \in DOMAIN c.state : ~ IsStrictPrefix(t, u)}
         /\ \A u \in DOMAIN c.state : ~ IsStrictPrefix(t, u) => Cleared(c, t).state[u] = c.state[u]
         /\ Cleared(c, t).current = c.current
         /\ Cleared(c, t).completedCycle = c.completedCycle
<1> DEFINE kept(f) == [u \in {v \in DOMAIN f : ~ IsStrictPrefix(t, v)} |-> f[u]]
           d == Cleared(c, t)
<1>1. /\ d.state = kept(c.state) /\ d.generator = kept(c.generator) /\ d.filters = c.filters
      /\ d.current = c.current /\ d.completedCycle = c.completedCycle
      /\ d \in [state : {d.state}, generator : {d.generator}, filters : {d.filters},
                current : {d.current}, completedCycle : {d.completedCycle}]
  BY DEF Cleared, IsContext
<1> HIDE DEF d
<1>3. /\ DOMAIN d.state = {u \in DOMAIN c.state : ~ IsStrictPrefix(t, u)}
      /\ \A u \in DOMAIN d.state : d.state[u] = c.state[u]
      /\ d.state \in [DOMAIN d.state -> CycleState]
      /\ DOMAIN d.generator = {u \in DOMAIN c.generator : ~ IsStrictPrefix(t, u)}
      /\ d.generator \in [DOMAIN d.generator -> [at : Nat, size : Nat]]
  BY <1>1 DEF IsContext
<1>4. IsContext(d)
  BY <1>1, <1>3 DEF IsContext
<1>5. KeepsFamilies(c, d)
  <2> SUFFICES ASSUME NEW v \in DOMAIN d.state, NEW u \in DOMAIN c.state,
                      v # Root, u # Root, IsPrefix(Parent(u), Parent(v)), IsStrictPrefix(t, u)
               PROVE  FALSE
    BY <1>3 DEF KeepsFamilies
  <2>1. t \in Path /\ u \in Path /\ v \in Path /\ ~ IsStrictPrefix(t, v)
    BY <1>3 DEF IsContext
  <2>2. Parent(u) \in Path /\ Parent(v) \in Path /\ IsPrefix(t, Parent(u))
    BY <2>1, AroundParent
  <2>3. IsPrefix(t, Parent(v))
    BY <2>1, <2>2, PrefixTransitive
  <2>4. QED
    BY <2>1, <2>3, AroundParent
<1>6. Drops(c, d, t)
  BY <1>1, <1>3, <1>5 DEF Drops, Shrinks
<1>7. QED
  BY <1>1, <1>3, <1>4, <1>6 DEF d

LEMMA NextValueIs ==
  ASSUME NEW c, IsContext(c), NEW t \in DOMAIN c.state, t \in DOMAIN c.generator
  PROVE  /\ IsContext(NextValue(c, t))
         /\ Drops(c, NextValue(c, t), t)
         /\ \A u \in DOMAIN c.state : ~ IsStrictPrefix(t, u) => u \in DOMAIN NextValue(c, t).state
         /\ NextValue(c, t).current = c.current
         /\ NextValue(c, t).completedCycle = c.completedCycle
<1> DEFINE moved    == [c EXCEPT !.generator[t].at = @ + 1]
           again(d) == [Cleared(d, t) EXCEPT !.state[t] = "Executing"]
           Keeps(d) == /\ IsContext(d)
                       /\ Drops(c, d, t)
                       /\ \A u \in DOMAIN c.state : ~ IsStrictPrefix(t, u) => u \in DOMAIN d.state
                       /\ d.current = c.current
                       /\ d.completedCycle = c.completedCycle
<1>1. Keeps(c)
  BY SameShrinks DEF Drops
<1>2. /\ IsContext(moved) /\ moved.state = c.state
      /\ DOMAIN moved.generator = DOMAIN c.generator /\ moved.filters = c.filters
      /\ moved.current = c.current /\ moved.completedCycle = c.completedCycle
  <2> DEFINE generator == [c.generator EXCEPT ![t].at = @ + 1]
  <2>1. /\ moved.generator = generator /\ moved.state = c.state /\ moved.filters = c.filters
        /\ moved.current = c.current /\ moved.completedCycle = c.completedCycle
        /\ moved \in [state : {moved.state}, generator : {moved.generator}, filters : {moved.filters},
                      current : {moved.current}, completedCycle : {moved.completedCycle}]
    BY DEF IsContext
  <2>2. /\ DOMAIN generator = DOMAIN c.generator
        /\ generator \in [DOMAIN c.generator -> [at : Nat, size : Nat]]
    BY DEF IsContext
  <2> HIDE DEF generator, moved
  <2>3. QED
    BY <2>1, <2>2 DEF IsContext
<1> HIDE DEF moved
<1>3. ASSUME NEW d, IsContext(d), d.state = c.state, DOMAIN d.generator = DOMAIN c.generator,
             d.filters = c.filters,
             d.current = c.current, d.completedCycle = c.completedCycle
      PROVE  Keeps(again(d))
  <2> DEFINE e == Cleared(d, t)
  <2>1. /\ IsContext(e) /\ Drops(d, e, t)
        /\ \A u \in DOMAIN c.state : ~ IsStrictPrefix(t, u) => u \in DOMAIN e.state
        /\ e.current = c.current /\ e.completedCycle = c.completedCycle
    BY <1>3, ClearedIs
  <2>2. t \in DOMAIN e.state
    BY <2>1 DEF IsStrictPrefix
  <2> HIDE DEF e
  <2> DEFINE f     == [e EXCEPT !.state[t] = "Executing"]
             state == [e.state EXCEPT ![t] = "Executing"]
  <2>3. /\ f.state = state /\ f.generator = e.generator /\ f.filters = e.filters
        /\ f.current = e.current /\ f.completedCycle = e.completedCycle
        /\ f \in [state : {f.state}, generator : {f.generator}, filters : {f.filters},
                  current : {f.current}, completedCycle : {f.completedCycle}]
    BY <2>1 DEF IsContext
  <2>4. /\ DOMAIN state = DOMAIN e.state /\ state \in [DOMAIN e.state -> CycleState]
        /\ \A u \in DOMAIN e.state : u # t => state[u] = e.state[u]
    BY <2>1 DEF IsContext, CycleState
  <2> HIDE DEF f, state
  <2>5. IsContext(f)
    BY <2>1, <2>3, <2>4 DEF IsContext
  <2>6. Drops(c, d, t) /\ Drops(e, f, t)
    BY <1>3, <2>3, <2>4, SameShrinks DEF Drops
  <2>7. Drops(c, f, t)
    BY <2>1, <2>6, DropsTransitive
  <2>8. Keeps(f)
    BY <2>1, <2>3, <2>4, <2>5, <2>7
  <2>9. QED
    BY <2>8 DEF e, f
<1> DEFINE n == NextValue(c, t)
<1>4. n = again(c) \/ n = again(moved) \/ n = moved \/ n = c
  BY DEF NextValue, moved
<1>5. Keeps(moved)
  BY <1>2, SameShrinks DEF Drops
<1>6. Keeps(again(c)) /\ Keeps(again(moved))
  BY <1>2, <1>3
<1>7. Keeps(n)
  <2> HIDE DEF Keeps, again, n
  <2>1. QED
    BY <1>1, <1>4, <1>5, <1>6
<1>8. QED
  BY <1>7

(* Closing the tracker that is current makes its parent current.           *)
LEMMA CurrentCloses ==
  ASSUME NEW c, Ordered(c), Len(c.current) > 0
  PROVE  LET t == c.current
             d == closeCurrent(c, t)
         IN  /\ Ordered(d)
             /\ d.current = Parent(t)
             /\ d.completedCycle = TRUE
             /\ Settles(c, d)
             /\ t \in DOMAIN d.state
             /\ t \notin DOMAIN c.generator =>
                  d.state[t] \in {"CompletedSuccessfully", "ExecutingChildren", "NeedsAnotherRun"}
<1> DEFINE t == c.current
           d == closeCurrent(c, t)
           e == Closed(c, t)
           n == Len(t)
<1>1. /\ IsContext(c) /\ t \in Path /\ n \in Nat /\ n > 0 /\ SubSeq(t, 1, n) = t
      /\ Parent(t) = SubSeq(t, 1, n - 1) /\ Parent(t) \in Path /\ Len(Parent(t)) = n - 1
      /\ \A k \in 0 .. n - 1 : SubSeq(Parent(t), 1, k) = SubSeq(t, 1, k)
  <2>1. IsContext(c) /\ t \in Path /\ n \in Nat
    BY DEF Ordered, IsContext, Path
  <2>2. SubSeq(t, 1, n) = t
    BY <2>1, PathParts
  <2>3. n - 1 \in 0 .. n /\ n \in 0 .. n
    BY <2>1
  <2>4. Parent(SubSeq(t, 1, n)) = SubSeq(t, 1, n - 1)
    BY <2>1, <2>3, PathParts
  <2>5. SubSeq(t, 1, n - 1) \in Path /\ Len(SubSeq(t, 1, n - 1)) = n - 1
        /\ \A k \in 0 .. n - 1 : SubSeq(SubSeq(t, 1, n - 1), 1, k) = SubSeq(t, 1, k)
    BY <2>1, <2>3, PathParts
  <2>6. QED
    BY <2>1, <2>2, <2>4, <2>5
<1>2. /\ t \in DOMAIN c.state /\ c.state[t] \in Busy
      /\ \A k \in 0 .. n - 1 : SubSeq(t, 1, k) \in DOMAIN c.state
      /\ \A k \in 1 .. n - 1 : c.state[SubSeq(t, 1, k)] \in Busy
  <2>1. n \in 0 .. n /\ n \in 1 .. n /\ \A k \in 0 .. n - 1 : k \in 0 .. n
        /\ \A j \in 1 .. n - 1 : j \in 1 .. n
    BY <1>1
  <2>2. /\ \A k \in 0 .. n : SubSeq(t, 1, k) \in DOMAIN c.state
        /\ \A k \in 1 .. n : c.state[SubSeq(t, 1, k)] \in Busy
    BY DEF Ordered
  <2>3. SubSeq(t, 1, n) \in DOMAIN c.state /\ c.state[SubSeq(t, 1, n)] \in Busy
    BY <2>1, <2>2
  <2>4. t \in DOMAIN c.state /\ c.state[t] \in Busy
    BY <1>1, <2>3
  <2>5. QED
    BY <2>1, <2>2, <2>4
<1>3. \A k \in 0 .. n - 1 : ~ IsStrictPrefix(t, SubSeq(t, 1, k)) /\ SubSeq(t, 1, k) # t
  <2>1. \A k \in 0 .. n - 1 : k \in 0 .. n /\ k # n
    BY <1>1
  <2>2. QED
    BY <1>1, <2>1, NotBelow, PathParts
<1>4. ClosedState(c, t) \in {"CompletedSuccessfully", "ExecutingChildren", "NeedsAnotherRun"}
  BY <1>2, ClosedStateIs
<1>5. ClosedState(c, t) \in CycleState
  BY <1>4 DEF CycleState
<1>6. /\ IsContext(e) /\ DOMAIN e.state = DOMAIN c.state /\ e.state[t] = ClosedState(c, t)
      /\ Drops(c, e, t)
      /\ e.generator = c.generator /\ e.current = Parent(t) /\ e.completedCycle = TRUE
  BY <1>1, <1>2, <1>5, ClosedIs
<1> HIDE DEF e
<1>7. /\ IsContext(d) /\ d.current = Parent(t) /\ d.completedCycle = TRUE
      /\ Drops(c, d, t)
      /\ \A u \in DOMAIN c.state : ~ IsStrictPrefix(t, u) => u \in DOMAIN d.state
      /\ t \notin DOMAIN c.generator => d.state[t] = ClosedState(c, t)
  <2>1. CASE t \in DOMAIN c.generator
    <3>1. d = NextValue(e, t)
      BY <2>1 DEF closeCurrent, isGeneratorTracker, e
    <3>2. t \in DOMAIN e.state /\ t \in DOMAIN e.generator
      BY <1>2, <1>6, <2>1
    <3> HIDE DEF d
    <3>3. Drops(e, d, t)
      BY <1>6, <3>1, <3>2, NextValueIs
    <3>4. Drops(c, d, t)
      BY <1>6, <3>3, DropsTransitive
    <3>5. QED
      BY <1>6, <2>1, <3>1, <3>2, <3>4, NextValueIs
  <2>2. CASE t \notin DOMAIN c.generator
    <3>1. d = e
      BY <2>2 DEF closeCurrent, isGeneratorTracker, e
    <3>2. QED
      BY <1>6, <3>1
  <2>3. QED
    BY <2>1, <2>2
<1> HIDE DEF d
<1>8. \A k \in 0 .. n - 1 : SubSeq(t, 1, k) \in DOMAIN d.state
      /\ d.state[SubSeq(t, 1, k)] = c.state[SubSeq(t, 1, k)]
  BY <1>2, <1>3, <1>7 DEF Drops
<1>9. /\ \A k \in 0 .. Len(d.current) : SubSeq(d.current, 1, k) \in DOMAIN d.state
      /\ \A k \in 1 .. Len(d.current) : d.state[SubSeq(d.current, 1, k)] \in Busy
  <2>1. Len(d.current) = n - 1 /\ \A k \in 0 .. n - 1 : SubSeq(d.current, 1, k) = SubSeq(t, 1, k)
    BY <1>1, <1>7
  <2>2. \A k \in 1 .. n - 1 : k \in 0 .. n - 1
    BY <1>1
  <2>3. QED
    BY <1>2, <1>8, <2>1, <2>2
<1>10. Ordered(d)
  BY <1>7, <1>9 DEF Ordered
<1>11. ~ IsStrictPrefix(t, t)
  BY DEF IsStrictPrefix
<1>12. Settles(c, d)
  BY <1>2, <1>7, DropsSettles
<1>13. QED
  BY <1>2, <1>4, <1>7, <1>10, <1>11, <1>12 DEF d

-----------------------------------------------------------------------------
(***************************************************************************)
(* The function that close defines by recursion exists: each of its values *)
(* up to a number gives the next.                                          *)
(***************************************************************************)
LEMMA RepeatedExists ==
  ASSUME NEW c, NEW n \in Nat
  PROVE  \E f : f = [i \in 0 .. n |-> IF i = 0 THEN c ELSE closeNext(f[i - 1])]
<1> DEFINE Defines(f, k) == f = [i \in 0 .. k |-> IF i = 0 THEN c ELSE closeNext(f[i - 1])]
           G == {k \in 0 .. n : \E f : Defines(f, k)}
<1>1. 0 \in G
  <2> DEFINE f == [i \in 0 .. 0 |-> c]
  <2>1. Defines(f, 0)
    OBVIOUS
  <2> HIDE DEF f
  <2>2. \E g : Defines(g, 0)
    BY <2>1
  <2>3. QED
    BY <2>2
<1>2. ASSUME NEW k \in 1 .. n, k - 1 \in G
      PROVE  k \in G
  <2>1. PICK f : Defines(f, k - 1)
    BY <1>2
  <2> DEFINE g == [i \in 0 .. k |-> IF i = k THEN closeNext(f[k - 1]) ELSE f[i]]
  <2>2. \A i \in 0 .. k - 1 : f[i] = IF i = 0 THEN c ELSE closeNext(f[i - 1])
    BY <2>1
  <2>3. \A i \in 0 .. k : g[i] = IF i = 0 THEN c ELSE closeNext(g[i - 1])
    <3>1. ASSUME NEW i \in 0 .. k PROVE g[i] = IF i = 0 THEN c ELSE closeNext(g[i - 1])
      <4>1. CASE i = k
        <5>1. k - 1 \in 0 .. k /\ k - 1 # k /\ k \in 0 .. k /\ k # 0
          OBVIOUS
        <5>2. g[k - 1] = f[k - 1] /\ g[k] = closeNext(f[k - 1])
          BY <5>1
        <5> HIDE DEF g
        <5>3. QED
          BY <4>1, <5>1, <5>2
      <4>2. CASE i # k
        <5>1. i \in 0 .. k - 1 /\ (i # 0 => i - 1 \in 0 .. k /\ i - 1 # k)
          BY <4>2
        <5>2. g[i] = f[i] /\ (i # 0 => g[i - 1] = f[i - 1])
          BY <4>2, <5>1
        <5> HIDE DEF g
        <5>3. QED
          BY <2>2, <5>1, <5>2
      <4>3. QED
        BY <4>1, <4>2
    <3>2. QED
      BY <3>1
  <2>4. g = [i \in 0 .. k |-> g[i]]
    OBVIOUS
  <2> HIDE DEF g
  <2>5. g = [i \in 0 .. k |-> IF i = 0 THEN c ELSE closeNext(g[i - 1])]
    BY <2>3, <2>4
  <2>6. QED
    BY <2>5
<1> HIDE DEF G
<1>3. G = 0 .. n
  <2>1. G \in SUBSET (0 .. n)
    BY DEF G
  <2>2. QED
    BY <1>1, <1>2, <2>1, UpToInduction
<1>4. n \in G
  BY <1>3
<1>5. QED
  BY <1>4 DEF G

(* What close answers: the last of a sequence of contexts, in each of      *)
(* which one tracker has been closed.                                      *)
LEMMA CloseIs ==
  ASSUME NEW c, NEW t, IsPrefix(t, c.current), Len(c.current) - Len(t) + 1 \in Nat
  PROVE  LET n == Len(c.current) - Len(t) + 1
         IN  \E f : /\ f[0] = c
                    /\ \A i \in 1 .. n : f[i] = closeCurrent(f[i - 1], f[i - 1].current)
                    /\ close(c, t) = f[n]
<1> DEFINE n == Len(c.current) - Len(t) + 1
           Defines(f) == f = [i \in 0 .. n |-> IF i = 0 THEN c ELSE closeNext(f[i - 1])]
           f == CHOOSE f : Defines(f)
<1>1. Defines(f)
  BY RepeatedExists
<1>2. close(c, t) = f[n]
  BY DEF close
<1> HIDE DEF f
<1>3. f[0] = c /\ \A i \in 1 .. n : f[i] = closeNext(f[i - 1])
  BY <1>1
<1>4. \A d : closeNext(d) = closeCurrent(d, d.current)
  BY DEF closeNext
<1>5. QED
  BY <1>2, <1>3, <1>4

(***************************************************************************)
(* close, called of a tracker around what is current, leaves its parent    *)
(* current, and every tracker in a state of its own.                       *)
(***************************************************************************)
LEMMA ClosesInOrder ==
  ASSUME NEW c, Ordered(c), NEW m \in 1 .. Len(c.current)
  PROVE  LET t == SubSeq(c.current, 1, m)
             d == close(c, t)
         IN  /\ Ordered(d)
             /\ d.current = Parent(t)
             /\ d.completedCycle = TRUE
             /\ Settles(c, d)
             /\ t \in DOMAIN d.state
             /\ t \notin DOMAIN c.generator =>
                  d.state[t] \in {"CompletedSuccessfully", "ExecutingChildren", "NeedsAnotherRun"}
<1> DEFINE s == c.current
           t == SubSeq(s, 1, m)
           n == Len(s) - m
<1>1. s \in Path /\ Len(s) \in Nat /\ m \in Nat /\ n \in Nat /\ m >= 1
  BY DEF Ordered, IsContext, Path
<1>2. /\ t \in Path /\ Len(t) = m /\ Len(s) - Len(t) + 1 = n + 1 /\ IsPrefix(t, s)
      /\ Parent(t) = SubSeq(s, 1, m - 1)
  <2>1. t \in Path /\ Len(t) = m /\ Parent(t) = SubSeq(s, 1, m - 1)
    BY <1>1, PathParts
  <2>2. SubSeq(s, 1, Len(t)) = t /\ Len(t) <= Len(s)
    BY <1>1, <2>1
  <2> HIDE DEF t
  <2>3. IsPrefix(t, s)
    BY <1>1, <2>1, <2>2, PrefixIs
  <2>4. QED
    BY <1>1, <2>1, <2>3
<1> HIDE DEF t, n
<1>3. PICK f : /\ f[0] = c
               /\ \A i \in 1 .. n + 1 : f[i] = closeCurrent(f[i - 1], f[i - 1].current)
               /\ close(c, t) = f[n + 1]
  <2> DEFINE k == Len(s) - Len(t) + 1
  <2>1. k = n + 1 /\ k \in Nat
    BY <1>1, <1>2
  <2>2. \E f : /\ f[0] = c
               /\ \A i \in 1 .. k : f[i] = closeCurrent(f[i - 1], f[i - 1].current)
               /\ close(c, t) = f[k]
    BY <1>2, <2>1, CloseIs
  <2> HIDE DEF k
  <2>3. QED
    BY <2>1, <2>2
<1> DEFINE InOrder(i) == /\ Ordered(f[i])
                         /\ f[i].current = SubSeq(s, 1, Len(s) - i)
                         /\ Settles(c, f[i])
           G == {i \in 0 .. n : InOrder(i)}
<1>4. ASSUME NEW i \in 0 .. n, InOrder(i)
      PROVE  LET u == SubSeq(s, 1, Len(s) - i)
                 d == f[i + 1]
             IN  /\ Len(s) - i > 0
                 /\ Ordered(d) /\ d.current = Parent(u)
                 /\ d.completedCycle = TRUE
                 /\ Settles(c, d)
                 /\ u \in DOMAIN d.state
                 /\ u \notin DOMAIN c.generator =>
                      d.state[u] \in {"CompletedSuccessfully", "ExecutingChildren", "NeedsAnotherRun"}
  <2> DEFINE u == SubSeq(s, 1, Len(s) - i)
  <2>1. Len(s) - i \in 0 .. Len(s) /\ Len(s) - i > 0 /\ i + 1 \in 1 .. n + 1 /\ (i + 1) - 1 = i
    BY <1>1 DEF n
  <2>2. u \in Path /\ Len(u) = Len(s) - i
    BY <1>1, <2>1, PathParts
  <2> HIDE DEF u
  <2>3. f[i].current = u /\ Ordered(f[i]) /\ Len(f[i].current) > 0
    BY <1>4, <2>1, <2>2 DEF u
  <2>4. f[i + 1] = closeCurrent(f[i], u)
    BY <1>3, <2>1, <2>3
  <2>5. /\ Ordered(f[i + 1]) /\ f[i + 1].current = Parent(u) /\ f[i + 1].completedCycle = TRUE
        /\ Settles(f[i], f[i + 1])
        /\ u \in DOMAIN f[i + 1].state
        /\ u \notin DOMAIN f[i].generator =>
             f[i + 1].state[u] \in {"CompletedSuccessfully", "ExecutingChildren", "NeedsAnotherRun"}
    BY <2>3, <2>4, CurrentCloses
  <2>6. Settles(c, f[i + 1])
    BY <1>4, <2>5, SettlesTransitive
  <2>7. DOMAIN f[i].generator \subseteq DOMAIN c.generator
    BY <1>4 DEF Settles, Shrinks
  <2>8. QED
    BY <2>1, <2>5, <2>6, <2>7 DEF u
<1>5. 0 \in G
  BY <1>1, <1>3, PathParts, SameShrinks DEF Settles
<1>6. ASSUME NEW i \in 1 .. n, i - 1 \in G
      PROVE  i \in G
  <2>1. i - 1 \in 0 .. n /\ InOrder(i - 1) /\ (i - 1) + 1 = i /\ i \in 0 .. n
    BY <1>6, <1>1
  <2> DEFINE u == SubSeq(s, 1, Len(s) - (i - 1))
  <2>2. /\ Len(s) - (i - 1) > 0 /\ Ordered(f[i]) /\ f[i].current = Parent(u)
        /\ Settles(c, f[i])
    <3> HIDE DEF InOrder
    <3>1. QED
      BY <1>4, <2>1
  <2>3. Len(s) - (i - 1) \in 0 .. Len(s) /\ Len(s) - (i - 1) - 1 = Len(s) - i
    BY <1>1, <2>2
  <2>4. Parent(u) = SubSeq(s, 1, Len(s) - i)
    <3> DEFINE k == Len(s) - (i - 1)
    <3>1. k \in 0 .. Len(s) /\ k > 0 /\ k - 1 = Len(s) - i
      BY <2>2, <2>3
    <3> HIDE DEF k
    <3>2. Parent(SubSeq(s, 1, k)) = SubSeq(s, 1, k - 1)
      BY <1>1, <3>1, PathParts
    <3>3. QED
      BY <3>1, <3>2 DEF k
  <2>5. QED
    BY <2>1, <2>2, <2>4
<1> HIDE DEF G
<1>7. G = 0 .. n
  <2>1. G \in SUBSET (0 .. n)
    BY DEF G
  <2>2. QED
    BY <1>1, <1>5, <1>6, <2>1, UpToInduction
<1>8. n \in 0 .. n /\ InOrder(n) /\ Len(s) - n = m
  BY <1>1, <1>7 DEF G, n
<1> HIDE DEF InOrder
<1>9. QED
  BY <1>2, <1>3, <1>4, <1>8 DEF t

-----------------------------------------------------------------------------
(* Whether a tracker is filtered out depends on what it is called with and *)
(* on which of the trackers around it are generators.                      *)
LEMMA FilteredSame ==
  ASSUME NEW c, NEW d, d.filters = c.filters, NEW t \in Path,
         \A i \in 1 .. Len(t) :
           isGeneratorTracker(d, SubSeq(t, 1, i)) <=> isGeneratorTracker(c, SubSeq(t, 1, i))
  PROVE  FilteredOut(d, t) <=> FilteredOut(c, t)
<1>1. Filters(d, t) = Filters(c, t)
  BY DEF Filters
<1>2. Len(t) > 1 => (isGeneratorTracker(d, t) <=> isGeneratorTracker(c, t))
  <2>1. Len(t) \in Nat /\ SubSeq(t, 1, Len(t)) = t
    BY PathParts DEF Path
  <2>2. Len(t) > 1 => Len(t) \in 1 .. Len(t)
    BY <2>1
  <2>3. QED
    BY <2>1, <2>2
<1>3. QED
  BY <1>1, <1>2 DEF FilteredOut

(* d is c with a tracker t, not yet started if c has none.                 *)
Gains(c, d, t) ==
  /\ IsContext(d)
  /\ DOMAIN d.state = DOMAIN c.state \cup {t}
  /\ \A u \in DOMAIN c.state : d.state[u] = c.state[u]
  /\ t \notin DOMAIN c.state => d.state[t] = "NotStarted"
  /\ \A u \in DOMAIN c.state : u \in DOMAIN d.generator <=> u \in DOMAIN c.generator
  /\ DOMAIN d.generator \subseteq DOMAIN c.generator \cup {t}
  /\ d.filters = c.filters
  /\ d.current = c.current
  /\ d.completedCycle = c.completedCycle

LEMMA AddedIs ==
  ASSUME NEW c, IsContext(c), NEW t \in Path
  PROVE  /\ Gains(c, Added(c, t), t)
         /\ Added(c, t).generator = c.generator
<1> DEFINE d     == Added(c, t)
           state == With(c.state, t, "NotStarted")
<1>1. CASE t \in DOMAIN c.state
  BY <1>1 DEF Added, Gains
<1>2. CASE t \notin DOMAIN c.state
  <2>1. /\ d.state = state /\ d.generator = c.generator /\ d.filters = c.filters
        /\ d.current = c.current /\ d.completedCycle = c.completedCycle
        /\ d \in [state : {d.state}, generator : {d.generator}, filters : {d.filters},
                  current : {d.current}, completedCycle : {d.completedCycle}]
    BY <1>2 DEF Added, IsContext
  <2>2. /\ DOMAIN state = DOMAIN c.state \cup {t}
        /\ state[t] = "NotStarted" /\ \A u \in DOMAIN c.state : state[u] = c.state[u]
    BY <1>2 DEF With
  <2>3. state = [u \in DOMAIN state |-> state[u]]
    BY DEF With
  <2> HIDE DEF d, state
  <2>4. \A u \in DOMAIN state : state[u] \in CycleState
    BY <2>2 DEF IsContext, CycleState
  <2>5. state \in [DOMAIN state -> CycleState]
    BY <2>3, <2>4
  <2>6. IsContext(d)
    BY <2>1, <2>2, <2>5 DEF IsContext
  <2>7. QED
    BY <1>2, <2>1, <2>2, <2>6 DEF Gains, d
<1>3. QED
  BY <1>1, <1>2

(* open, of a tracker below the current one.                               *)
LEMMA OpenIs ==
  ASSUME NEW c, IsContext(c), NEW t \in DOMAIN c.state
  PROVE  LET d == open(c, t)
         IN  /\ IsContext(d)
             /\ DOMAIN d.state = DOMAIN c.state
             /\ d.state[t] = "Executing"
             /\ \A u \in DOMAIN c.state : u # t /\ d.state[u] # c.state[u] =>
                  IsStrictPrefix(u, t) /\ d.state[u] = "ExecutingChildren"
             /\ d.generator = c.generator
             /\ d.filters = c.filters
             /\ d.current = t
             /\ d.completedCycle = c.completedCycle
<1> DEFINE d == open(c, t)
           tellsOf(u) == \A v \in DOMAIN c.state :
             IsStrictPrefix(v, t) /\ IsPrefix(u, v) => c.state[v] # "ExecutingChildren"
           state == [u \in DOMAIN c.state |->
                       CASE u = t -> "Executing"
                         [] IsStrictPrefix(u, t) /\ tellsOf(u) -> "ExecutingChildren"
                         [] OTHER -> c.state[u]]
<1>1. /\ d.state = state /\ d.generator = c.generator /\ d.filters = c.filters
      /\ d.current = t /\ d.completedCycle = c.completedCycle
      /\ d \in [state : {d.state}, generator : {d.generator}, filters : {d.filters},
                current : {d.current}, completedCycle : {d.completedCycle}]
  BY DEF open, IsContext
<1>2. ASSUME NEW u \in DOMAIN c.state
      PROVE  /\ u = t => state[u] = "Executing"
             /\ u # t => \/ IsStrictPrefix(u, t) /\ state[u] = "ExecutingChildren"
                         \/ state[u] = c.state[u]
  <2> HIDE DEF tellsOf
  <2>1. state[u] = CASE u = t -> "Executing"
                     [] IsStrictPrefix(u, t) /\ tellsOf(u) -> "ExecutingChildren"
                     [] OTHER -> c.state[u]
    OBVIOUS
  <2> HIDE DEF state
  <2>2. CASE u = t
    <3>1. ~ IsStrictPrefix(u, t)
      BY <2>2 DEF IsStrictPrefix
    <3>2. QED
      BY <2>1, <2>2, <3>1
  <2>3. CASE u # t /\ IsStrictPrefix(u, t) /\ tellsOf(u)
    BY <2>1, <2>3
  <2>4. CASE u # t /\ ~ (IsStrictPrefix(u, t) /\ tellsOf(u))
    BY <2>1, <2>4
  <2>5. QED
    BY <2>2, <2>3, <2>4
<1>3. DOMAIN state = DOMAIN c.state /\ state = [u \in DOMAIN state |-> state[u]]
  OBVIOUS
<1> HIDE DEF d, state
<1>4. \A u \in DOMAIN state : state[u] \in CycleState
  BY <1>2, <1>3 DEF IsContext, CycleState
<1>5. state \in [DOMAIN c.state -> CycleState]
  BY <1>3, <1>4
<1>6. IsContext(d)
  BY <1>1, <1>3, <1>5 DEF IsContext
<1>7. QED
  BY <1>1, <1>2, <1>3, <1>6 DEF d

AddedGenerator(c, t, size) ==
  IF t \in DOMAIN c.state THEN c
  ELSE [Added(c, t) EXCEPT !.generator = With(@, t, [at |-> 1, size |-> size])]

LEMMA AddedGeneratorIs ==
  ASSUME NEW c, IsContext(c), NEW t \in Path, NEW size \in Nat
  PROVE  /\ Gains(c, AddedGenerator(c, t, size), t)
         /\ t \notin DOMAIN c.state => t \in DOMAIN AddedGenerator(c, t, size).generator
<1> DEFINE d == AddedGenerator(c, t, size)
           e == Added(c, t)
           generator == With(e.generator, t, [at |-> 1, size |-> size])
<1>1. CASE t \in DOMAIN c.state
  BY <1>1 DEF AddedGenerator, Gains
<1>2. CASE t \notin DOMAIN c.state
  <2>1. Gains(c, e, t) /\ e.generator = c.generator /\ IsContext(e)
    BY AddedIs DEF Gains
  <2> HIDE DEF e
  <2>2. /\ d.state = e.state /\ d.generator = generator /\ d.filters = e.filters
        /\ d.current = e.current /\ d.completedCycle = e.completedCycle
        /\ d \in [state : {d.state}, generator : {d.generator}, filters : {d.filters},
                  current : {d.current}, completedCycle : {d.completedCycle}]
    BY <1>2, <2>1 DEF AddedGenerator, IsContext, e
  <2>3. /\ DOMAIN generator = DOMAIN c.generator \cup {t}
        /\ generator = [u \in DOMAIN generator |-> generator[u]]
        /\ generator[t] = [at |-> 1, size |-> size]
        /\ \A u \in DOMAIN c.generator : u # t => generator[u] = c.generator[u]
    BY <2>1 DEF With
  <2> HIDE DEF d, generator
  <2>4. \A u \in DOMAIN generator : generator[u] \in [at : Nat, size : Nat]
    <3>1. [at |-> 1, size |-> size] \in [at : Nat, size : Nat]
      OBVIOUS
    <3>2. \A u \in DOMAIN c.generator : c.generator[u] \in [at : Nat, size : Nat]
      BY DEF IsContext
    <3>3. QED
      BY <2>3, <3>1, <3>2
  <2>5. generator \in [DOMAIN generator -> [at : Nat, size : Nat]]
    BY <2>3, <2>4
  <2>6. IsContext(d)
    BY <2>1, <2>2, <2>5 DEF IsContext
  <2>7. t \in DOMAIN d.generator
    BY <2>2, <2>3
  <2>8. Gains(c, d, t)
    BY <1>2, <2>1, <2>2, <2>3, <2>6 DEF Gains
  <2>9. QED
    BY <2>7, <2>8 DEF d
<1>3. QED
  BY <1>1, <1>2

(* What acquire does: it adds a tracker below the current one, if there is *)
(* none, and opens it or leaves it.                                        *)
LEMMA AcquireIs ==
  ASSUME NEW c, NEW place, NEW size
  PROVE  /\ LET t == Append(c.current, place)
            IN  acquireSection(c, place) =
                  IF ~ Added(c, t).completedCycle /\ ~ isComplete(Added(c, t), t)
                  THEN open(Added(c, t), t) ELSE Added(c, t)
         /\ LET t == GeneratorAt(c, place)
            IN  acquireGenerator(c, place, size) =
                  IF isComplete(AddedGenerator(c, t, size), t) THEN AddedGenerator(c, t, size)
                  ELSE open(AddedGenerator(c, t, size), t)
  BY DEF acquireSection, acquireGenerator, AddedGenerator

LEMMA GainsInOrder ==
  ASSUME NEW c, Ordered(c), NEW t, NEW d, Gains(c, d, t)
  PROVE  Ordered(d)
<1>1. IsContext(d) /\ d.current = c.current
      /\ \A u \in DOMAIN c.state : u \in DOMAIN d.state /\ d.state[u] = c.state[u]
  BY DEF Gains
<1>2. Len(c.current) \in Nat
  BY DEF Ordered, IsContext, Path
<1>3. \A k \in 1 .. Len(c.current) : k \in 0 .. Len(c.current)
  BY <1>2
<1>4. QED
  BY <1>1, <1>3 DEF Ordered

LEMMA OpensInOrder ==
  ASSUME NEW c, Ordered(c), NEW place \in Nat, Append(c.current, place) \in DOMAIN c.state
  PROVE  Ordered(open(c, Append(c.current, place)))
<1> DEFINE t == Append(c.current, place)
           d == open(c, t)
           n == Len(c.current)
<1>1. /\ t \in Path /\ Len(t) = n + 1 /\ n \in Nat /\ SubSeq(t, 1, n + 1) = t
      /\ \A k \in 0 .. n : SubSeq(t, 1, k) = SubSeq(c.current, 1, k)
  BY PathGrows DEF Ordered, IsContext, Path
<1>2. /\ IsContext(d) /\ d.current = t /\ DOMAIN d.state = DOMAIN c.state
      /\ d.state[t] = "Executing"
      /\ \A u \in DOMAIN c.state : u # t => d.state[u] = c.state[u] \/ d.state[u] = "ExecutingChildren"
  <2>1. IsContext(c) /\ t \in DOMAIN c.state
    BY DEF Ordered
  <2> HIDE DEF t
  <2>2. QED
    BY <2>1, OpenIs
<1> HIDE DEF t, d
<1>3. \A k \in 0 .. n : SubSeq(c.current, 1, k) \in DOMAIN c.state
  BY DEF Ordered
<1>4. ASSUME NEW k \in 0 .. n + 1
      PROVE  SubSeq(t, 1, k) \in DOMAIN d.state /\ (k > 0 => d.state[SubSeq(t, 1, k)] \in Busy)
  <2>1. CASE k = n + 1
    BY <1>1, <1>2, <2>1 DEF Busy, t
  <2>2. CASE k # n + 1
    <3>1. k \in 0 .. n /\ (k > 0 => k \in 1 .. n)
      BY <1>1, <2>2
    <3>2. PICK u : u = SubSeq(t, 1, k) /\ u = SubSeq(c.current, 1, k)
      BY <1>1, <3>1
    <3>3. u \in DOMAIN d.state /\ (k > 0 => c.state[u] \in Busy)
      BY <1>2, <1>3, <3>1, <3>2 DEF Ordered
    <3>4. QED
      BY <1>2, <3>2, <3>3 DEF Busy
  <2>3. QED
    BY <2>1, <2>2
<1>5. \A k \in 1 .. n + 1 : k \in 0 .. n + 1 /\ k > 0
  BY <1>1
<1>6. Ordered(d)
  BY <1>1, <1>2, <1>4, <1>5 DEF Ordered
<1>7. QED
  BY <1>6 DEF d, t

(* fail, called of a tracker around what is current but the outermost.     *)
LEMMA FailsInOrder ==
  ASSUME NEW c, Ordered(c), NEW m \in 2 .. Len(c.current)
  PROVE  LET t == SubSeq(c.current, 1, m)
             d == fail(c, t)
         IN  /\ Ordered(d)
             /\ d.current = Parent(t)
             /\ d.completedCycle = TRUE
             /\ Settles(c, d)
<1> DEFINE s == c.current
           t == SubSeq(s, 1, m)
           d == fail(c, t)
           state == [c.state EXCEPT ![t] = "Failed", ![Parent(t)] = "NeedsAnotherRun"]
<1>1. s \in Path /\ Len(s) \in Nat /\ IsContext(c) /\ m \in 0 .. Len(s) /\ m \in 1 .. Len(s)
      /\ m - 1 \in 0 .. Len(s) /\ m - 1 \in 1 .. Len(s)
  BY DEF Ordered, IsContext, Path
<1>2. /\ t \in Path /\ Len(t) = m /\ Parent(t) = SubSeq(s, 1, m - 1)
      /\ \A j \in 0 .. m : SubSeq(t, 1, j) = SubSeq(s, 1, j)
  BY <1>1, PathParts
<1>3. /\ Parent(t) \in Path /\ Len(Parent(t)) = m - 1
      /\ \A j \in 0 .. m - 1 : SubSeq(Parent(t), 1, j) = SubSeq(s, 1, j)
  <2>1. /\ SubSeq(s, 1, m - 1) \in Path /\ Len(SubSeq(s, 1, m - 1)) = m - 1
        /\ \A j \in 0 .. m - 1 : SubSeq(SubSeq(s, 1, m - 1), 1, j) = SubSeq(s, 1, j)
    BY <1>1, PathParts
  <2>2. QED
    BY <1>2, <2>1
<1>4. /\ t \in DOMAIN c.state /\ c.state[t] \in Busy
      /\ Parent(t) \in DOMAIN c.state /\ c.state[Parent(t)] \in Busy
  BY <1>1, <1>2 DEF Ordered
<1>5. /\ d.state = state /\ d.generator = c.generator /\ d.filters = c.filters
      /\ d.current = Parent(t) /\ d.completedCycle = TRUE
      /\ d \in [state : {d.state}, generator : {d.generator}, filters : {d.filters},
                current : {d.current}, completedCycle : {d.completedCycle}]
  BY <1>1 DEF fail, IsContext
<1>6. t # Parent(t)
  BY <1>1, <1>2, <1>3
<1> HIDE DEF d, t, s
<1>7. /\ DOMAIN state = DOMAIN c.state /\ state \in [DOMAIN c.state -> CycleState]
      /\ state[t] = "Failed" /\ state[Parent(t)] = "NeedsAnotherRun"
      /\ \A u \in DOMAIN c.state : u # t /\ u # Parent(t) => state[u] = c.state[u]
  BY <1>1, <1>4, <1>6 DEF IsContext, CycleState
<1> HIDE DEF state
<1>8. IsContext(d)
  BY <1>1, <1>3, <1>5, <1>7 DEF IsContext
<1>9. Settles(c, d)
  <2>1. Shrinks(c, d)
    BY <1>5, <1>7, SameShrinks
  <2>2. QED
    BY <1>4, <1>5, <1>7, <2>1 DEF Settles, Busy, Completed
<1>10. Ordered(d)
  <2>1. \A j \in 0 .. m - 1 : /\ SubSeq(s, 1, j) \in DOMAIN c.state
                              /\ j > 0 => c.state[SubSeq(s, 1, j)] \in Busy
                              /\ SubSeq(s, 1, j) # t
    <3>1. \A j \in 0 .. m - 1 : j \in 0 .. Len(s) /\ (j > 0 => j \in 1 .. Len(s)) /\ j # m
      BY <1>1
    <3>2. \A j \in 0 .. m - 1 : Len(SubSeq(s, 1, j)) = j
      BY <1>1, <3>1, PathParts
    <3>3. QED
      BY <1>2, <3>1, <3>2 DEF Ordered, s
  <2>2. \A j \in 1 .. m - 1 : j \in 0 .. m - 1 /\ j > 0
    BY <1>1
  <2>3. \A j \in 0 .. m - 1 : /\ SubSeq(s, 1, j) \in DOMAIN d.state
                              /\ j > 0 => d.state[SubSeq(s, 1, j)] \in Busy
    BY <1>5, <1>7, <2>1 DEF Busy
  <2>4. QED
    BY <1>3, <1>5, <1>8, <2>2, <2>3 DEF Ordered
<1>11. QED
  BY <1>5, <1>9, <1>10 DEF d, t, s

(* Where the trackers of a test case begin.                                *)
LEMMA StartsInOrder ==
  /\ \A filters : Ordered(startRun(filters))
  /\ \A c : IsContext(c) /\ Root \in DOMAIN c.state => Ordered(startCycle(c))
<1>1. Root \in Path /\ Len(Root) = 0 /\ SubSeq(Root, 1, 0) = Root
  BY PathParts DEF Root, Path
<1>2. ASSUME NEW filters PROVE Ordered(startRun(filters))
  <2> DEFINE d     == startRun(filters)
             state == [t \in {Root} |-> "NotStarted"]
  <2>1. /\ d.state = state /\ d.generator = <<>> /\ d.filters = filters
        /\ d.current = Root /\ d.completedCycle = FALSE
        /\ d \in [state : {d.state}, generator : {d.generator}, filters : {d.filters},
                  current : {d.current}, completedCycle : {d.completedCycle}]
    BY DEF startRun
  <2>2. DOMAIN state = {Root} /\ state \in [{Root} -> CycleState]
    BY DEF CycleState
  <2>3. <<>> \in [DOMAIN <<>> -> [at : Nat, size : Nat]]
    OBVIOUS
  <2> HIDE DEF d, state
  <2>4. IsContext(d)
    BY <1>1, <2>1, <2>2, <2>3 DEF IsContext
  <2>5. QED
    BY <1>1, <2>1, <2>2, <2>4 DEF Ordered, d
<1>3. ASSUME NEW c, IsContext(c), Root \in DOMAIN c.state PROVE Ordered(startCycle(c))
  <2> DEFINE d == startCycle(c)
  <2>1. /\ d.state = c.state /\ d.generator = c.generator /\ d.filters = c.filters
        /\ d.current = Root /\ d.completedCycle = FALSE
        /\ d \in [state : {d.state}, generator : {d.generator}, filters : {d.filters},
                  current : {d.current}, completedCycle : {d.completedCycle}]
    BY <1>3 DEF startCycle, IsContext
  <2> HIDE DEF d
  <2>2. IsContext(d)
    BY <1>1, <1>3, <2>1 DEF IsContext
  <2>3. /\ \A k \in 0 .. Len(d.current) : SubSeq(d.current, 1, k) = Root
        /\ \A k \in 1 .. Len(d.current) : FALSE
    BY <1>1, <2>1
  <2>4. Root \in DOMAIN d.state
    BY <1>3, <2>1
  <2>5. Ordered(d)
    BY <2>2, <2>3, <2>4 DEF Ordered
  <2>6. QED
    BY <2>5 DEF d
<1>4. QED
  BY <1>2, <1>3

-----------------------------------------------------------------------------
(***************************************************************************)
(* Where a tracker may be.                                                 *)
(***************************************************************************)
(* The sections around a place of a test function, and those on a path.    *)
Scopes(code, x) == {j \in 1 .. x - 1 : code[j] = "section" /\ x <= EndOf(code, j)}

SectionsOn(code, t) == {t[i] : i \in {i \in 2 .. Len(t) : code[t[i]] = "section"}}

(* The trackers that the function may ask for where p is current.          *)
IsIn(code, p, x) == code[x] \in {"section", "generate"} /\ Scopes(code, x) = SectionsOn(code, p)

(* A tracker is where its place is: on a path of increasing places, in the *)
(* sections around that; and it has a generator if it is a GENERATE.       *)
Placed(code, c, t) ==
  /\ Len(t) = 1 => t = TestCase
  /\ Len(t) < 2 => t \notin DOMAIN c.generator
  /\ \A i \in 1 .. Len(t) - 1 : t[i] < t[Len(t)]
  /\ Len(t) >= 2 => /\ t[Len(t)] \in 1 .. Len(code)
                    /\ IsIn(code, Parent(t), t[Len(t)])
                    /\ t \in DOMAIN c.generator <=> code[t[Len(t)]] = "generate"

Finished(c, t) == t \in DOMAIN c.state /\ isComplete(c, t)

(* What is tracked before t, beside it or beside what is around it, is     *)
(* complete.                                                               *)
DoneBefore(code, c, t) ==
  \A k \in 1 .. Len(t) - 1 : \A x \in 1 .. Len(code) :
    t[k] < x /\ x < t[k + 1] /\ IsIn(code, SubSeq(t, 1, k), x) =>
      Finished(c, Append(SubSeq(t, 1, k), x))

IsBusy(c, t) == t \in DOMAIN c.state /\ c.state[t] \in Busy

Started(c, t) == t \in DOMAIN c.state /\ c.state[t] # "NotStarted"

StartedSection(c, t) == Started(c, t) /\ t \notin DOMAIN c.generator

(***************************************************************************)
(* The trackers of a test case: they form a tree; none is both busy and    *)
(* complete; and a section is started only when all before it is complete, *)
(* so that a test case is run from its beginning to its end.               *)
(***************************************************************************)
Tree(code, c) ==
  /\ Ordered(c)
  /\ DOMAIN c.generator \subseteq DOMAIN c.state
  /\ \A t \in DOMAIN c.state :
       /\ \A k \in 0 .. Len(t) : SubSeq(t, 1, k) \in DOMAIN c.state
       /\ Placed(code, c, t)
       /\ IsBusy(c, t) => ~ isComplete(c, t)
       /\ StartedSection(c, t) => DoneBefore(code, c, t)

(* No section that has started is still to come.                           *)
NoneAhead(c, place) ==
  \A t \in DOMAIN c.state : \A k \in 1 .. Len(c.current) :
    StartedSection(c, t) /\ Len(t) > k /\ t[k + 1] >= place =>
      SubSeq(t, 1, k) # SubSeq(c.current, 1, k)

LEMMA FinishedStays ==
  ASSUME NEW code, NEW c, NEW d, NEW t, DoneBefore(code, c, t),
         \A k \in 1 .. Len(t) - 1 : \A x \in 1 .. Len(code) :
           Finished(c, Append(SubSeq(t, 1, k), x)) => Finished(d, Append(SubSeq(t, 1, k), x))
  PROVE  DoneBefore(code, d, t)
  BY DEF DoneBefore

(* Closing and failing keep the tree.                                      *)
LEMMA SettlesTree ==
  ASSUME NEW code, NEW c, Tree(code, c), NEW d, Settles(c, d), Ordered(d)
  PROVE  Tree(code, d)
<1>1. /\ \A t \in DOMAIN c.state : t \in Path
      /\ \A t \in DOMAIN d.state : t \in DOMAIN c.state /\ t \in Path
      /\ \A t \in DOMAIN d.state : t \in DOMAIN d.generator <=> t \in DOMAIN c.generator
      /\ DOMAIN d.generator \subseteq DOMAIN d.state /\ d.filters = c.filters
      /\ Shrinks(c, d) /\ KeepsFamilies(c, d)
  <2>1. IsContext(c) /\ DOMAIN c.generator \subseteq DOMAIN c.state /\ Shrinks(c, d)
    BY DEF Tree, Ordered, Settles
  <2>2. QED
    BY <2>1 DEF IsContext, Shrinks
<1>2. Root \in DOMAIN d.state
  <2>1. d.current \in Path /\ Len(d.current) \in Nat
    BY DEF Ordered, IsContext, Path
  <2>2. 0 \in 0 .. Len(d.current) /\ SubSeq(d.current, 1, 0) = Root
    BY <2>1, PathParts DEF Root, Path
  <2>3. QED
    BY <2>2 DEF Ordered
<1>3. ASSUME NEW t \in DOMAIN d.state, NEW k \in 0 .. Len(t)
      PROVE  SubSeq(t, 1, k) \in DOMAIN d.state
  <2>1. t \in Path /\ Len(t) \in Nat /\ SubSeq(t, 1, k) \in DOMAIN c.state /\ SubSeq(t, 1, k) \in Path
        /\ Len(SubSeq(t, 1, k)) = k
    BY <1>1, PathParts DEF Tree, Path
  <2>2. CASE k = 0
    <3>1. PICK s \in Path : s = SubSeq(t, 1, k) /\ Len(s) = 0
      BY <2>1, <2>2
    <3>2. s = Root
      BY <3>1, RootIs
    <3>3. QED
      BY <1>2, <3>1, <3>2
  <2>3. CASE k # 0
    <3>1. k \in 1 .. Len(t) /\ Len(t) # 0
      BY <2>1, <2>3
    <3>2. t # Root /\ SubSeq(t, 1, k) # Root
      BY <2>1, <2>3, <3>1 DEF Root
    <3>3. IsPrefix(Parent(SubSeq(t, 1, k)), Parent(t))
      BY <2>1, <3>1, <3>2, ParentIs
    <3>4. QED
      BY <1>1, <2>1, <3>2, <3>3 DEF KeepsFamilies
  <2>4. QED
    BY <2>2, <2>3
<1>4. ASSUME NEW t \in DOMAIN d.state
      PROVE  FilteredOut(d, t) <=> FilteredOut(c, t)
  <2>1. t \in Path /\ Len(t) \in Nat
    BY <1>1 DEF Path
  <2>2. \A i \in 1 .. Len(t) : i \in 0 .. Len(t)
    BY <2>1
  <2>3. \A i \in 1 .. Len(t) : isGeneratorTracker(d, SubSeq(t, 1, i)) <=> isGeneratorTracker(c, SubSeq(t, 1, i))
    BY <1>1, <1>3, <2>2 DEF isGeneratorTracker
  <2>4. QED
    BY <1>1, <2>1, <2>3, FilteredSame
<1>5. ASSUME NEW t \in DOMAIN d.state, NEW k \in 1 .. Len(t) - 1, NEW x \in Nat,
             Finished(c, Append(SubSeq(t, 1, k), x))
      PROVE  Finished(d, Append(SubSeq(t, 1, k), x))
  <2> DEFINE u == Append(SubSeq(t, 1, k), x)
  <2>1. /\ t \in Path /\ Len(t) \in Nat /\ k \in 1 .. Len(t) /\ k \in 0 .. Len(t)
        /\ k + 1 \in 1 .. Len(t) /\ k + 1 \in 0 .. Len(t) /\ k + 1 > 0
    BY <1>1 DEF Path
  <2>2. SubSeq(t, 1, k) \in Path /\ Parent(u) = SubSeq(t, 1, k) /\ Len(u) > 0
    <3>1. SubSeq(t, 1, k) \in Path /\ Len(SubSeq(t, 1, k)) = k
      BY <2>1, PathParts
    <3>2. Parent(u) = SubSeq(t, 1, k) /\ Len(u) = Len(SubSeq(t, 1, k)) + 1
      BY <3>1, PathGrows
    <3>3. QED
      BY <2>1, <3>1, <3>2
  <2>3. Parent(SubSeq(t, 1, k + 1)) = SubSeq(t, 1, k)
    <3>1. Parent(SubSeq(t, 1, k + 1)) = SubSeq(t, 1, (k + 1) - 1)
      BY <2>1, PathParts
    <3>2. (k + 1) - 1 = k
      OBVIOUS
    <3>3. QED
      BY <3>1, <3>2
  <2>4. t # Root
    BY <2>1 DEF Root
  <2>5. IsPrefix(Parent(u), Parent(t))
    BY <2>1, <2>2, <2>3, <2>4, ParentIs
  <2>6. u # Root /\ u \in DOMAIN c.state /\ isComplete(c, u)
    BY <1>5, <2>2 DEF Root, Finished
  <2>7. u \in DOMAIN d.state
    BY <1>1, <2>4, <2>5, <2>6 DEF KeepsFamilies
  <2> HIDE DEF u
  <2>8. FilteredOut(d, u) <=> FilteredOut(c, u)
    BY <1>4, <2>7
  <2>9. c.state[u] \in {"CompletedSuccessfully", "Failed"} => d.state[u] = c.state[u]
    BY <2>7 DEF Settles, Completed
  <2>10. isComplete(d, u)
    BY <2>6, <2>8, <2>9 DEF isComplete
  <2>11. QED
    BY <2>7, <2>10 DEF Finished, u
<1>6. ASSUME NEW t \in DOMAIN d.state
      PROVE  /\ Placed(code, d, t)
             /\ IsBusy(d, t) => ~ isComplete(d, t)
             /\ StartedSection(d, t) => DoneBefore(code, d, t)
  <2>1. /\ Placed(code, c, t)
        /\ IsBusy(c, t) => ~ isComplete(c, t)
        /\ StartedSection(c, t) => DoneBefore(code, c, t)
    BY <1>1 DEF Tree
  <2>2. Placed(code, d, t)
    <3>1. t \in DOMAIN d.generator <=> t \in DOMAIN c.generator
      BY <1>1
    <3>2. QED
      BY <2>1, <3>1, Zenon DEF Placed
  <2>3. IsBusy(d, t) => IsBusy(c, t)
    BY <1>1 DEF IsBusy, Settles
  <2>4. IsBusy(d, t) => ~ isComplete(d, t)
    <3>1. IsBusy(d, t) => d.state[t] \notin {"CompletedSuccessfully", "Failed"}
      BY DEF IsBusy, Busy
    <3>2. QED
      BY <1>4, <2>1, <2>3, <3>1, Zenon DEF isComplete
  <2>5. StartedSection(d, t) => DoneBefore(code, d, t)
    <3>1. SUFFICES ASSUME StartedSection(d, t) PROVE DoneBefore(code, d, t)
      OBVIOUS
    <3>2. DoneBefore(code, c, t)
      BY <1>1, <2>1, <3>1 DEF StartedSection, Started, Settles
    <3>3. \A k \in 1 .. Len(t) - 1 : \A x \in 1 .. Len(code) : x \in Nat
      OBVIOUS
    <3>4. QED
      BY <1>5, <3>2, <3>3, FinishedStays
  <2>6. QED
    BY <2>1, <2>2, <2>4, <2>5
<1>7. QED
  BY <1>1, <1>3, <1>6 DEF Tree

(* A tracker that is added below the current one keeps the tree.           *)
LEMMA GainsTree ==
  ASSUME NEW code, NEW c, Tree(code, c), NEW place \in Nat,
         NEW d, Gains(c, d, Append(c.current, place)), Placed(code, d, Append(c.current, place))
  PROVE  /\ Tree(code, d)
         /\ \A u : Finished(c, u) => Finished(d, u)
         /\ \A u : IsBusy(d, u) <=> IsBusy(c, u)
         /\ \A u : StartedSection(d, u) <=> StartedSection(c, u)
<1> DEFINE t == Append(c.current, place)
           n == Len(c.current)
<1>1. /\ Ordered(c) /\ c.current \in Path /\ n \in Nat
      /\ DOMAIN c.generator \subseteq DOMAIN c.state
      /\ \A u \in DOMAIN c.state : u \in Path
  BY DEF Tree, Ordered, IsContext, Path
<1>2. /\ t \in Path /\ Len(t) = n + 1 /\ SubSeq(t, 1, n + 1) = t
      /\ \A k \in 0 .. n : SubSeq(t, 1, k) = SubSeq(c.current, 1, k)
  BY <1>1, PathGrows
<1> HIDE DEF t
<1>3. /\ IsContext(d) /\ DOMAIN d.state = DOMAIN c.state \cup {t}
      /\ \A u \in DOMAIN c.state : d.state[u] = c.state[u]
      /\ t \notin DOMAIN c.state => d.state[t] = "NotStarted"
      /\ \A u \in DOMAIN c.state : u \in DOMAIN d.generator <=> u \in DOMAIN c.generator
      /\ DOMAIN d.generator \subseteq DOMAIN c.generator \cup {t}
      /\ d.filters = c.filters
  BY DEF Gains, t
<1>4. Ordered(d)
  BY <1>1, GainsInOrder DEF t
<1>5. ASSUME NEW u \in DOMAIN d.state, NEW k \in 0 .. Len(u)
      PROVE  /\ SubSeq(u, 1, k) \in DOMAIN d.state
             /\ u \in DOMAIN c.state => SubSeq(u, 1, k) \in DOMAIN c.state
  <2>1. CASE u \in DOMAIN c.state
    BY <1>3, <2>1 DEF Tree
  <2>2. CASE u = t /\ u \notin DOMAIN c.state
    <3>1. CASE k = n + 1
      BY <1>2, <1>3, <2>2, <3>1
    <3>2. CASE k # n + 1
      <4>1. k \in 0 .. n
        BY <1>1, <1>2, <2>2, <3>2
      <4>2. SubSeq(t, 1, k) \in DOMAIN c.state
        BY <1>1, <1>2, <4>1 DEF Ordered
      <4>3. QED
        BY <1>3, <2>2, <4>2
    <3>3. QED
      BY <3>1, <3>2
  <2>3. QED
    BY <1>3, <2>1, <2>2
<1>6. ASSUME NEW u \in DOMAIN c.state
      PROVE  FilteredOut(d, u) <=> FilteredOut(c, u)
  <2>1. u \in Path /\ Len(u) \in Nat
    BY <1>1 DEF Path
  <2>2. \A i \in 1 .. Len(u) : SubSeq(u, 1, i) \in DOMAIN c.state
    <3>1. \A i \in 1 .. Len(u) : i \in 0 .. Len(u)
      BY <2>1
    <3>2. u \in DOMAIN d.state
      BY <1>3
    <3>3. QED
      BY <1>5, <3>1, <3>2
  <2>3. \A i \in 1 .. Len(u) : isGeneratorTracker(d, SubSeq(u, 1, i)) <=> isGeneratorTracker(c, SubSeq(u, 1, i))
    BY <1>3, <2>2 DEF isGeneratorTracker
  <2>4. QED
    BY <1>3, <2>1, <2>3, FilteredSame
<1>7. ASSUME NEW u \in DOMAIN c.state
      PROVE  isComplete(d, u) <=> isComplete(c, u)
  <2>1. d.state[u] = c.state[u]
    BY <1>3
  <2>2. QED
    BY <1>6, <2>1, Zenon DEF isComplete
<1>8. \A u : Finished(c, u) => Finished(d, u)
  <2>1. \A u \in DOMAIN c.state : u \in DOMAIN d.state
    BY <1>3
  <2>2. QED
    BY <1>7, <2>1, Zenon DEF Finished
<1>9. \A u : IsBusy(d, u) <=> IsBusy(c, u)
  BY <1>3 DEF IsBusy, Busy
<1>10. \A u : StartedSection(d, u) <=> StartedSection(c, u)
  <2>1. \A u : Started(d, u) <=> Started(c, u)
    BY <1>3 DEF Started
  <2>2. QED
    BY <1>3, <2>1, Zenon DEF StartedSection, Started
<1>11. ASSUME NEW u \in DOMAIN d.state
       PROVE  /\ Placed(code, d, u)
              /\ IsBusy(d, u) => ~ isComplete(d, u)
              /\ StartedSection(d, u) => DoneBefore(code, d, u)
  <2>1. CASE u \in DOMAIN c.state
    <3>1. /\ Placed(code, c, u)
          /\ IsBusy(c, u) => ~ isComplete(c, u)
          /\ StartedSection(c, u) => DoneBefore(code, c, u)
      BY <2>1 DEF Tree
    <3>2. u \in DOMAIN d.generator <=> u \in DOMAIN c.generator
      BY <1>3, <2>1
    <3>3. Placed(code, d, u)
      BY <3>1, <3>2, Zenon DEF Placed
    <3>4. DoneBefore(code, c, u) => DoneBefore(code, d, u)
      BY <1>8, FinishedStays
    <3>5. QED
      BY <1>7, <1>9, <1>10, <2>1, <3>1, <3>3, <3>4, Zenon
  <2>2. CASE u = t /\ u \notin DOMAIN c.state
    <3>1. ~ IsBusy(d, u) /\ ~ Started(d, u)
      BY <1>3, <2>2 DEF IsBusy, Busy, Started
    <3>2. Placed(code, d, u)
      BY <2>2 DEF t
    <3>3. QED
      BY <3>1, <3>2, Zenon DEF StartedSection
  <2>3. QED
    BY <1>3, <2>1, <2>2
<1>12. DOMAIN d.generator \subseteq DOMAIN d.state
  BY <1>1, <1>3
<1>13. Tree(code, d)
  BY <1>4, <1>5, <1>11, <1>12 DEF Tree
<1>14. QED
  BY <1>8, <1>9, <1>10, <1>13

(* Opening a tracker below the current one keeps the tree, if it is not    *)
(* complete, and all before it is when it is a section.                    *)
LEMMA OpensTree ==
  ASSUME NEW code, NEW c, Tree(code, c), NEW place \in Nat,
         Append(c.current, place) \in DOMAIN c.state,
         ~ isComplete(c, Append(c.current, place)),
         Append(c.current, place) \notin DOMAIN c.generator =>
           DoneBefore(code, c, Append(c.current, place))
  PROVE  LET t == Append(c.current, place)
             d == open(c, t)
         IN  /\ Tree(code, d)
             /\ ~ isComplete(d, t)
             /\ \A u : Finished(c, u) /\ u # Root => Finished(d, u)
             /\ \A u : StartedSection(d, u) => u = t \/ u = Root \/ StartedSection(c, u)
<1> DEFINE t == Append(c.current, place)
           d == open(c, t)
           n == Len(c.current)
<1>1. /\ Ordered(c) /\ IsContext(c) /\ c.current \in Path /\ n \in Nat
      /\ DOMAIN c.generator \subseteq DOMAIN c.state
      /\ \A u \in DOMAIN c.state : u \in Path
  BY DEF Tree, Ordered, IsContext, Path
<1>2. t \in Path /\ t # Root /\ Parent(t) = c.current
  BY <1>1, PathGrows
<1>3. Ordered(d)
  BY <1>1, OpensInOrder
<1>4. t \in DOMAIN c.state /\ ~ isComplete(c, t)
      /\ (t \notin DOMAIN c.generator => DoneBefore(code, c, t))
  OBVIOUS
<1> HIDE DEF t
<1>5. /\ DOMAIN d.state = DOMAIN c.state /\ d.state[t] = "Executing"
      /\ \A u \in DOMAIN c.state : u # t /\ d.state[u] # c.state[u] =>
           IsStrictPrefix(u, t) /\ d.state[u] = "ExecutingChildren"
      /\ d.generator = c.generator /\ d.filters = c.filters /\ d.current = t
  BY <1>1, <1>4, OpenIs
<1> HIDE DEF d
<1>6. ASSUME NEW u \in DOMAIN c.state, u # Root, u # t, d.state[u] # c.state[u]
      PROVE  IsBusy(c, u) /\ d.state[u] = "ExecutingChildren"
  <2>1. IsStrictPrefix(u, t) /\ d.state[u] = "ExecutingChildren" /\ u \in Path
    BY <1>1, <1>5, <1>6
  <2>2. IsPrefix(u, c.current)
    BY <1>2, <2>1, AroundParent
  <2>3. Len(u) <= n /\ SubSeq(c.current, 1, Len(u)) = u
    BY <1>1, <2>1, <2>2, PrefixIs
  <2>4. Len(u) \in 1 .. n
    BY <1>1, <1>6, <2>1, <2>3, RootIs DEF Path
  <2>5. c.state[u] \in Busy
    BY <1>1, <2>3, <2>4 DEF Ordered
  <2>6. QED
    BY <2>1, <2>5 DEF IsBusy
<1>7. ASSUME NEW u \in DOMAIN c.state
      PROVE  FilteredOut(d, u) <=> FilteredOut(c, u)
  BY <1>1, <1>5, FilteredSame DEF isGeneratorTracker
<1>8. /\ ~ FilteredOut(d, t) /\ ~ isComplete(d, t)
  <2>1. ~ FilteredOut(d, t)
    BY <1>4, <1>7, Zenon DEF isComplete
  <2>2. d.state[t] \notin {"CompletedSuccessfully", "Failed"}
    BY <1>5
  <2>3. QED
    BY <2>1, <2>2, Zenon DEF isComplete
<1>9. ASSUME NEW u, Finished(c, u), u # Root
      PROVE  Finished(d, u)
  <2>1. u \in DOMAIN c.state /\ isComplete(c, u) /\ u # t
    BY <1>4, <1>9 DEF Finished
  <2>2. ~ IsBusy(c, u)
    BY <2>1 DEF Tree
  <2>3. d.state[u] = c.state[u]
    BY <1>6, <1>9, <2>1, <2>2
  <2>4. isComplete(d, u)
    BY <1>7, <2>1, <2>3, Zenon DEF isComplete
  <2>5. QED
    BY <1>5, <2>1, <2>4 DEF Finished
<1>10. ASSUME NEW u, IsBusy(d, u)
       PROVE  u = t \/ u = Root \/ IsBusy(c, u)
  <2>1. u \in DOMAIN c.state /\ d.state[u] \in Busy
    BY <1>5, <1>10 DEF IsBusy
  <2>2. CASE d.state[u] = c.state[u]
    BY <2>1, <2>2 DEF IsBusy
  <2>3. CASE d.state[u] # c.state[u]
    BY <1>6, <2>1, <2>3
  <2>4. QED
    BY <2>2, <2>3
<1>11. ASSUME NEW u, StartedSection(d, u)
       PROVE  u = t \/ u = Root \/ StartedSection(c, u)
  <2>1. \A v : IsBusy(c, v) => Started(c, v)
    BY DEF IsBusy, Busy, Started
  <2>2. u \in DOMAIN c.state /\ d.state[u] # "NotStarted" /\ u \notin DOMAIN c.generator
    BY <1>5, <1>11 DEF StartedSection, Started
  <2>3. CASE d.state[u] = c.state[u]
    BY <2>2, <2>3 DEF StartedSection, Started
  <2>4. CASE d.state[u] # c.state[u]
    BY <1>6, <2>1, <2>2, <2>4 DEF StartedSection
  <2>5. QED
    BY <2>3, <2>4
<1>12. ASSUME NEW u \in DOMAIN c.state
       PROVE  /\ Placed(code, d, u)
              /\ IsBusy(d, u) => ~ isComplete(d, u)
              /\ StartedSection(d, u) => DoneBefore(code, d, u)
  <2>1. /\ Placed(code, c, u)
        /\ IsBusy(c, u) => ~ isComplete(c, u)
        /\ StartedSection(c, u) => DoneBefore(code, c, u)
    BY DEF Tree
  <2>2. Placed(code, d, u)
    BY <1>5, <2>1, Zenon DEF Placed
  <2>3. IsBusy(d, u) => ~ isComplete(d, u)
    <3>1. SUFFICES ASSUME IsBusy(d, u), u # t PROVE ~ isComplete(d, u)
      BY <1>8
    <3>2. ~ FilteredOut(c, u)
      <4>1. CASE u = Root
        <5>1. ~ (Len(u) > 1)
          BY <1>1, <4>1, RootIs
        <5>2. QED
          BY <5>1 DEF FilteredOut
      <4>2. CASE u # Root
        BY <1>10, <2>1, <3>1, <4>2, Zenon DEF isComplete
      <4>3. QED
        BY <4>1, <4>2
    <3>3. ~ FilteredOut(d, u)
      BY <1>7, <3>2
    <3>4. d.state[u] \notin {"CompletedSuccessfully", "Failed"}
      BY <3>1 DEF IsBusy, Busy
    <3>5. QED
      BY <3>3, <3>4, Zenon DEF isComplete
  <2>4. ASSUME StartedSection(d, u)
        PROVE  DoneBefore(code, d, u)
    <3>1. CASE u = Root
      <4>1. Len(u) = 0
        BY <1>1, <3>1, RootIs
      <4>2. QED
        BY <4>1 DEF DoneBefore
    <3>2. CASE u # Root
      <4>1. DoneBefore(code, c, u)
        BY <1>4, <1>5, <1>11, <2>1, <2>4, <3>2 DEF StartedSection
      <4>2. ASSUME NEW k \in 1 .. Len(u) - 1, NEW x \in 1 .. Len(code),
                   Finished(c, Append(SubSeq(u, 1, k), x))
            PROVE  Finished(d, Append(SubSeq(u, 1, k), x))
        <5>1. u \in Path /\ Len(u) \in Nat /\ k \in 0 .. Len(u) /\ x \in Nat
          BY <1>1 DEF Path
        <5>2. SubSeq(u, 1, k) \in Path
          BY <5>1, PathParts
        <5>3. Append(SubSeq(u, 1, k), x) # Root
          BY <5>1, <5>2, PathGrows
        <5>4. QED
          BY <1>9, <4>2, <5>3
      <4>3. QED
        BY <4>1, <4>2, FinishedStays
    <3>3. QED
      BY <3>1, <3>2
  <2>5. QED
    BY <2>2, <2>3, <2>4
<1>13. Tree(code, d)
  BY <1>1, <1>3, <1>5, <1>12 DEF Tree
<1>14. QED
  BY <1>8, <1>9, <1>11, <1>13 DEF d, t

-----------------------------------------------------------------------------
(* The sections around a place, from one place of a function to the next.  *)
IsCode(code) == code \in Seq({"section", "end", "generate", "check"}) /\ Nested(code)

LEMMA SectionsNest ==
  ASSUME NEW code, IsCode(code)
  PROVE  /\ Len(code) \in Nat /\ DOMAIN code = 1 .. Len(code)
         /\ \A j \in 1 .. Len(code) : code[j] \in {"section", "end", "generate", "check"}
         /\ \A j \in 1 .. Len(code) : code[j] = "section" =>
              /\ EndOf(code, j) \in 1 .. Len(code) /\ code[EndOf(code, j)] = "end" /\ EndOf(code, j) > j
              /\ \A k \in 1 .. Len(code) : code[k] = "section" /\ j < k /\ k <= EndOf(code, j) =>
                   EndOf(code, k) < EndOf(code, j)
         /\ \A e \in 1 .. Len(code) : code[e] = "end" =>
              \E j \in 1 .. Len(code) : code[j] = "section" /\ EndOf(code, j) = e
<1>1. code \in Seq({"section", "end", "generate", "check"}) /\ Nested(code)
  BY DEF IsCode
<1>2. Len(code) \in Nat /\ DOMAIN code = 1 .. Len(code)
      /\ \A j \in 1 .. Len(code) : code[j] \in {"section", "end", "generate", "check"}
  BY <1>1
<1>3. QED
  BY <1>1, <1>2 DEF Nested

LEMMA ScopesAre ==
  ASSUME NEW code, IsCode(code), NEW x \in 1 .. Len(code) + 1, NEW j
  PROVE  j \in Scopes(code, x) <=>
           j \in 1 .. Len(code) /\ j < x /\ code[j] = "section" /\ x <= EndOf(code, j)
<1>1. Len(code) \in Nat
  BY SectionsNest
<1>2. j \in 1 .. x - 1 <=> j \in 1 .. Len(code) /\ j < x
  BY <1>1
<1>3. QED
  BY <1>2, Zenon DEF Scopes

LEMMA ScopesFirst ==
  ASSUME NEW code
  PROVE  Scopes(code, 1) = {}
  BY DEF Scopes

LEMMA ScopesLast ==
  ASSUME NEW code, IsCode(code)
  PROVE  Scopes(code, Len(code) + 1) = {}
<1>1. Len(code) \in Nat /\ Len(code) + 1 \in 1 .. Len(code) + 1
  BY SectionsNest
<1>2. SUFFICES ASSUME NEW j \in Scopes(code, Len(code) + 1) PROVE FALSE
  OBVIOUS
<1>3. j \in 1 .. Len(code) /\ code[j] = "section" /\ Len(code) + 1 <= EndOf(code, j)
  BY <1>1, ScopesAre
<1>4. EndOf(code, j) \in 1 .. Len(code)
  BY <1>3, SectionsNest
<1>5. QED
  BY <1>1, <1>3, <1>4

(* Past what is neither the beginning nor the end of a section.            *)
LEMMA ScopesPass ==
  ASSUME NEW code, IsCode(code), NEW x \in 1 .. Len(code), code[x] \notin {"section", "end"}
  PROVE  Scopes(code, x + 1) = Scopes(code, x)
<1>1. Len(code) \in Nat /\ x \in 1 .. Len(code) + 1 /\ x + 1 \in 1 .. Len(code) + 1
  BY SectionsNest
<1>2. ASSUME NEW j \in 1 .. Len(code), code[j] = "section"
      PROVE  (j < x + 1 /\ x + 1 <= EndOf(code, j)) <=> (j < x /\ x <= EndOf(code, j))
  <2>1. EndOf(code, j) \in 1 .. Len(code) /\ EndOf(code, j) # x /\ j # x
    BY <1>2, SectionsNest
  <2>2. QED
    BY <1>1, <2>1
<1>3. \A j : j \in Scopes(code, x + 1) <=> j \in Scopes(code, x)
  <2>1. \A j : /\ j \in Scopes(code, x) <=>
                   j \in 1 .. Len(code) /\ j < x /\ code[j] = "section" /\ x <= EndOf(code, j)
               /\ j \in Scopes(code, x + 1) <=>
                   j \in 1 .. Len(code) /\ j < x + 1 /\ code[j] = "section" /\ x + 1 <= EndOf(code, j)
    BY <1>1, ScopesAre
  <2>2. QED
    BY <1>2, <2>1, Zenon
<1>4. QED
  BY <1>3

(* Into a section.                                                         *)
LEMMA ScopesEnter ==
  ASSUME NEW code, IsCode(code), NEW x \in 1 .. Len(code), code[x] = "section"
  PROVE  Scopes(code, x + 1) = Scopes(code, x) \cup {x}
<1>1. Len(code) \in Nat /\ x \in 1 .. Len(code) + 1 /\ x + 1 \in 1 .. Len(code) + 1
  BY SectionsNest
<1>2. ASSUME NEW j \in 1 .. Len(code), code[j] = "section"
      PROVE  (j < x + 1 /\ x + 1 <= EndOf(code, j)) <=> j = x \/ (j < x /\ x <= EndOf(code, j))
  <2>1. EndOf(code, j) \in 1 .. Len(code) /\ EndOf(code, j) # x /\ EndOf(code, j) > j
    BY <1>2, SectionsNest
  <2>2. QED
    BY <1>1, <2>1
<1>3. \A j : j \in Scopes(code, x + 1) <=> j = x \/ j \in Scopes(code, x)
  <2>1. \A j : /\ j \in Scopes(code, x) <=>
                   j \in 1 .. Len(code) /\ j < x /\ code[j] = "section" /\ x <= EndOf(code, j)
               /\ j \in Scopes(code, x + 1) <=>
                   j \in 1 .. Len(code) /\ j < x + 1 /\ code[j] = "section" /\ x + 1 <= EndOf(code, j)
    BY <1>1, ScopesAre
  <2>2. QED
    BY <1>2, <2>1, Zenon
<1>4. QED
  BY <1>3

(* Around a section, which is not around itself but around all within.     *)
LEMMA ScopesSkip ==
  ASSUME NEW code, IsCode(code), NEW x \in 1 .. Len(code), code[x] = "section"
  PROVE  /\ Scopes(code, EndOf(code, x) + 1) = Scopes(code, x)
         /\ x \notin Scopes(code, x)
         /\ \A y \in x + 1 .. EndOf(code, x) : x \in Scopes(code, y)
<1> DEFINE e == EndOf(code, x)
<1>1. Len(code) \in Nat /\ x \in 1 .. Len(code) + 1 /\ e \in 1 .. Len(code) /\ e > x
      /\ e + 1 \in 1 .. Len(code) + 1
  BY SectionsNest
<1> HIDE DEF e
<1>2. ASSUME NEW j \in 1 .. Len(code), code[j] = "section"
      PROVE  (j < e + 1 /\ e + 1 <= EndOf(code, j)) <=> (j < x /\ x <= EndOf(code, j))
  <2>1. /\ EndOf(code, j) \in 1 .. Len(code)
        /\ j < x /\ x <= EndOf(code, j) => e < EndOf(code, j)
        /\ x < j /\ j <= e => EndOf(code, j) < e
    BY <1>2, SectionsNest DEF e
  <2>2. j = x => EndOf(code, j) = e
    BY DEF e
  <2>3. QED
    BY <1>1, <2>1, <2>2
<1>3. \A j : j \in Scopes(code, e + 1) <=> j \in Scopes(code, x)
  <2>1. \A j : /\ j \in Scopes(code, x) <=>
                   j \in 1 .. Len(code) /\ j < x /\ code[j] = "section" /\ x <= EndOf(code, j)
               /\ j \in Scopes(code, e + 1) <=>
                   j \in 1 .. Len(code) /\ j < e + 1 /\ code[j] = "section" /\ e + 1 <= EndOf(code, j)
    BY <1>1, ScopesAre
  <2>2. QED
    BY <1>2, <2>1, Zenon
<1>4. x \notin Scopes(code, x)
  BY <1>1, ScopesAre
<1>5. ASSUME NEW y \in x + 1 .. e PROVE x \in Scopes(code, y)
  <2>1. y \in 1 .. Len(code) + 1 /\ x < y /\ y <= e
    BY <1>1
  <2>2. QED
    BY <2>1, ScopesAre DEF e
<1>6. QED
  BY <1>3, <1>4, <1>5 DEF e

(* Out of a section, the innermost one.                                    *)
LEMMA ScopesLeave ==
  ASSUME NEW code, IsCode(code), NEW x \in 1 .. Len(code), code[x] = "end"
  PROVE  \E j \in Scopes(code, x) : /\ Scopes(code, x + 1) = Scopes(code, x) \ {j}
                                    /\ \A i \in Scopes(code, x) : i <= j
<1>1. Len(code) \in Nat /\ x \in 1 .. Len(code) + 1 /\ x + 1 \in 1 .. Len(code) + 1
  BY SectionsNest
<1>2. PICK j \in 1 .. Len(code) : code[j] = "section" /\ EndOf(code, j) = x /\ j < x
  BY SectionsNest
<1>3. j \in Scopes(code, x)
  BY <1>1, <1>2, ScopesAre
<1>4. ASSUME NEW i \in 1 .. Len(code), code[i] = "section"
      PROVE  /\ i < x /\ x <= EndOf(code, i) => i <= j
             /\ (i < x + 1 /\ x + 1 <= EndOf(code, i)) <=> (i < x /\ x <= EndOf(code, i)) /\ i # j
  <2>1. /\ EndOf(code, i) \in 1 .. Len(code)
        /\ i < j /\ j <= EndOf(code, i) => x < EndOf(code, i)
        /\ j < i /\ i <= x => EndOf(code, i) < x
        /\ i # x
    BY <1>2, <1>4, SectionsNest
  <2>2. i = j => EndOf(code, i) = x
    BY <1>2
  <2>3. QED
    BY <1>1, <1>2, <2>1, <2>2
<1>5. /\ \A i : i \in Scopes(code, x + 1) <=> i \in Scopes(code, x) /\ i # j
      /\ \A i \in Scopes(code, x) : i <= j
  <2>1. \A i : /\ i \in Scopes(code, x) <=>
                   i \in 1 .. Len(code) /\ i < x /\ code[i] = "section" /\ x <= EndOf(code, i)
               /\ i \in Scopes(code, x + 1) <=>
                   i \in 1 .. Len(code) /\ i < x + 1 /\ code[i] = "section" /\ x + 1 <= EndOf(code, i)
    BY <1>1, ScopesAre
  <2>2. QED
    BY <1>4, <2>1, Zenon
<1>6. Scopes(code, x + 1) = Scopes(code, x) \ {j}
  BY <1>5
<1>7. QED
  BY <1>3, <1>5, <1>6

LEMMA SectionsGrow ==
  ASSUME NEW code, NEW t \in Path, Len(t) > 0, NEW x \in Nat
  PROVE  SectionsOn(code, Append(t, x)) =
           SectionsOn(code, t) \cup (IF code[x] = "section" THEN {x} ELSE {})
<1> DEFINE s == Append(t, x)
           n == Len(t)
<1>1. /\ s \in Path /\ Len(s) = n + 1 /\ n \in Nat /\ n > 0 /\ s[n + 1] = x
      /\ \A i \in 1 .. n : s[i] = t[i]
  BY PathGrows, AppendProperties DEF Path
<1> HIDE DEF s
<1>2. ASSUME NEW j PROVE j \in SectionsOn(code, s) <=>
        j \in SectionsOn(code, t) \/ (code[x] = "section" /\ j = x)
  <2>1. j \in SectionsOn(code, s) <=> \E i \in 2 .. n + 1 : code[s[i]] = "section" /\ j = s[i]
    BY <1>1 DEF SectionsOn
  <2>2. j \in SectionsOn(code, t) <=> \E i \in 2 .. n : code[t[i]] = "section" /\ j = t[i]
    BY DEF SectionsOn
  <2>3. \A i : i \in 2 .. n + 1 <=> i \in 2 .. n \/ i = n + 1
    BY <1>1
  <2>4. \A i \in 2 .. n : s[i] = t[i]
    BY <1>1
  <2>5. QED
    BY <1>1, <2>1, <2>2, <2>3, <2>4, Zenon
<1>3. QED
  BY <1>2 DEF s

LEMMA SectionsFirst ==
  ASSUME NEW code
  PROVE  SectionsOn(code, TestCase) = {}
<1>1. Len(TestCase) = 1
  BY DEF TestCase
<1>2. QED
  BY <1>1 DEF SectionsOn

-----------------------------------------------------------------------------
(***************************************************************************)
(* Where a run of the test function is.                                    *)
(***************************************************************************)
(* The sections it is in are around what is current.                       *)
ActiveAround(code, c, act) ==
  /\ c.current # Root
  /\ \A i \in 1 .. Len(act) :
       /\ Len(act[i].tracker) \in 2 .. Len(c.current)
       /\ act[i].tracker = SubSeq(c.current, 1, Len(act[i].tracker))
       /\ code[c.current[Len(act[i].tracker)]] = "section"
       /\ \A j \in 1 .. i - 1 : Len(act[j].tracker) < Len(act[i].tracker)

(* It is at x in all the sections around x; until a section has ended, all *)
(* that it has passed is complete, and after that none is ahead that would *)
(* have to be resumed.                                                     *)
FunctionAt(code, c, act, x) ==
  /\ x \in 1 .. Len(code) + 1
  /\ c.current[Len(c.current)] < x
  /\ Scopes(code, x) = SectionsOn(code, c.current)
  /\ \A m \in 2 .. Len(c.current) :
       code[c.current[m]] = "section" => \E i \in 1 .. Len(act) : Len(act[i].tracker) = m
  /\ ~ c.completedCycle => DoneBefore(code, c, Append(c.current, x))
  /\ c.completedCycle => NoneAhead(c, x)

LEMMA PathAt ==
  ASSUME NEW t \in Path, NEW x \in Nat
  PROVE  /\ Len(t) \in Nat
         /\ \A i \in 1 .. Len(t) : t[i] \in Nat /\ Append(t, x)[i] = t[i]
         /\ Append(t, x)[Len(t) + 1] = x
         /\ Len(Append(t, x)) = Len(t) + 1
         /\ \A k \in 0 .. Len(t) : \A i \in 1 .. k : SubSeq(t, 1, k)[i] = t[i]
  BY DEF Path

LEMMA PathStep ==
  ASSUME NEW t \in Path, NEW k \in Nat, k < Len(t)
  PROVE  Append(SubSeq(t, 1, k), t[k + 1]) = SubSeq(t, 1, k + 1)
  BY DEF Path

(* Of a path that grows, what is before is what was before, and beside.    *)
LEMMA DoneGrows ==
  ASSUME NEW code, NEW c, NEW t \in Path, Len(t) > 0, NEW y \in Nat
  PROVE  DoneBefore(code, c, Append(t, y)) <=>
           /\ DoneBefore(code, c, t)
           /\ \A z \in 1 .. Len(code) : t[Len(t)] < z /\ z < y /\ IsIn(code, t, z) =>
                Finished(c, Append(t, z))
<1> DEFINE s == Append(t, y)
           n == Len(t)
           Beside(u, k) == \A x \in 1 .. Len(code) :
             u[k] < x /\ x < u[k + 1] /\ IsIn(code, SubSeq(u, 1, k), x) =>
               Finished(c, Append(SubSeq(u, 1, k), x))
<1>1. /\ n \in Nat /\ n > 0 /\ Len(s) = n + 1 /\ s[n + 1] = y
      /\ \A i \in 1 .. n : s[i] = t[i]
      /\ \A k \in 0 .. n : SubSeq(s, 1, k) = SubSeq(t, 1, k)
      /\ SubSeq(t, 1, n) = t
  <2>1. n \in Nat /\ Len(s) = n + 1 /\ s[n + 1] = y /\ \A i \in 1 .. n : s[i] = t[i]
    BY PathAt
  <2>2. \A k \in 0 .. n : SubSeq(s, 1, k) = SubSeq(t, 1, k)
    BY PathGrows
  <2>3. n \in 0 .. n
    BY <2>1
  <2>4. SubSeq(t, 1, n) = t
    BY <2>3, PathParts
  <2>5. QED
    BY <2>1, <2>2, <2>4
<1> HIDE DEF s
<1>2. DoneBefore(code, c, s) <=> \A k \in 1 .. n : Beside(s, k)
  <2>1. Len(s) - 1 = n
    BY <1>1
  <2>2. QED
    BY <2>1 DEF DoneBefore
<1>3. DoneBefore(code, c, t) <=> \A k \in 1 .. n - 1 : Beside(t, k)
  BY DEF DoneBefore
<1>4. ASSUME NEW k \in 1 .. n - 1 PROVE Beside(s, k) <=> Beside(t, k)
  <2>1. k \in 1 .. n /\ k + 1 \in 1 .. n /\ k \in 0 .. n
    BY <1>1
  <2>2. s[k] = t[k] /\ s[k + 1] = t[k + 1] /\ SubSeq(s, 1, k) = SubSeq(t, 1, k)
    BY <1>1, <2>1
  <2>3. QED
    BY <2>2
<1>5. Beside(s, n) <=> \A z \in 1 .. Len(code) : t[n] < z /\ z < y /\ IsIn(code, t, z) =>
                         Finished(c, Append(t, z))
  <2>1. s[n] = t[n] /\ s[n + 1] = y /\ SubSeq(s, 1, n) = t
    BY <1>1
  <2>2. QED
    BY <2>1
<1>6. \A k : k \in 1 .. n <=> k \in 1 .. n - 1 \/ k = n
  BY <1>1
<1> HIDE DEF Beside
<1>7. QED
  BY <1>2, <1>3, <1>4, <1>5, <1>6, Zenon DEF s

LEMMA AheadStays ==
  ASSUME NEW c, IsContext(c), NEW d, NEW x \in Nat, NEW y \in Nat, x <= y, NoneAhead(c, x),
         d.current = c.current, \A u : StartedSection(d, u) => StartedSection(c, u)
  PROVE  NoneAhead(d, y)
<1>1. SUFFICES ASSUME NEW u \in DOMAIN d.state, NEW k \in 1 .. Len(d.current),
                      StartedSection(d, u), Len(u) > k, u[k + 1] >= y
               PROVE  SubSeq(u, 1, k) # SubSeq(d.current, 1, k)
  BY DEF NoneAhead
<1>2. StartedSection(c, u) /\ u \in DOMAIN c.state /\ u \in Path
  BY <1>1 DEF StartedSection, Started, IsContext
<1>3. k + 1 \in 1 .. Len(u) /\ k \in 1 .. Len(c.current)
  BY <1>1, <1>2 DEF Path
<1>4. u[k + 1] \in Nat
  BY <1>2, <1>3, PathAt
<1>5. u[k + 1] >= x
  BY <1>1, <1>4
<1>6. QED
  BY <1>1, <1>2, <1>3, <1>5 DEF NoneAhead

(* What Tree says of the current tracker and those around it.              *)
LEMMA CurrentIs ==
  ASSUME NEW code, NEW c, Tree(code, c), c.current # Root
  PROVE  /\ Ordered(c) /\ IsContext(c) /\ c.current \in Path
         /\ Len(c.current) \in Nat /\ Len(c.current) > 0
         /\ \A i \in 1 .. Len(c.current) : c.current[i] \in Nat
         /\ \A i, j \in 1 .. Len(c.current) : i < j => c.current[i] < c.current[j]
         /\ SubSeq(c.current, 1, 1) = TestCase
         /\ \A k \in 1 .. Len(c.current) - 1 : IsIn(code, SubSeq(c.current, 1, k), c.current[k + 1])
         /\ \A k \in 1 .. Len(c.current) : ~ Finished(c, SubSeq(c.current, 1, k))
<1> DEFINE n == Len(c.current)
           cur(k) == SubSeq(c.current, 1, k)
<1>1. /\ Ordered(c) /\ IsContext(c) /\ c.current \in Path /\ n \in Nat
      /\ \A k \in 0 .. n : cur(k) \in DOMAIN c.state
      /\ \A k \in 1 .. n : c.state[cur(k)] \in Busy
  BY DEF Tree, Ordered, IsContext, Path
<1>2. n > 0
  BY <1>1, RootIs
<1>3. ASSUME NEW k \in 1 .. n
      PROVE  /\ cur(k) \in DOMAIN c.state /\ IsBusy(c, cur(k)) /\ Placed(code, c, cur(k))
             /\ ~ isComplete(c, cur(k)) /\ cur(k) \in Path /\ Len(cur(k)) = k
             /\ \A i \in 1 .. k : cur(k)[i] = c.current[i]
             /\ Parent(cur(k)) = cur(k - 1)
  <2>1. k \in 0 .. n /\ k > 0
    BY <1>1
  <2>2. cur(k) \in DOMAIN c.state /\ IsBusy(c, cur(k))
    BY <1>1, <2>1 DEF IsBusy
  <2>3. Placed(code, c, cur(k)) /\ ~ isComplete(c, cur(k))
    BY <2>2 DEF Tree
  <2>4. cur(k) \in Path /\ Len(cur(k)) = k /\ Parent(cur(k)) = cur(k - 1)
    BY <1>1, <2>1, PathParts
  <2>5. \A i \in 1 .. k : cur(k)[i] = c.current[i]
    BY <1>1, <2>1, PathAt
  <2>6. QED
    BY <2>2, <2>3, <2>4, <2>5
<1>4. \A i \in 1 .. n : c.current[i] \in Nat
  BY <1>1, PathAt
<1>5. ASSUME NEW i \in 1 .. n, NEW j \in 1 .. n, i < j
      PROVE  c.current[i] < c.current[j]
  <2>1. i \in 1 .. j - 1 /\ i \in 1 .. j /\ j \in 1 .. j
    BY <1>1, <1>5
  <2>2. Placed(code, c, cur(j)) /\ Len(cur(j)) = j /\ cur(j)[i] = c.current[i] /\ cur(j)[j] = c.current[j]
    BY <1>3, <2>1
  <2> HIDE DEF cur
  <2>3. cur(j)[i] < cur(j)[j]
    BY <2>1, <2>2 DEF Placed
  <2>4. QED
    BY <2>2, <2>3
<1>6. cur(1) = TestCase
  <2>1. 1 \in 1 .. n
    BY <1>1, <1>2
  <2>2. Placed(code, c, cur(1)) /\ Len(cur(1)) = 1
    BY <1>3, <2>1
  <2> HIDE DEF cur
  <2>3. QED
    BY <2>2 DEF Placed
<1>7. ASSUME NEW k \in 1 .. n - 1
      PROVE  IsIn(code, cur(k), c.current[k + 1])
  <2>1. k + 1 \in 1 .. n /\ k + 1 >= 2 /\ k + 1 \in 1 .. k + 1 /\ (k + 1) - 1 = k
    BY <1>1
  <2>2. /\ Placed(code, c, cur(k + 1)) /\ Len(cur(k + 1)) = k + 1
        /\ cur(k + 1)[k + 1] = c.current[k + 1] /\ Parent(cur(k + 1)) = cur((k + 1) - 1)
    BY <1>3, <2>1
  <2> HIDE DEF cur
  <2>3. cur((k + 1) - 1) = cur(k)
    BY <2>1
  <2>4. QED
    BY <2>1, <2>2, <2>3 DEF Placed
<1>8. \A k \in 1 .. n : ~ Finished(c, cur(k))
  BY <1>3 DEF Finished
<1>9. QED
  BY <1>1, <1>2, <1>4, <1>5, <1>6, <1>7, <1>8

(* A path and its extension; the last element of a sequence, and the rest. *)
LEMMA GrownPath ==
  ASSUME NEW t \in Path, NEW x \in Nat, NEW s, s = Append(t, x)
  PROVE  /\ s \in Path /\ s # Root /\ Len(s) = Len(t) + 1 /\ Len(t) \in Nat /\ s[Len(t) + 1] = x
         /\ \A i \in 1 .. Len(t) : s[i] = t[i]
         /\ \A k \in 0 .. Len(t) : SubSeq(s, 1, k) = SubSeq(t, 1, k)
         /\ SubSeq(s, 1, Len(t) + 1) = s
<1>1. /\ s \in Path /\ s # Root /\ Len(s) = Len(t) + 1
      /\ \A k \in 0 .. Len(t) : SubSeq(s, 1, k) = SubSeq(t, 1, k)
      /\ SubSeq(s, 1, Len(t) + 1) = s
  BY PathGrows
<1>2. /\ Len(t) \in Nat /\ s[Len(t) + 1] = x
      /\ \A i \in 1 .. Len(t) : s[i] = t[i]
  BY PathAt
<1>3. QED
  BY <1>1, <1>2

LEMMA LastAndFront ==
  ASSUME NEW S, NEW s \in Seq(S), s # <<>>
  PROVE  /\ Len(s) \in Nat /\ Len(s) > 0 /\ Last(s) = s[Len(s)] /\ Last(s) \in S
         /\ Front(s) \in Seq(S) /\ Len(Front(s)) = Len(s) - 1
         /\ \A i \in 1 .. Len(s) - 1 : Front(s)[i] = s[i]
<1>1. Len(s) \in Nat /\ Len(s) > 0 /\ Last(s) = s[Len(s)] /\ \A i \in 1 .. Len(s) : s[i] \in S
  BY EmptySeq, LenProperties, ElementOfSeq DEF Last
<1>2. \A i \in 1 .. Len(s) - 1 : s[i] \in S
  BY <1>1
<1>3. /\ Front(s) \in Seq(S)
      /\ Len(Front(s)) = IF 1 <= Len(s) - 1 THEN (Len(s) - 1) - 1 + 1 ELSE 0
      /\ \A i \in 1 .. (Len(s) - 1) - 1 + 1 : Front(s)[i] = s[1 + i - 1]
  <2>1. 1 \in Int /\ Len(s) - 1 \in Int
    BY <1>1
  <2>2. QED
    BY <1>2, <2>1, SubSeqProperties DEF Front
<1>4. Len(Front(s)) = Len(s) - 1 /\ \A i \in 1 .. Len(s) - 1 : Front(s)[i] = s[i]
  <2>1. Len(Front(s)) = Len(s) - 1
    <3>1. PICK n \in Nat, f \in Nat : n = Len(s) /\ f = Len(Front(s)) /\ n > 0
      BY <1>1, <1>3
    <3>2. f = IF 1 <= n - 1 THEN (n - 1) - 1 + 1 ELSE 0
      BY <1>3, <3>1
    <3>3. f = n - 1
      BY <3>1, <3>2
    <3>4. QED
      BY <3>1, <3>3
  <2>2. ASSUME NEW i \in 1 .. Len(s) - 1 PROVE Front(s)[i] = s[i]
    <3>1. i \in 1 .. (Len(s) - 1) - 1 + 1 /\ 1 + i - 1 = i
      BY <1>1
    <3>2. QED
      BY <1>3, <3>1
  <2>3. QED
    BY <2>1, <2>2
<1>5. Last(s) \in S
  BY <1>1
<1>6. QED
  BY <1>1, <1>3, <1>4, <1>5

(* The sections it is in when the current tracker is one more, below.      *)
LEMMA ActiveDeeper ==
  ASSUME NEW code, NEW c, c.current \in Path, NEW act, ActiveAround(code, c, act),
         NEW d, NEW x \in Nat, d.current = Append(c.current, x)
  PROVE  ActiveAround(code, d, act)
<1> DEFINE n == Len(c.current)
<1>1. /\ n \in Nat /\ d.current # Root /\ Len(d.current) = n + 1
      /\ \A i \in 1 .. n : d.current[i] = c.current[i]
      /\ \A k \in 0 .. n : SubSeq(d.current, 1, k) = SubSeq(c.current, 1, k)
  BY GrownPath
<1>2. ASSUME NEW i \in 1 .. Len(act)
      PROVE  LET m == Len(act[i].tracker)
             IN  /\ m \in 2 .. Len(d.current)
                 /\ act[i].tracker = SubSeq(d.current, 1, m)
                 /\ code[d.current[m]] = "section"
                 /\ \A j \in 1 .. i - 1 : Len(act[j].tracker) < m
  <2>1. PICK m \in 2 .. n :
          /\ m = Len(act[i].tracker)
          /\ act[i].tracker = SubSeq(c.current, 1, m)
          /\ code[c.current[m]] = "section"
          /\ \A j \in 1 .. i - 1 : Len(act[j].tracker) < m
    BY DEF ActiveAround
  <2>2. m \in 1 .. n /\ m \in 0 .. n /\ m \in 2 .. n + 1
    BY <1>1
  <2>3. QED
    BY <1>1, <2>1, <2>2
<1>3. QED
  BY <1>1, <1>2 DEF ActiveAround

Scoped == [tracker : Path, prevAssertions : Counts]

(* And when it enters the current one.                                     *)
LEMMA ActiveEnters ==
  ASSUME NEW code, NEW c, c.current \in Path, NEW act \in Seq(Scoped), ActiveAround(code, c, act),
         NEW d, NEW x \in Nat, d.current = Append(c.current, x), code[x] = "section",
         NEW s \in Scoped, s.tracker = d.current
  PROVE  ActiveAround(code, d, Append(act, s))
<1> DEFINE n == Len(c.current)
           new == Append(act, s)
           l == Len(act)
<1>1. /\ n \in Nat /\ d.current # Root /\ Len(d.current) = n + 1 /\ d.current \in Path
      /\ d.current[n + 1] = x /\ SubSeq(d.current, 1, n + 1) = d.current
  <2>1. PICK u : u = d.current /\ u = Append(c.current, x)
    OBVIOUS
  <2>2. /\ n \in Nat /\ u # Root /\ Len(u) = n + 1 /\ u \in Path
        /\ u[n + 1] = x /\ SubSeq(u, 1, n + 1) = u
    <3>1. u \in Path /\ u # Root /\ Len(u) = n + 1
      BY <2>1, PathGrows
    <3>2. n \in Nat /\ u[n + 1] = x
      BY <2>1, PathAt
    <3>3. SubSeq(u, 1, n + 1) = u
      BY <2>1, GrownPath
    <3>4. QED
      BY <3>1, <3>2, <3>3
  <2>3. QED
    BY <2>1, <2>2
<1>2. l \in Nat /\ Len(new) = l + 1 /\ new[l + 1] = s /\ \A i \in 1 .. l : new[i] = act[i]
  BY AppendProperties
<1> HIDE DEF new
<1>3. ActiveAround(code, d, act)
  BY ActiveDeeper
<1>4. n > 0
  <2>1. c.current # Root
    BY DEF ActiveAround
  <2>2. QED
    BY <1>1, <2>1, RootIs
<1>5. \A j \in 1 .. l : Len(act[j].tracker) < n + 1
  BY <1>1 DEF ActiveAround
<1>6. ASSUME NEW i \in 1 .. l + 1
      PROVE  LET m == Len(new[i].tracker)
             IN  /\ m \in 2 .. Len(d.current)
                 /\ new[i].tracker = SubSeq(d.current, 1, m)
                 /\ code[d.current[m]] = "section"
                 /\ \A j \in 1 .. i - 1 : Len(new[j].tracker) < m
  <2>1. \A j \in 1 .. i - 1 : j \in 1 .. l
    BY <1>2
  <2>2. CASE i = l + 1
    <3>1. new[i].tracker = d.current /\ Len(new[i].tracker) = n + 1
      BY <1>1, <1>2, <2>2
    <3>2. \A j \in 1 .. i - 1 : Len(new[j].tracker) < n + 1
      BY <1>2, <1>5, <2>1
    <3>3. n + 1 \in 2 .. Len(d.current)
      BY <1>1, <1>4
    <3>4. QED
      BY <1>1, <3>1, <3>2, <3>3
  <2>3. CASE i # l + 1
    <3>1. i \in 1 .. l /\ new[i] = act[i] /\ \A j \in 1 .. i - 1 : new[j] = act[j]
      BY <1>2, <2>1, <2>3
    <3>2. QED
      BY <1>3, <3>1 DEF ActiveAround
  <2>4. QED
    BY <2>2, <2>3
<1>7. ActiveAround(code, d, new)
  BY <1>1, <1>2, <1>6 DEF ActiveAround
<1>8. QED
  BY <1>7 DEF new

(* And when the innermost of them is left.                                 *)
LEMMA ActiveLeaves ==
  ASSUME NEW code, NEW c, Tree(code, c), NEW act \in Seq(Scoped), act # <<>>,
         ActiveAround(code, c, act), NEW d, d.current = Parent(Last(act).tracker)
  PROVE  LET m == Len(Last(act).tracker)
         IN  /\ m \in 2 .. Len(c.current) /\ Last(act).tracker = SubSeq(c.current, 1, m)
             /\ code[c.current[m]] = "section"
             /\ d.current = SubSeq(c.current, 1, m - 1)
             /\ ActiveAround(code, d, Front(act))
             /\ Front(act) \in Seq(Scoped) /\ Len(Front(act)) = Len(act) - 1
             /\ Len(act) \in Nat /\ Len(act) > 0 /\ Last(act) = act[Len(act)]
             /\ \A i \in 1 .. Len(act) - 1 : Front(act)[i] = act[i]
<1> DEFINE l == Len(act)
           n == Len(c.current)
<1>1. /\ l \in Nat /\ l > 0 /\ Last(act) = act[l] /\ Front(act) \in Seq(Scoped)
      /\ Len(Front(act)) = l - 1 /\ \A i \in 1 .. l - 1 : Front(act)[i] = act[i]
  BY LastAndFront
<1>2. l \in 1 .. l
  BY <1>1
<1>3. PICK m \in 2 .. n :
        /\ m = Len(act[l].tracker)
        /\ act[l].tracker = SubSeq(c.current, 1, m)
        /\ code[c.current[m]] = "section"
        /\ \A j \in 1 .. l - 1 : Len(act[j].tracker) < m
  BY <1>2 DEF ActiveAround
<1>4. /\ c.current # Root /\ c.current \in Path /\ n \in Nat
      /\ \A i \in 1 .. n : c.current[i] \in Nat
  BY CurrentIs DEF ActiveAround
<1>5. /\ m \in 0 .. n /\ m > 0 /\ m - 1 \in 0 .. n /\ m - 1 # 0
  BY <1>4
<1>6. /\ d.current = SubSeq(c.current, 1, m - 1) /\ d.current \in Path /\ Len(d.current) = m - 1
      /\ \A i \in 1 .. m - 1 : d.current[i] = c.current[i]
      /\ \A k \in 0 .. m - 1 : SubSeq(d.current, 1, k) = SubSeq(c.current, 1, k)
  <2>1. d.current = SubSeq(c.current, 1, m - 1)
    BY <1>1, <1>3, <1>4, <1>5, PathParts
  <2>2. PICK s, k : s = c.current /\ k = m - 1 /\ s \in Path /\ k \in 0 .. Len(s)
    BY <1>4, <1>5
  <2>3. /\ SubSeq(s, 1, k) \in Path /\ Len(SubSeq(s, 1, k)) = k
        /\ \A j \in 0 .. k : SubSeq(SubSeq(s, 1, k), 1, j) = SubSeq(s, 1, j)
    BY <2>2, PathParts
  <2>4. \A i \in 1 .. k : SubSeq(s, 1, k)[i] = s[i]
    BY <2>2, PathAt
  <2>5. QED
    BY <2>1, <2>2, <2>3, <2>4
<1>7. d.current # Root
  <2>1. m - 1 # 0
    BY <1>4, <1>5
  <2>2. QED
    BY <1>6, <2>1, RootIs
<1>8. ASSUME NEW i \in 1 .. l - 1
      PROVE  LET k == Len(Front(act)[i].tracker)
             IN  /\ k \in 2 .. Len(d.current)
                 /\ Front(act)[i].tracker = SubSeq(d.current, 1, k)
                 /\ code[d.current[k]] = "section"
                 /\ \A j \in 1 .. i - 1 : Len(Front(act)[j].tracker) < k
  <2>1. i \in 1 .. l /\ \A j \in 1 .. i - 1 : j \in 1 .. l - 1
    BY <1>1
  <2>2. PICK k \in 2 .. n :
          /\ k = Len(act[i].tracker)
          /\ act[i].tracker = SubSeq(c.current, 1, k)
          /\ code[c.current[k]] = "section"
          /\ \A j \in 1 .. i - 1 : Len(act[j].tracker) < k
    BY <2>1 DEF ActiveAround
  <2>3. k \in 2 .. m - 1 /\ k \in 1 .. m - 1 /\ k \in 0 .. m - 1
    BY <1>3, <1>4, <2>2
  <2>4. Front(act)[i] = act[i] /\ \A j \in 1 .. i - 1 : Front(act)[j] = act[j]
    BY <1>1, <2>1
  <2>5. QED
    BY <1>6, <2>2, <2>3, <2>4
<1>9. ActiveAround(code, d, Front(act))
  BY <1>1, <1>7, <1>8 DEF ActiveAround
<1>10. QED
  BY <1>1, <1>3, <1>6, <1>9

-----------------------------------------------------------------------------
(***************************************************************************)
(* One instruction of the test function after the other.                   *)
(***************************************************************************)
InFunction(code, c, act, x) == Tree(code, c) /\ ActiveAround(code, c, act) /\ FunctionAt(code, c, act, x)

(* What a section or a GENERATE asks for.                                  *)
LEMMA AsksFor ==
  ASSUME NEW code, IsCode(code), NEW c, NEW act, NEW x \in 1 .. Len(code),
         InFunction(code, c, act, x)
  PROVE  LET n == Len(c.current)
             t == Append(c.current, x)
         IN  /\ Ordered(c) /\ IsContext(c) /\ c.current \in Path /\ c.current # Root /\ n \in Nat /\ n > 0
             /\ x \in Nat /\ Len(code) \in Nat /\ x + 1 \in 1 .. Len(code) + 1
             /\ c.current[n] \in Nat /\ c.current[n] < x
             /\ t \in Path /\ Len(t) = n + 1 /\ t[n + 1] = x /\ SubSeq(t, 1, n) = c.current
             /\ \A d : /\ code[x] \in {"section", "generate"}
                       /\ t \in DOMAIN d.generator <=> code[x] = "generate"
                       => Placed(code, d, t)
             /\ code[x] \in {"section", "generate"} => IsIn(code, c.current, x)
             /\ t \in DOMAIN c.state => (t \in DOMAIN c.generator <=> code[x] = "generate")
             /\ DOMAIN c.generator \subseteq DOMAIN c.state
<1> DEFINE n == Len(c.current)
           t == Append(c.current, x)
<1>1. /\ Ordered(c) /\ IsContext(c) /\ c.current \in Path /\ c.current # Root /\ n \in Nat /\ n > 0
      /\ \A i \in 1 .. n : c.current[i] \in Nat
      /\ \A i, j \in 1 .. n : i < j => c.current[i] < c.current[j]
  <2>1. Tree(code, c) /\ c.current # Root
    BY DEF InFunction, ActiveAround
  <2>2. QED
    BY <2>1, CurrentIs
<1>2. x \in Nat /\ Len(code) \in Nat /\ x + 1 \in 1 .. Len(code) + 1 /\ n \in 1 .. n /\ n + 1 >= 2
  BY <1>1, SectionsNest
<1>3. c.current[n] \in Nat /\ c.current[n] < x /\ Scopes(code, x) = SectionsOn(code, c.current)
  BY <1>1, <1>2 DEF InFunction, FunctionAt
<1>4. t \in Path /\ Len(t) = n + 1 /\ Parent(t) = c.current
  BY <1>1, <1>2, PathGrows
<1>5. t[n + 1] = x /\ \A i \in 1 .. n : t[i] = c.current[i]
  BY <1>1, <1>2, PathAt
<1>6. SubSeq(t, 1, n) = c.current
  <2>1. n \in 0 .. n
    BY <1>1
  <2>2. SubSeq(t, 1, n) = SubSeq(c.current, 1, n)
    BY <1>1, <1>2, <2>1, PathGrows
  <2>3. SubSeq(c.current, 1, n) = c.current
    BY <1>1, <2>1, PathParts
  <2>4. QED
    BY <2>2, <2>3
<1>7. code[x] \in {"section", "generate"} => IsIn(code, c.current, x)
  BY <1>3 DEF IsIn
<1> HIDE DEF t
<1>8. ASSUME NEW d, code[x] \in {"section", "generate"},
             t \in DOMAIN d.generator <=> code[x] = "generate"
      PROVE  Placed(code, d, t)
  <2>1. ASSUME NEW i \in 1 .. Len(t) - 1 PROVE t[i] < t[Len(t)]
    <3>1. i \in 1 .. n /\ t[i] = c.current[i] /\ t[Len(t)] = x
      BY <1>1, <1>4, <1>5
    <3>2. c.current[i] \in Nat /\ c.current[i] <= c.current[n]
      BY <1>1, <1>2, <3>1
    <3>3. QED
      BY <1>2, <1>3, <3>1, <3>2
  <2>2. /\ Len(t) # 1 /\ ~ (Len(t) < 2) /\ t[Len(t)] = x
    BY <1>1, <1>4, <1>5
  <2>3. QED
    BY <1>4, <1>7, <1>8, <2>1, <2>2, Zenon DEF Placed
<1>9. t \in DOMAIN c.state => (t \in DOMAIN c.generator <=> code[x] = "generate")
  <2>1. SUFFICES ASSUME t \in DOMAIN c.state PROVE t \in DOMAIN c.generator <=> code[x] = "generate"
    OBVIOUS
  <2>2. Placed(code, c, t)
    BY <2>1 DEF InFunction, Tree
  <2>3. QED
    BY <1>2, <1>4, <1>5, <2>2 DEF Placed
<1>10. DOMAIN c.generator \subseteq DOMAIN c.state
  BY DEF InFunction, Tree
<1>11. QED
  BY <1>1, <1>2, <1>3, <1>4, <1>5, <1>6, <1>7, <1>8, <1>9, <1>10 DEF t

(* Past an instruction that opens nothing: what is current stays so, and   *)
(* all that begins on the way is complete, or the cycle has been.          *)
LEMMA GoesOn ==
  ASSUME NEW code, IsCode(code), NEW c, NEW act, NEW x \in 1 .. Len(code),
         InFunction(code, c, act, x), NEW d, Tree(code, d), d.current = c.current,
         d.completedCycle = c.completedCycle,
         \A u : Finished(c, u) => Finished(d, u),
         \A u : StartedSection(d, u) => StartedSection(c, u),
         NEW y \in 1 .. Len(code) + 1, x < y, Scopes(code, y) = Scopes(code, x),
         ~ c.completedCycle => \A z \in 1 .. Len(code) :
           x <= z /\ z < y /\ IsIn(code, c.current, z) => Finished(d, Append(c.current, z))
  PROVE  InFunction(code, d, act, y)
<1> DEFINE n == Len(c.current)
<1>1. /\ IsContext(c) /\ c.current \in Path /\ c.current # Root /\ n \in Nat /\ n > 0
      /\ x \in Nat /\ Len(code) \in Nat /\ c.current[n] \in Nat /\ c.current[n] < x
  BY AsksFor
<1>2. y \in Nat
  BY <1>1
<1>3. ActiveAround(code, d, act)
  BY DEF InFunction, ActiveAround
<1>4. /\ y \in 1 .. Len(code) + 1
      /\ c.current[n] < y
      /\ Scopes(code, y) = SectionsOn(code, c.current)
      /\ \A m \in 2 .. n :
           code[c.current[m]] = "section" => \E i \in 1 .. Len(act) : Len(act[i].tracker) = m
  BY <1>1, <1>2 DEF InFunction, FunctionAt
<1>5. ASSUME ~ c.completedCycle
      PROVE  DoneBefore(code, d, Append(c.current, y))
  <2>1. DoneBefore(code, c, Append(c.current, x))
    BY <1>5 DEF InFunction, FunctionAt
  <2>2. /\ DoneBefore(code, c, c.current)
        /\ \A z \in 1 .. Len(code) : c.current[n] < z /\ z < x /\ IsIn(code, c.current, z) =>
             Finished(c, Append(c.current, z))
    BY <1>1, <2>1, DoneGrows
  <2>3. DoneBefore(code, d, c.current)
    BY <2>2, FinishedStays
  <2>4. \A z \in 1 .. Len(code) : c.current[n] < z /\ z < y /\ IsIn(code, c.current, z) =>
          Finished(d, Append(c.current, z))
    <3>1. ASSUME NEW z \in 1 .. Len(code), c.current[n] < z, z < y, IsIn(code, c.current, z)
          PROVE  Finished(d, Append(c.current, z))
      <4>1. CASE z < x
        BY <2>2, <3>1, <4>1
      <4>2. CASE x <= z
        BY <1>5, <3>1, <4>2
      <4>3. QED
        BY <1>1, <4>1, <4>2
    <3>2. QED
      BY <3>1
  <2>5. QED
    BY <1>1, <1>2, <2>3, <2>4, DoneGrows
<1>6. ASSUME c.completedCycle
      PROVE  NoneAhead(d, y)
  <2>1. NoneAhead(c, x) /\ x <= y
    BY <1>1, <1>2, <1>6 DEF InFunction, FunctionAt
  <2>2. QED
    BY <1>1, <1>2, <2>1, AheadStays
<1>7. FunctionAt(code, d, act, y)
  BY <1>4, <1>5, <1>6 DEF FunctionAt
<1>8. QED
  BY <1>3, <1>7 DEF InFunction

(* Past an assertion.                                                      *)
LEMMA PassesCheck ==
  ASSUME NEW code, IsCode(code), NEW c, NEW act, NEW x \in 1 .. Len(code),
         InFunction(code, c, act, x), code[x] = "check"
  PROVE  InFunction(code, c, act, x + 1)
<1>1. x \in Nat /\ x + 1 \in 1 .. Len(code) + 1 /\ x < x + 1
  BY AsksFor
<1>2. Scopes(code, x + 1) = Scopes(code, x)
  BY ScopesPass
<1>3. \A z \in 1 .. Len(code) : x <= z /\ z < x + 1 => z = x
  BY <1>1
<1>4. ~ IsIn(code, c.current, x)
  BY DEF IsIn
<1>5. Tree(code, c)
  BY DEF InFunction
<1>6. QED
  BY <1>1, <1>2, <1>3, <1>4, <1>5, GoesOn

(* Past a section that has not been started, or into it.                   *)
LEMMA SectionAdded ==
  ASSUME NEW code, IsCode(code), NEW c, NEW act, NEW x \in 1 .. Len(code),
         InFunction(code, c, act, x), code[x] = "section"
  PROVE  \E t, a :
           /\ t = Append(c.current, x) /\ a = Added(c, t)
           /\ Gains(c, a, t) /\ Tree(code, a) /\ t \in DOMAIN a.state /\ t \notin DOMAIN a.generator
           /\ \A u : Finished(c, u) => Finished(a, u)
           /\ \A u : StartedSection(a, u) <=> StartedSection(c, u)
           /\ acquireSection(c, x) =
                IF ~ c.completedCycle /\ ~ isComplete(a, t) THEN open(a, t) ELSE a
<1>1. PICK t, a : t = Append(c.current, x) /\ a = Added(c, t)
  OBVIOUS
<1>2. /\ IsContext(c) /\ t \in Path /\ x \in Nat
      /\ \A d : t \notin DOMAIN d.generator => Placed(code, d, t)
      /\ t \in DOMAIN c.state => t \notin DOMAIN c.generator
      /\ DOMAIN c.generator \subseteq DOMAIN c.state
  BY <1>1, AsksFor
<1>3. Gains(c, a, t) /\ a.generator = c.generator
  BY <1>1, <1>2, AddedIs
<1>4. t \notin DOMAIN a.generator
  BY <1>2, <1>3
<1>5. Placed(code, a, t) /\ Tree(code, c)
  BY <1>2, <1>4 DEF InFunction
<1>6. /\ Tree(code, a)
      /\ \A u : Finished(c, u) => Finished(a, u)
      /\ \A u : StartedSection(a, u) <=> StartedSection(c, u)
  BY <1>1, <1>2, <1>3, <1>5, GainsTree
<1>7. t \in DOMAIN a.state /\ a.completedCycle = c.completedCycle
  BY <1>3 DEF Gains
<1>8. acquireSection(c, x) = IF ~ c.completedCycle /\ ~ isComplete(a, t) THEN open(a, t) ELSE a
  BY <1>1, <1>7, AcquireIs
<1>9. QED
  BY <1>1, <1>3, <1>4, <1>6, <1>7, <1>8, Zenon

(* A section is only entered when it has been opened: one that is busy     *)
(* from an earlier cycle is not come to once the cycle is complete.        *)
LEMMA EntersOpened ==
  ASSUME NEW code, IsCode(code), NEW c, NEW act, NEW x \in 1 .. Len(code),
         InFunction(code, c, act, x), code[x] = "section",
         isOpen(acquireSection(c, x), Append(c.current, x))
  PROVE  /\ ~ c.completedCycle
         /\ ~ isComplete(Added(c, Append(c.current, x)), Append(c.current, x))
         /\ acquireSection(c, x) = open(Added(c, Append(c.current, x)), Append(c.current, x))
<1>1. PICK t, a :
        /\ t = Append(c.current, x) /\ a = Added(c, t)
        /\ Gains(c, a, t) /\ Tree(code, a) /\ t \in DOMAIN a.state /\ t \notin DOMAIN a.generator
        /\ \A u : Finished(c, u) => Finished(a, u)
        /\ \A u : StartedSection(a, u) <=> StartedSection(c, u)
        /\ acquireSection(c, x) =
             IF ~ c.completedCycle /\ ~ isComplete(a, t) THEN open(a, t) ELSE a
  BY SectionAdded
<1>4. SUFFICES ASSUME ~ (~ c.completedCycle /\ ~ isComplete(a, t))
               PROVE  FALSE
  BY <1>1
<1>5. isOpen(a, t)
  BY <1>1, <1>4
<1>6. c.completedCycle /\ a.state[t] # "NotStarted" /\ ~ isComplete(a, t)
  BY <1>4, <1>5 DEF isOpen
<1>7. a.state[t] \in Busy
  <2>1. a.state[t] \notin {"CompletedSuccessfully", "Failed"}
    BY <1>6, Zenon DEF isComplete
  <2>2. a.state[t] \in CycleState
    BY <1>1 DEF Gains, IsContext
  <2>3. QED
    BY <1>6, <2>1, <2>2 DEF CycleState, Busy
<1>8. StartedSection(c, t) /\ t \in DOMAIN c.state
  <2>1. StartedSection(a, t)
    BY <1>1, <1>7 DEF StartedSection, Started, Busy
  <2>2. QED
    BY <1>1, <2>1 DEF StartedSection, Started
<1>9. /\ c.current \in Path /\ Len(c.current) \in Nat /\ Len(c.current) > 0 /\ x \in Nat
      /\ Len(t) = Len(c.current) + 1 /\ t[Len(c.current) + 1] = x
      /\ SubSeq(t, 1, Len(c.current)) = c.current
  BY <1>1, AsksFor
<1>10. Len(c.current) \in 1 .. Len(c.current) /\ SubSeq(c.current, 1, Len(c.current)) = c.current
  BY <1>9, PathParts
<1>11. NoneAhead(c, x)
  BY <1>6 DEF InFunction, FunctionAt
<1>12. QED
  BY <1>8, <1>9, <1>10, <1>11 DEF NoneAhead

LEMMA EntersSection ==
  ASSUME NEW code, IsCode(code), NEW c, NEW act \in Seq(Scoped), NEW x \in 1 .. Len(code),
         InFunction(code, c, act, x), code[x] = "section",
         NEW d, d = acquireSection(c, x), isOpen(d, Append(c.current, x)),
         NEW s \in Scoped, s.tracker = Append(c.current, x)
  PROVE  InFunction(code, d, Append(act, s), x + 1) /\ ~ d.completedCycle
<1>1. PICK t, a :
        /\ t = Append(c.current, x) /\ a = Added(c, t)
        /\ Gains(c, a, t) /\ Tree(code, a) /\ t \in DOMAIN a.state /\ t \notin DOMAIN a.generator
        /\ \A u : Finished(c, u) => Finished(a, u)
        /\ \A u : StartedSection(a, u) <=> StartedSection(c, u)
        /\ acquireSection(c, x) =
             IF ~ c.completedCycle /\ ~ isComplete(a, t) THEN open(a, t) ELSE a
  BY SectionAdded
<1>4. ~ c.completedCycle /\ ~ isComplete(a, t) /\ d = open(a, t)
  BY <1>1, EntersOpened
<1> DEFINE n == Len(c.current)
<1>5. /\ c.current \in Path /\ n \in Nat /\ n > 0 /\ x \in Nat /\ Len(code) \in Nat
      /\ x + 1 \in 1 .. Len(code) + 1
      /\ t \in Path /\ Len(t) = n + 1 /\ t[n + 1] = x
      /\ a.current = c.current /\ a.completedCycle = c.completedCycle /\ IsContext(a)
  BY <1>1, AsksFor DEF Gains
<1>6. DoneBefore(code, a, t)
  <2>1. DoneBefore(code, c, t)
    BY <1>1, <1>4 DEF InFunction, FunctionAt
  <2>2. QED
    BY <1>1, <2>1, FinishedStays
<1>7. /\ Tree(code, d)
      /\ \A u : Finished(a, u) /\ u # Root => Finished(d, u)
  BY <1>1, <1>4, <1>5, <1>6, OpensTree
<1>8. /\ d.current = t /\ d.completedCycle = c.completedCycle
      /\ IsBusy(d, t) /\ StartedSection(d, t)
  <2>1. /\ DOMAIN d.state = DOMAIN a.state /\ d.state[t] = "Executing"
        /\ d.generator = a.generator /\ d.current = t /\ d.completedCycle = a.completedCycle
    <3>1. LET o == open(a, t)
          IN  /\ DOMAIN o.state = DOMAIN a.state /\ o.state[t] = "Executing"
              /\ o.generator = a.generator /\ o.current = t /\ o.completedCycle = a.completedCycle
      <4>1. IsContext(a) /\ t \in DOMAIN a.state
        BY <1>1, <1>5
      <4>2. QED
        BY <4>1, OpenIs
    <3>2. QED
      BY <1>4, <3>1
  <2>2. QED
    BY <1>1, <1>5, <2>1 DEF IsBusy, StartedSection, Started, Busy
<1>9. ~ d.completedCycle
  BY <1>4, <1>8
<1>10. /\ ActiveAround(code, d, Append(act, s))
       /\ Len(Append(act, s)) = Len(act) + 1 /\ Len(act) \in Nat
       /\ \A i \in 1 .. Len(act) : Append(act, s)[i] = act[i]
       /\ Append(act, s)[Len(act) + 1] = s
  <2>1. ActiveAround(code, c, act)
    BY DEF InFunction
  <2>2. d.current = Append(c.current, x) /\ s.tracker = d.current
    BY <1>1, <1>8
  <2>3. QED
    <3>1. c.current \in Path /\ x \in Nat
      BY <1>5
    <3>2. ActiveAround(code, d, Append(act, s))
      BY <2>1, <2>2, <3>1, ActiveEnters
    <3>3. QED
      BY <3>2, AppendProperties
<1>11. Scopes(code, x + 1) = SectionsOn(code, t)
  <2>1. Scopes(code, x) = SectionsOn(code, c.current)
    BY DEF InFunction, FunctionAt
  <2>2. SectionsOn(code, t) = SectionsOn(code, c.current) \cup {x}
    BY <1>1, <1>5, SectionsGrow
  <2>3. QED
    BY <2>1, <2>2, ScopesEnter
<1>12. ASSUME NEW m \in 2 .. n + 1, code[t[m]] = "section"
       PROVE  \E i \in 1 .. Len(act) + 1 : Len(Append(act, s)[i].tracker) = m
  <2>1. CASE m = n + 1
    <3>1. Len(Append(act, s)[Len(act) + 1].tracker) = n + 1
      BY <1>1, <1>5, <1>10
    <3>2. Len(act) + 1 \in 1 .. Len(act) + 1
      BY <1>10
    <3>3. QED
      BY <2>1, <3>1, <3>2
  <2>2. CASE m # n + 1
    <3>1. m \in 2 .. n /\ m \in 1 .. n
      BY <1>5, <2>2
    <3>2. t[m] = c.current[m]
      BY <1>1, <1>5, <3>1, PathAt
    <3>3. PICK i \in 1 .. Len(act) : Len(act[i].tracker) = m
      BY <1>12, <3>1, <3>2 DEF InFunction, FunctionAt
    <3>4. i \in 1 .. Len(act) + 1 /\ Append(act, s)[i] = act[i]
      BY <1>10
    <3>5. QED
      BY <3>3, <3>4
  <2>3. QED
    BY <2>1, <2>2
<1>13. DoneBefore(code, d, Append(t, x + 1))
  <2>1. DoneBefore(code, d, t)
    <3>1. t \in DOMAIN d.state
      BY <1>8 DEF IsBusy
    <3>2. QED
      BY <1>7, <1>8, <3>1 DEF Tree
  <2>2. \A z \in 1 .. Len(code) : ~ (x < z /\ z < x + 1)
    BY <1>5
  <2>3. Len(t) > 0 /\ t[Len(t)] = x /\ x + 1 \in Nat
    BY <1>5
  <2>4. QED
    BY <1>5, <2>1, <2>2, <2>3, DoneGrows
<1>14. FunctionAt(code, d, Append(act, s), x + 1)
  <2>1. d.current = t /\ Len(t) = n + 1 /\ t[n + 1] < x + 1 /\ Len(Append(act, s)) = Len(act) + 1
    BY <1>5, <1>8, <1>10
  <2> HIDE DEF n
  <2>2. QED
    BY <1>5, <1>9, <1>11, <1>12, <1>13, <2>1, Zenon DEF FunctionAt
<1>15. QED
  BY <1>7, <1>9, <1>10, <1>14 DEF InFunction

LEMMA PassesSection ==
  ASSUME NEW code, IsCode(code), NEW c, NEW act, NEW x \in 1 .. Len(code),
         InFunction(code, c, act, x), code[x] = "section",
         NEW d, d = acquireSection(c, x), ~ isOpen(d, Append(c.current, x))
  PROVE  InFunction(code, d, act, EndOf(code, x) + 1) /\ d.completedCycle = c.completedCycle
<1>1. PICK t, a :
        /\ t = Append(c.current, x) /\ a = Added(c, t)
        /\ Gains(c, a, t) /\ Tree(code, a) /\ t \in DOMAIN a.state /\ t \notin DOMAIN a.generator
        /\ \A u : Finished(c, u) => Finished(a, u)
        /\ \A u : StartedSection(a, u) <=> StartedSection(c, u)
        /\ acquireSection(c, x) =
             IF ~ c.completedCycle /\ ~ isComplete(a, t) THEN open(a, t) ELSE a
  BY SectionAdded
<1>4. /\ c.current \in Path /\ x \in Nat /\ Len(code) \in Nat
      /\ a.current = c.current /\ a.completedCycle = c.completedCycle /\ IsContext(a)
  BY <1>1, AsksFor DEF Gains
<1>5. c.completedCycle \/ isComplete(a, t)
  <2>1. SUFFICES ASSUME ~ c.completedCycle, ~ isComplete(a, t) PROVE FALSE
    OBVIOUS
  <2>2. d = open(a, t)
    BY <1>1, <2>1
  <2>3. d.state[t] = "Executing"
    BY <1>1, <1>4, <2>2, OpenIs
  <2>4. DoneBefore(code, a, t)
    <3>1. DoneBefore(code, c, t)
      BY <1>1, <2>1 DEF InFunction, FunctionAt
    <3>2. QED
      BY <1>1, <3>1, FinishedStays
  <2>5. ~ isComplete(d, t)
    BY <1>1, <1>4, <2>1, <2>2, <2>4, OpensTree
  <2>6. isOpen(d, t)
    BY <2>3, <2>5 DEF isOpen
  <2>7. QED
    BY <1>1, <2>6
<1>6. d = a
  BY <1>1, <1>5
<1> DEFINE e == EndOf(code, x)
<1>7. /\ e \in 1 .. Len(code) /\ e > x /\ e + 1 \in 1 .. Len(code) + 1 /\ x < e + 1
      /\ Scopes(code, e + 1) = Scopes(code, x) /\ x \notin Scopes(code, x)
      /\ \A y \in x + 1 .. e : x \in Scopes(code, y)
  BY <1>4, SectionsNest, ScopesSkip
<1> HIDE DEF e
<1>8. ASSUME ~ c.completedCycle, NEW z \in 1 .. Len(code), x <= z, z < e + 1, IsIn(code, c.current, z)
      PROVE  Finished(d, Append(c.current, z))
  <2>1. CASE z = x
    BY <1>1, <1>5, <1>6, <1>8, <2>1 DEF Finished
  <2>2. CASE z # x
    <3>1. x \in Scopes(code, z)
      BY <1>4, <1>7, <1>8, <2>2
    <3>2. Scopes(code, z) = Scopes(code, x)
      BY <1>8 DEF IsIn, InFunction, FunctionAt
    <3>3. QED
      BY <1>7, <3>1, <3>2
  <2>3. QED
    BY <2>1, <2>2
<1>9. InFunction(code, d, act, e + 1)
  BY <1>1, <1>4, <1>6, <1>7, <1>8, GoesOn
<1>10. QED
  BY <1>4, <1>6, <1>9 DEF e

(* A GENERATE: its tracker is open when it gives a value, even if the      *)
(* cycle is complete, or it is complete and gives its last once more.      *)
LEMMA Generates ==
  ASSUME NEW code, IsCode(code), NEW c, NEW act, NEW x \in 1 .. Len(code),
         InFunction(code, c, act, x), code[x] = "generate", NEW size \in Nat,
         NEW d, d = acquireGenerator(c, x, size)
  PROVE  /\ InFunction(code, d, act, x + 1)
         /\ d.completedCycle = c.completedCycle
         /\ GeneratorAt(c, x) = Append(c.current, x)
<1> DEFINE n == Len(c.current)
<1>1. PICK t : t = Append(c.current, x)
  OBVIOUS
<1>2. PICK a : a = AddedGenerator(c, t, size)
  OBVIOUS
<1>3. /\ Ordered(c) /\ IsContext(c) /\ c.current \in Path /\ c.current # Root /\ n \in Nat /\ n > 0
      /\ x \in Nat /\ x + 1 \in 1 .. Len(code) + 1
      /\ c.current[n] \in Nat /\ c.current[n] < x
      /\ t \in Path /\ Len(t) = n + 1 /\ t[n + 1] = x /\ SubSeq(t, 1, n) = c.current
      /\ \A e : t \in DOMAIN e.generator => Placed(code, e, t)
      /\ IsIn(code, c.current, x)
      /\ t \in DOMAIN c.state => t \in DOMAIN c.generator
  BY <1>1, AsksFor
<1>4. GeneratorAt(c, x) = t
  <2>1. Last(c.current) # x
    BY <1>3 DEF Last
  <2>2. QED
    BY <1>1, <2>1, Zenon DEF GeneratorAt
<1>5. /\ Gains(c, a, t) /\ t \in DOMAIN a.generator
      /\ d = IF isComplete(a, t) THEN a ELSE open(a, t)
  <2>1. Gains(c, a, t) /\ (t \notin DOMAIN c.state => t \in DOMAIN a.generator)
    BY <1>2, <1>3, AddedGeneratorIs
  <2>2. t \in DOMAIN c.state => t \in DOMAIN a.generator
    BY <1>2, <1>3 DEF AddedGenerator
  <2>3. d = IF isComplete(a, t) THEN a ELSE open(a, t)
    BY <1>2, <1>4, AcquireIs
  <2>4. QED
    BY <2>1, <2>2, <2>3
<1>6. /\ Tree(code, a)
      /\ \A u : Finished(c, u) => Finished(a, u)
      /\ \A u : StartedSection(a, u) <=> StartedSection(c, u)
  <2>1. Placed(code, a, t) /\ Tree(code, c)
    BY <1>3, <1>5 DEF InFunction
  <2>2. QED
    BY <1>1, <1>3, <1>5, <2>1, GainsTree
<1>7. /\ a.current = c.current /\ a.completedCycle = c.completedCycle /\ IsContext(a)
      /\ t \in DOMAIN a.state
  BY <1>5 DEF Gains
<1>8. Scopes(code, x + 1) = Scopes(code, x) /\ Scopes(code, x) = SectionsOn(code, c.current)
  BY ScopesPass DEF InFunction, FunctionAt
<1>9. CASE isComplete(a, t)
  <2>1. d = a
    BY <1>5, <1>9
  <2>2. Finished(a, t)
    BY <1>7, <1>9 DEF Finished
  <2>3. \A z \in 1 .. Len(code) : x <= z /\ z < x + 1 => z = x
    BY <1>3
  <2>4. \A z \in 1 .. Len(code) : x <= z /\ z < x + 1 /\ IsIn(code, c.current, z) =>
          Finished(a, Append(c.current, z))
    BY <1>1, <2>2, <2>3
  <2>5. x < x + 1
    BY <1>3
  <2>6. InFunction(code, a, act, x + 1)
    BY <1>3, <1>6, <1>7, <1>8, <2>4, <2>5, GoesOn
  <2>7. QED
    BY <1>1, <1>4, <1>7, <2>1, <2>6
<1>10. CASE ~ isComplete(a, t)
  <2>1. d = open(a, t)
    BY <1>5, <1>10
  <2>2. /\ d.current = t /\ d.completedCycle = c.completedCycle /\ d.generator = a.generator
    BY <1>7, <2>1, OpenIs
  <2>3. /\ Tree(code, d)
        /\ \A u : Finished(a, u) /\ u # Root => Finished(d, u)
        /\ \A u : StartedSection(d, u) => u = t \/ u = Root \/ StartedSection(a, u)
    BY <1>1, <1>3, <1>5, <1>6, <1>7, <1>10, <2>1, OpensTree
  <2>4. ActiveAround(code, d, act)
    <3>1. ActiveAround(code, c, act)
      BY DEF InFunction
    <3>2. QED
      BY <1>1, <1>3, <2>2, <3>1, ActiveDeeper
  <2>5. Scopes(code, x + 1) = SectionsOn(code, t)
    <3>1. SectionsOn(code, t) = SectionsOn(code, c.current) \cup {}
      BY <1>1, <1>3, SectionsGrow
    <3>2. QED
      BY <1>8, <3>1
  <2>6. ASSUME NEW m \in 2 .. n + 1, code[t[m]] = "section"
        PROVE  \E i \in 1 .. Len(act) : Len(act[i].tracker) = m
    <3>1. m # n + 1
      BY <1>3, <2>6
    <3>2. m \in 2 .. n /\ m \in 1 .. n
      BY <1>3, <3>1
    <3>3. t[m] = c.current[m]
      BY <1>1, <1>3, <3>2, PathAt
    <3>4. QED
      BY <2>6, <3>2, <3>3 DEF InFunction, FunctionAt
  <2>7. ASSUME ~ c.completedCycle
        PROVE  DoneBefore(code, d, Append(t, x + 1))
    <3>1. DoneBefore(code, c, t)
      BY <1>1, <2>7 DEF InFunction, FunctionAt
    <3>2. DoneBefore(code, a, t)
      BY <1>6, <3>1, FinishedStays
    <3>3. ASSUME NEW k \in 1 .. Len(t) - 1, NEW z \in 1 .. Len(code),
                 Finished(a, Append(SubSeq(t, 1, k), z))
          PROVE  Finished(d, Append(SubSeq(t, 1, k), z))
      <4>1. k \in 0 .. Len(t) /\ z \in Nat
        BY <1>3
      <4>2. SubSeq(t, 1, k) \in Path
        BY <1>3, <4>1, PathParts
      <4>3. Append(SubSeq(t, 1, k), z) # Root
        BY <4>1, <4>2, PathGrows
      <4>4. QED
        BY <2>3, <3>3, <4>3
    <3>4. DoneBefore(code, d, t)
      BY <3>2, <3>3, FinishedStays
    <3>5. \A z \in 1 .. Len(code) : ~ (x < z /\ z < x + 1)
      BY <1>3
    <3>6. Len(t) > 0 /\ t[Len(t)] = x /\ x + 1 \in Nat
      BY <1>3
    <3>7. QED
      BY <1>3, <3>4, <3>5, <3>6, DoneGrows
  <2>8. ASSUME c.completedCycle
        PROVE  NoneAhead(d, x + 1)
    <3>1. NoneAhead(c, x)
      BY <2>8 DEF InFunction, FunctionAt
    <3>2. SUFFICES ASSUME NEW u \in DOMAIN d.state, NEW k \in 1 .. n + 1,
                          StartedSection(d, u), Len(u) > k, u[k + 1] >= x + 1,
                          SubSeq(u, 1, k) = SubSeq(t, 1, k)
                   PROVE  FALSE
      BY <1>3, <2>2 DEF NoneAhead
    <3>3. IsContext(d) /\ u \in Path /\ Len(u) \in Nat
      BY <2>3 DEF Tree, Ordered, IsContext, Path
    <3>4. u # Root /\ u # t
      <4>1. Len(u) # 0
        BY <3>2, <3>3
      <4>2. t \notin DOMAIN d.generator => FALSE
        BY <1>5, <2>2
      <4>3. QED
        BY <3>2, <3>3, <4>1, <4>2, RootIs DEF StartedSection
    <3>5. StartedSection(c, u) /\ u \in DOMAIN c.state
      <4>1. StartedSection(c, u)
        BY <1>6, <2>3, <3>2, <3>4
      <4>2. QED
        BY <4>1 DEF StartedSection, Started
    <3>6. k \in 0 .. Len(u) /\ k + 1 \in 1 .. Len(u) /\ u[k + 1] \in Nat
      BY <1>3, <3>2, <3>3, PathAt
    <3>7. CASE k = n + 1
      <4>1. n \in 0 .. k /\ n + 1 \in 1 .. k /\ n \in 1 .. n /\ Len(u) > n
        BY <1>3, <3>2, <3>3, <3>7
      <4>2. SubSeq(t, 1, k) = t
        BY <1>3, <3>7, PathParts
      <4>3. SubSeq(u, 1, n) = c.current
        <5>1. SubSeq(SubSeq(u, 1, k), 1, n) = SubSeq(u, 1, n)
          BY <3>3, <3>6, <4>1, PathParts
        <5>2. QED
          BY <1>3, <3>2, <4>2, <5>1
      <4>4. u[n + 1] = x
        <5>1. SubSeq(u, 1, k)[n + 1] = u[n + 1]
          BY <3>3, <3>6, <4>1, PathAt
        <5>2. QED
          BY <1>3, <3>2, <4>2, <5>1
      <4>5. SubSeq(c.current, 1, n) = c.current /\ u[n + 1] >= x
        BY <1>3, <4>1, <4>4, PathParts
      <4>6. QED
        BY <3>1, <3>5, <4>1, <4>3, <4>5 DEF NoneAhead
    <3>8. CASE k # n + 1
      <4>1. k \in 1 .. n /\ k \in 0 .. n /\ u[k + 1] >= x
        BY <1>3, <3>2, <3>6, <3>8
      <4>2. SubSeq(t, 1, k) = SubSeq(c.current, 1, k)
        BY <1>1, <1>3, <4>1, PathGrows
      <4>3. QED
        BY <3>1, <3>2, <3>5, <4>1, <4>2 DEF NoneAhead
    <3>9. QED
      BY <3>7, <3>8
  <2>9. FunctionAt(code, d, act, x + 1)
    <3>1. d.current = t /\ Len(t) = n + 1 /\ t[n + 1] < x + 1
      BY <1>3, <2>2
    <3> HIDE DEF n
    <3>2. QED
      BY <1>3, <2>2, <2>5, <2>6, <2>7, <2>8, <3>1, Zenon DEF FunctionAt
  <2>10. QED
    BY <1>1, <1>4, <2>2, <2>3, <2>4, <2>9 DEF InFunction
<1>11. QED
  BY <1>9, <1>10

(* What has started beside what is current is before it, since all before  *)
(* such a section is complete and what is current is not.                  *)
LEMMA NoneBesideAhead ==
  ASSUME NEW code, IsCode(code), NEW c, Tree(code, c), c.current # Root, NEW u, StartedSection(c, u),
         NEW k \in 1 .. Len(c.current) - 1, Len(u) > k, SubSeq(u, 1, k) = SubSeq(c.current, 1, k)
  PROVE  ~ (u[k + 1] > c.current[k + 1])
<1> DEFINE n == Len(c.current)
           w == c.current[k + 1]
<1>1. /\ IsContext(c) /\ c.current \in Path /\ n \in Nat
      /\ \A i \in 1 .. n : c.current[i] \in Nat
      /\ \A i, j \in 1 .. n : i < j => c.current[i] < c.current[j]
      /\ \A i \in 1 .. n - 1 : IsIn(code, SubSeq(c.current, 1, i), c.current[i + 1])
      /\ \A i \in 1 .. n : ~ Finished(c, SubSeq(c.current, 1, i))
  BY CurrentIs
<1>2. u \in DOMAIN c.state /\ u \in Path /\ Len(u) \in Nat
  BY <1>1 DEF StartedSection, Started, IsContext, Path
<1>3. SUFFICES ASSUME u[k + 1] > w PROVE FALSE
  OBVIOUS
<1>4. /\ k \in Nat /\ k \in 1 .. n /\ k + 1 \in 1 .. n /\ k < k + 1 /\ k < n
      /\ k \in 1 .. Len(u) - 1 /\ k \in 0 .. Len(u) /\ k \in 1 .. k /\ k \in 0 .. n
  BY <1>1, <1>2
<1>5. /\ c.current[k] < w /\ w \in Nat
      /\ IsIn(code, SubSeq(c.current, 1, k), w)
      /\ ~ Finished(c, SubSeq(c.current, 1, k + 1))
  BY <1>1, <1>4
<1>6. w \in 1 .. Len(code)
  <2>1. k + 1 \in 0 .. n /\ k + 1 > 0 /\ k + 1 >= 2 /\ k + 1 \in 1 .. k + 1
    BY <1>1, <1>4
  <2>2. SubSeq(c.current, 1, k + 1) \in DOMAIN c.state
    BY <2>1 DEF Tree, Ordered
  <2>3. Placed(code, c, SubSeq(c.current, 1, k + 1))
    BY <2>2 DEF Tree
  <2>4. Len(SubSeq(c.current, 1, k + 1)) = k + 1
    BY <1>1, <2>1, PathParts
  <2>5. SubSeq(c.current, 1, k + 1)[k + 1] = w
    BY <1>1, <2>1, PathAt
  <2>6. QED
    BY <2>1, <2>3, <2>4, <2>5 DEF Placed
<1>7. DoneBefore(code, c, u)
  BY <1>2 DEF Tree
<1>8. u[k] = c.current[k]
  <2>1. SubSeq(u, 1, k)[k] = u[k] /\ SubSeq(c.current, 1, k)[k] = c.current[k]
    BY <1>1, <1>2, <1>4, PathAt
  <2>2. QED
    BY <2>1
<1>9. u[k + 1] \in Nat
  <2>1. k + 1 \in 1 .. Len(u)
    BY <1>2, <1>4
  <2>2. QED
    BY <1>2, <2>1, PathAt
<1>10. Finished(c, Append(SubSeq(u, 1, k), w))
  BY <1>3, <1>4, <1>5, <1>6, <1>7, <1>8, <1>9 DEF DoneBefore
<1>11. Append(SubSeq(c.current, 1, k), w) = SubSeq(c.current, 1, k + 1)
  BY <1>1, <1>4, PathStep
<1>12. QED
  BY <1>5, <1>10, <1>11

LEMMA SectionsCut ==
  ASSUME NEW code, NEW t \in Path, \A i, j \in 1 .. Len(t) : i < j => t[i] < t[j],
         NEW m \in 2 .. Len(t), code[t[m]] = "section",
         \A i \in 2 .. Len(t) : code[t[i]] = "section" => t[i] <= t[m]
  PROVE  SectionsOn(code, SubSeq(t, 1, m - 1)) = SectionsOn(code, t) \ {t[m]}
<1> DEFINE s == SubSeq(t, 1, m - 1)
<1>1. /\ Len(t) \in Nat /\ \A i \in 1 .. Len(t) : t[i] \in Nat
      /\ m - 1 \in 0 .. Len(t) /\ m \in 1 .. Len(t)
  BY PathAt
<1>2. s \in Path /\ Len(s) = m - 1 /\ \A i \in 1 .. m - 1 : s[i] = t[i]
  BY <1>1, PathParts, PathAt
<1> HIDE DEF s
<1>3. ASSUME NEW j PROVE j \in SectionsOn(code, s) <=> j \in SectionsOn(code, t) /\ j # t[m]
  <2>1. j \in SectionsOn(code, s) <=> \E i \in 2 .. m - 1 : code[t[i]] = "section" /\ j = t[i]
    <3>1. \A i \in 2 .. m - 1 : s[i] = t[i]
      BY <1>2
    <3>2. j \in SectionsOn(code, s) <=> \E i \in 2 .. m - 1 : code[s[i]] = "section" /\ j = s[i]
      BY <1>2 DEF SectionsOn
    <3>3. QED
      BY <3>1, <3>2, Zenon
  <2>2. j \in SectionsOn(code, t) <=> \E i \in 2 .. Len(t) : code[t[i]] = "section" /\ j = t[i]
    BY DEF SectionsOn
  <2>3. ASSUME NEW i \in 2 .. Len(t), code[t[i]] = "section"
        PROVE  i \in 2 .. m - 1 <=> t[i] # t[m]
    <3>1. i \in 1 .. Len(t) /\ t[i] \in Nat /\ t[m] \in Nat /\ t[i] <= t[m]
      BY <1>1, <2>3
    <3>2. m < i => t[m] < t[i]
      BY <1>1, <3>1
    <3>3. i < m => t[i] < t[m]
      BY <1>1, <3>1
    <3>4. QED
      BY <1>1, <3>1, <3>2, <3>3
  <2>4. \A i \in 2 .. m - 1 : i \in 2 .. Len(t)
    BY <1>1
  <2>5. QED
    BY <2>1, <2>2, <2>3, <2>4, Zenon
<1>4. QED
  BY <1>3 DEF s

(* At the end of a section the last one that was entered ends.             *)
LEMMA LastIsInnermost ==
  ASSUME NEW code, IsCode(code), NEW c, NEW act \in Seq(Scoped), NEW x \in 1 .. Len(code),
         InFunction(code, c, act, x), code[x] = "end"
  PROVE  /\ act # <<>>
         /\ LET m == Len(Last(act).tracker)
            IN  /\ m \in 2 .. Len(c.current)
                /\ code[c.current[m]] = "section"
                /\ Scopes(code, x + 1) = Scopes(code, x) \ {c.current[m]}
                /\ \A i \in 2 .. Len(c.current) :
                     code[c.current[i]] = "section" => c.current[i] <= c.current[m]
<1> DEFINE n == Len(c.current)
           l == Len(act)
<1>1. /\ c.current \in Path /\ c.current # Root /\ n \in Nat
      /\ \A i \in 1 .. n : c.current[i] \in Nat
      /\ \A i, j \in 1 .. n : i < j => c.current[i] < c.current[j]
  BY CurrentIs DEF InFunction, ActiveAround
<1>2. PICK j \in Scopes(code, x) : /\ Scopes(code, x + 1) = Scopes(code, x) \ {j}
                                   /\ \A i \in Scopes(code, x) : i <= j
  BY ScopesLeave
<1>3. Scopes(code, x) = {c.current[i] : i \in {i \in 2 .. n : code[c.current[i]] = "section"}}
  BY DEF InFunction, FunctionAt, SectionsOn
<1>4. PICK m \in 2 .. n : code[c.current[m]] = "section" /\ j = c.current[m]
  BY <1>2, <1>3
<1>5. \A i \in 2 .. n : code[c.current[i]] = "section" => c.current[i] <= c.current[m]
  BY <1>2, <1>3, <1>4
<1>6. PICK i \in 1 .. l : Len(act[i].tracker) = m
  BY <1>4 DEF InFunction, FunctionAt
<1>7. l \in Nat /\ l \in 1 .. l /\ act # <<>> /\ Last(act) = act[l]
  BY <1>6 DEF Last
<1>8. PICK k \in 2 .. n : /\ k = Len(act[l].tracker) /\ code[c.current[k]] = "section"
                          /\ \A h \in 1 .. l - 1 : Len(act[h].tracker) < k
  BY <1>7 DEF InFunction, ActiveAround
<1>9. m <= k
  BY <1>1, <1>6, <1>7, <1>8
<1>10. k = m
  <2>1. k \in 1 .. n /\ m \in 1 .. n /\ k \in Nat /\ m \in Nat
    BY <1>1
  <2>2. c.current[k] <= c.current[m]
    BY <1>5, <1>8
  <2>3. c.current[k] \in Nat /\ c.current[m] \in Nat
    BY <1>1, <2>1
  <2>4. ~ (m < k)
    <3>1. m < k => c.current[m] < c.current[k]
      BY <1>1, <2>1
    <3>2. QED
      BY <2>2, <2>3, <3>1
  <2>5. QED
    BY <1>9, <2>1, <2>4
<1>11. QED
  BY <1>2, <1>4, <1>5, <1>7, <1>8, <1>10

(* Out of a section, which is closed.                                      *)
LEMMA LeavesSection ==
  ASSUME NEW code, IsCode(code), NEW c, NEW act \in Seq(Scoped), NEW x \in 1 .. Len(code),
         InFunction(code, c, act, x), code[x] = "end",
         NEW d, d = close(c, Last(act).tracker)
  PROVE  /\ act # <<>>
         /\ InFunction(code, d, Front(act), x + 1) /\ d.completedCycle
<1> DEFINE n == Len(c.current)
           m == Len(Last(act).tracker)
           l == Len(act)
<1>1. /\ act # <<>>
      /\ m \in 2 .. n /\ code[c.current[m]] = "section"
      /\ Scopes(code, x + 1) = Scopes(code, x) \ {c.current[m]}
      /\ \A i \in 2 .. n : code[c.current[i]] = "section" => c.current[i] <= c.current[m]
  BY LastIsInnermost
<1>2. /\ Tree(code, c) /\ ActiveAround(code, c, act) /\ c.current # Root
  BY DEF InFunction, ActiveAround
<1>3. /\ Ordered(c) /\ IsContext(c) /\ c.current \in Path /\ n \in Nat
      /\ \A i \in 1 .. n : c.current[i] \in Nat
      /\ \A i, j \in 1 .. n : i < j => c.current[i] < c.current[j]
  BY <1>2, CurrentIs
<1>4. c.current[n] < x /\ Scopes(code, x) = SectionsOn(code, c.current)
  BY DEF InFunction, FunctionAt
<1>5. Last(act).tracker = SubSeq(c.current, 1, m)
  <2>1. l \in Nat /\ l > 0 /\ Last(act) = act[l]
    BY <1>1, LastAndFront
  <2>2. l \in 1 .. l
    BY <2>1
  <2>3. QED
    BY <1>2, <2>1, <2>2 DEF ActiveAround
<1> HIDE DEF m, n
<1>6. Ordered(d) /\ d.current = Parent(Last(act).tracker) /\ d.completedCycle = TRUE /\ Settles(c, d)
  <2>1. m \in 1 .. Len(c.current)
    BY <1>1, <1>3 DEF n
  <2>2. QED
    BY <1>3, <1>5, <2>1, ClosesInOrder
<1>7. Tree(code, d)
  BY <1>2, <1>6, SettlesTree
<1>8. /\ d.current = SubSeq(c.current, 1, m - 1)
      /\ ActiveAround(code, d, Front(act))
      /\ Len(Front(act)) = l - 1 /\ l \in Nat /\ l > 0 /\ Last(act) = act[l]
      /\ \A i \in 1 .. l - 1 : Front(act)[i] = act[i]
  BY <1>1, <1>2, <1>6, ActiveLeaves DEF m
<1>9. /\ m - 1 \in 0 .. n /\ m - 1 > 0 /\ m \in Nat /\ m - 1 \in 1 .. n /\ m - 1 < n /\ n \in 1 .. n
      /\ m - 1 \in 1 .. m - 1 /\ x \in Nat /\ Len(code) \in Nat /\ x + 1 \in 1 .. Len(code) + 1
  BY <1>1, <1>3, SectionsNest
<1>10. /\ Len(d.current) = m - 1
       /\ \A i \in 1 .. m - 1 : d.current[i] = c.current[i]
       /\ \A k \in 0 .. m - 1 : SubSeq(d.current, 1, k) = SubSeq(c.current, 1, k)
  <2>1. m - 1 \in 0 .. Len(c.current) /\ c.current \in Path
    BY <1>3, <1>9 DEF n
  <2>2. PICK k : k = m - 1 /\ k \in 0 .. Len(c.current)
    BY <2>1
  <2>3. /\ Len(SubSeq(c.current, 1, k)) = k
        /\ \A j \in 0 .. k : SubSeq(SubSeq(c.current, 1, k), 1, j) = SubSeq(c.current, 1, j)
    BY <2>1, <2>2, PathParts
  <2>4. \A i \in 1 .. k : SubSeq(c.current, 1, k)[i] = c.current[i]
    BY <2>1, <2>2, PathAt
  <2>5. QED
    BY <1>8, <2>2, <2>3, <2>4
<1>11. d.current[Len(d.current)] < x + 1
  <2>1. c.current[m - 1] < c.current[n] /\ c.current[m - 1] \in Nat /\ c.current[n] \in Nat
    BY <1>3, <1>9
  <2>2. d.current[Len(d.current)] = c.current[m - 1]
    BY <1>9, <1>10
  <2>3. QED
    BY <1>4, <1>9, <2>1, <2>2
<1>12. Scopes(code, x + 1) = SectionsOn(code, d.current)
  <2>1. SectionsOn(code, SubSeq(c.current, 1, m - 1)) = SectionsOn(code, c.current) \ {c.current[m]}
    <3>1. PICK p : p = c.current
      OBVIOUS
    <3>2. /\ p \in Path /\ \A i, j \in 1 .. Len(p) : i < j => p[i] < p[j]
          /\ m \in 2 .. Len(p) /\ code[p[m]] = "section"
          /\ \A i \in 2 .. Len(p) : code[p[i]] = "section" => p[i] <= p[m]
      BY <1>1, <1>3, <3>1 DEF n
    <3>3. SectionsOn(code, SubSeq(p, 1, m - 1)) = SectionsOn(code, p) \ {p[m]}
      BY <3>2, SectionsCut
    <3>4. QED
      BY <3>1, <3>3
  <2>2. QED
    BY <1>1, <1>4, <1>8, <2>1
<1>13. ASSUME NEW k \in 2 .. m - 1, code[d.current[k]] = "section"
       PROVE  \E i \in 1 .. l - 1 : Len(Front(act)[i].tracker) = k
  <2>1. k \in 2 .. n /\ k \in 1 .. m - 1 /\ k # m
    BY <1>3, <1>9
  <2>2. code[c.current[k]] = "section"
    BY <1>10, <1>13, <2>1
  <2>3. PICK i \in 1 .. l : Len(act[i].tracker) = k
    BY <2>1, <2>2 DEF InFunction, FunctionAt, n
  <2>4. i # l
    BY <1>8, <2>1, <2>3 DEF m
  <2>5. i \in 1 .. l - 1
    BY <1>8, <2>4
  <2>6. QED
    BY <1>8, <2>3, <2>5
<1>14. NoneAhead(d, x + 1)
  <2>1. SUFFICES ASSUME NEW u \in DOMAIN d.state, NEW k \in 1 .. m - 1,
                        StartedSection(d, u), Len(u) > k, u[k + 1] >= x + 1,
                        SubSeq(u, 1, k) = SubSeq(d.current, 1, k)
                 PROVE  FALSE
    BY <1>10 DEF NoneAhead
  <2>2. StartedSection(c, u)
    BY <1>6, <2>1 DEF StartedSection, Started, Settles, Shrinks
  <2>3. k \in 1 .. n - 1 /\ k + 1 \in 1 .. n /\ k \in 0 .. m - 1
    BY <1>3, <1>9
  <2>4. SubSeq(u, 1, k) = SubSeq(c.current, 1, k)
    BY <1>10, <2>1, <2>3
  <2>5. ~ (u[k + 1] > c.current[k + 1])
    BY <1>2, <2>1, <2>2, <2>3, <2>4, NoneBesideAhead DEF n
  <2>6. c.current[k + 1] \in Nat /\ c.current[k + 1] <= c.current[n] /\ c.current[n] \in Nat
    BY <1>3, <1>9, <2>3
  <2>7. u[k + 1] \in Nat
    <3>1. u \in Path /\ Len(u) \in Nat
      BY <1>6 DEF Ordered, IsContext, Path
    <3>2. k + 1 \in 1 .. Len(u)
      BY <2>1, <2>3, <3>1
    <3>3. QED
      BY <3>1, <3>2, PathAt
  <2>8. QED
    BY <1>4, <1>9, <2>1, <2>5, <2>6, <2>7
<1>15. FunctionAt(code, d, Front(act), x + 1)
  BY <1>6, <1>8, <1>9, <1>10, <1>11, <1>12, <1>13, <1>14 DEF FunctionAt
<1>16. QED
  BY <1>1, <1>6, <1>7, <1>8, <1>15 DEF InFunction

(* An exception leaves the innermost section, which fails or is closed.    *)
LEMMA LeavesEarly ==
  ASSUME NEW code, NEW c, Tree(code, c), NEW act \in Seq(Scoped), act # <<>>,
         ActiveAround(code, c, act),
         NEW d, d \in {fail(c, Last(act).tracker), close(c, Last(act).tracker)}
  PROVE  /\ Tree(code, d) /\ ActiveAround(code, d, Front(act))
         /\ Front(act) \in Seq(Scoped)
<1> DEFINE m == Len(Last(act).tracker)
           l == Len(act)
<1>1. /\ l \in Nat /\ l > 0 /\ Last(act) = act[l] /\ Front(act) \in Seq(Scoped)
  BY LastAndFront
<1>2. l \in 1 .. l
  BY <1>1
<1>3. m \in 2 .. Len(c.current) /\ Last(act).tracker = SubSeq(c.current, 1, m)
  BY <1>1, <1>2 DEF ActiveAround
<1> HIDE DEF m
<1>4. Ordered(c) /\ Len(c.current) \in Nat
  BY DEF Tree, Ordered, IsContext, Path
<1>5. m \in 1 .. Len(c.current)
  BY <1>3, <1>4
<1>6. Ordered(d) /\ d.current = Parent(Last(act).tracker) /\ Settles(c, d)
  <2>1. CASE d = fail(c, Last(act).tracker)
    BY <1>3, <1>4, <2>1, FailsInOrder
  <2>2. CASE d = close(c, Last(act).tracker)
    BY <1>3, <1>4, <1>5, <2>2, ClosesInOrder
  <2>3. QED
    BY <2>1, <2>2
<1>7. Tree(code, d)
  BY <1>6, SettlesTree
<1>8. ActiveAround(code, d, Front(act))
  BY <1>6, ActiveLeaves
<1>9. QED
  BY <1>1, <1>7, <1>8

(* At the end of the function it is in no section.                         *)
LEMMA FunctionOver ==
  ASSUME NEW code, IsCode(code), NEW c, NEW act \in Seq(Scoped),
         InFunction(code, c, act, Len(code) + 1)
  PROVE  act = <<>>
<1>1. SUFFICES ASSUME act # <<>> PROVE FALSE
  OBVIOUS
<1>2. SectionsOn(code, c.current) = {}
  BY ScopesLast DEF InFunction, FunctionAt
<1>3. 1 \in 1 .. Len(act)
  <2>1. Len(act) \in Nat /\ Len(act) > 0
    BY <1>1, LastAndFront
  <2>2. QED
    BY <2>1
<1>4. PICK m \in 2 .. Len(c.current) : code[c.current[m]] = "section"
  BY <1>3 DEF InFunction, ActiveAround
<1>5. QED
  BY <1>2, <1>4 DEF SectionsOn

(* The end of a cycle closes the test case, which is run again unless it   *)
(* is successfully completed.                                              *)
LEMMA CaseCloses ==
  ASSUME NEW code, NEW c, Tree(code, c), c.current # Root, NEW d, d = close(c, TestCase)
  PROVE  /\ Tree(code, d) /\ d.current = Root
         /\ ~ isSuccessfullyCompleted(d, TestCase) => IsBusy(d, TestCase)
<1>1. /\ Ordered(c) /\ c.current \in Path /\ Len(c.current) \in Nat /\ Len(c.current) > 0
      /\ SubSeq(c.current, 1, 1) = TestCase
  BY CurrentIs
<1>2. 1 \in 1 .. Len(c.current) /\ 1 \in 0 .. Len(c.current)
  BY <1>1
<1>3. TestCase \in DOMAIN c.state
  BY <1>1, <1>2 DEF Ordered
<1>4. TestCase \notin DOMAIN c.generator
  <2>1. Placed(code, c, TestCase)
    BY <1>3 DEF Tree
  <2>2. Len(TestCase) = 1
    BY DEF TestCase
  <2>3. QED
    BY <2>1, <2>2 DEF Placed
<1>5. /\ Ordered(d) /\ d.current = Parent(TestCase) /\ Settles(c, d)
      /\ TestCase \in DOMAIN d.state
      /\ d.state[TestCase] \in {"CompletedSuccessfully", "ExecutingChildren", "NeedsAnotherRun"}
  BY <1>1, <1>2, <1>4, ClosesInOrder
<1>6. Parent(TestCase) = Root
  <2>1. Parent(TestCase) \in Path /\ Len(Parent(TestCase)) = 0
    BY DEF TestCase, Parent, Front, Path
  <2>2. QED
    BY <2>1, RootIs
<1>7. Tree(code, d)
  BY <1>5, SettlesTree
<1>8. ~ isSuccessfullyCompleted(d, TestCase) => IsBusy(d, TestCase)
  BY <1>5 DEF isSuccessfullyCompleted, IsBusy, Busy
<1>9. QED
  BY <1>5, <1>6, <1>7, <1>8

(* The start of a cycle leaves the trackers as they are.                   *)
LEMMA StartsTree ==
  ASSUME NEW code, NEW c, Tree(code, c)
  PROVE  LET b == startCycle(c)
         IN  /\ Tree(code, b) /\ IsContext(b)
             /\ b.state = c.state /\ b.generator = c.generator /\ b.filters = c.filters
             /\ b.current = Root /\ b.completedCycle = FALSE
<1> DEFINE b == startCycle(c)
<1>2. IsContext(c) /\ Root \in DOMAIN c.state
  <2>1. Ordered(c) /\ c.current \in Path
    BY DEF Tree, Ordered, IsContext
  <2>2. 0 \in 0 .. Len(c.current) /\ SubSeq(c.current, 1, 0) = Root
    BY <2>1, PathParts DEF Root, Path
  <2>3. QED
    BY <2>1, <2>2 DEF Ordered
<1>3. /\ Ordered(b) /\ IsContext(b)
      /\ b.state = c.state /\ b.generator = c.generator /\ b.filters = c.filters
      /\ b.current = Root /\ b.completedCycle = FALSE
  <2>1. Ordered(b)
    BY <1>2, StartsInOrder
  <2>2. QED
    BY <1>2, <2>1 DEF startCycle, IsContext, Ordered
<1> HIDE DEF b
<1>4. \A u : /\ isComplete(b, u) <=> isComplete(c, u)
             /\ IsBusy(b, u) <=> IsBusy(c, u)
             /\ StartedSection(b, u) <=> StartedSection(c, u)
             /\ Placed(code, b, u) <=> Placed(code, c, u)
             /\ DoneBefore(code, b, u) <=> DoneBefore(code, c, u)
  <2>1. \A u : isGeneratorTracker(b, u) <=> isGeneratorTracker(c, u)
    BY <1>3 DEF isGeneratorTracker
  <2>2. \A u : FilteredOut(b, u) <=> FilteredOut(c, u)
    BY <1>3, <2>1 DEF FilteredOut, Filters
  <2>3. \A u : isComplete(b, u) <=> isComplete(c, u)
    BY <1>3, <2>2 DEF isComplete
  <2>4. \A u : Finished(b, u) <=> Finished(c, u)
    BY <1>3, <2>3 DEF Finished
  <2>5. \A u : Placed(code, b, u) <=> Placed(code, c, u)
    BY <1>3 DEF Placed
  <2>6. \A u : DoneBefore(code, b, u) <=> DoneBefore(code, c, u)
    BY <2>4 DEF DoneBefore
  <2>7. \A u : IsBusy(b, u) <=> IsBusy(c, u)
    BY <1>3 DEF IsBusy
  <2>8. \A u : StartedSection(b, u) <=> StartedSection(c, u)
    BY <1>3, <2>7 DEF StartedSection, Started
  <2>9. QED
    BY <2>3, <2>5, <2>6, <2>7, <2>8
<1>5. Tree(code, b)
  <2>1. \A u \in DOMAIN c.state :
          /\ \A k \in 0 .. Len(u) : SubSeq(u, 1, k) \in DOMAIN c.state
          /\ Placed(code, c, u)
          /\ IsBusy(c, u) => ~ isComplete(c, u)
          /\ StartedSection(c, u) => DoneBefore(code, c, u)
    BY DEF Tree
  <2>2. \A u \in DOMAIN b.state :
          /\ \A k \in 0 .. Len(u) : SubSeq(u, 1, k) \in DOMAIN b.state
          /\ Placed(code, b, u)
          /\ IsBusy(b, u) => ~ isComplete(b, u)
          /\ StartedSection(b, u) => DoneBefore(code, b, u)
    BY <1>3, <1>4, <2>1
  <2>3. DOMAIN b.generator \subseteq DOMAIN b.state
    BY <1>3 DEF Tree
  <2>4. QED
    BY <1>3, <2>2, <2>3 DEF Tree
<1>6. QED
  BY <1>3, <1>5 DEF b

(* A cycle begins where the test case does, which it opens anew.           *)
LEMMA CycleStarts ==
  ASSUME NEW code, IsCode(code), NEW c, Tree(code, c),
         TestCase \in DOMAIN c.state => IsBusy(c, TestCase),
         NEW d, d = acquireSection(startCycle(c), Last(TestCase))
  PROVE  /\ InFunction(code, d, <<>>, 1) /\ ~ d.completedCycle
         /\ LET a == Added(startCycle(c), TestCase)
            IN  ~ isComplete(a, TestCase) /\ d = open(a, TestCase)
<1> DEFINE b == startCycle(c)
           t == TestCase
           a == Added(b, t)
<1>1. /\ t \in Path /\ Len(t) = 1 /\ t[1] = 0 /\ Last(t) = 0 /\ t = Append(Root, 0) /\ t # Root
      /\ Root \in Path /\ 0 \in Nat
  BY DEF TestCase, Path, Root, Last
<1>3. /\ IsContext(b)
      /\ b.state = c.state /\ b.generator = c.generator /\ b.filters = c.filters
      /\ b.current = Root /\ b.completedCycle = FALSE
  BY StartsTree
<1>5. Tree(code, b)
  BY StartsTree
<1> HIDE DEF b
<1> HIDE DEF t
<1>6. Gains(b, a, t) /\ a.generator = b.generator
  BY <1>1, <1>3, AddedIs
<1> HIDE DEF a
<1>7. t \notin DOMAIN a.generator
  <2>1. CASE t \in DOMAIN b.state
    <3>1. Placed(code, b, t)
      BY <1>5, <2>1 DEF Tree
    <3>2. QED
      BY <1>1, <1>6, <3>1 DEF Placed
  <2>2. CASE t \notin DOMAIN b.state
    BY <1>5, <1>6, <2>2 DEF Tree
  <2>3. QED
    BY <2>1, <2>2
<1>8. Placed(code, a, t)
  <2>1. t = TestCase /\ ~ (Len(t) >= 2) /\ \A i \in 1 .. Len(t) - 1 : FALSE
    BY <1>1 DEF t
  <2>2. QED
    BY <1>7, <2>1, Zenon DEF Placed
<1>9. Tree(code, a)
  BY <1>1, <1>3, <1>5, <1>6, <1>8, GainsTree
<1>10. /\ a.current = Root /\ a.completedCycle = FALSE /\ IsContext(a) /\ t \in DOMAIN a.state
       /\ a.state[t] \notin {"CompletedSuccessfully", "Failed"}
  <2>1. a.current = Root /\ a.completedCycle = FALSE /\ IsContext(a) /\ t \in DOMAIN a.state
    BY <1>3, <1>6 DEF Gains
  <2>2. CASE t \in DOMAIN c.state
    <3>1. a.state[t] = c.state[t]
      BY <1>3, <1>6, <2>2 DEF Gains
    <3>2. c.state[t] \in Busy
      BY <2>2 DEF IsBusy, t
    <3>3. QED
      BY <2>1, <3>1, <3>2 DEF Busy
  <2>3. CASE t \notin DOMAIN c.state
    <3>1. a.state[t] = "NotStarted"
      BY <1>3, <1>6, <2>3 DEF Gains
    <3>2. QED
      BY <2>1, <3>1
  <2>4. QED
    BY <2>2, <2>3
<1>11. ~ isComplete(a, t)
  <2>1. ~ FilteredOut(a, t)
    BY <1>1 DEF FilteredOut
  <2>2. QED
    BY <1>10, <2>1, Zenon DEF isComplete
<1>12. d = open(a, t)
  <2>1. d = acquireSection(b, 0)
    BY <1>1 DEF b, t
  <2>2. Append(b.current, 0) = t
    BY <1>1, <1>3
  <2>3. d = IF ~ a.completedCycle /\ ~ isComplete(a, t) THEN open(a, t) ELSE a
    BY <2>1, <2>2, AcquireIs DEF a
  <2>4. QED
    BY <1>10, <1>11, <2>3
<1>13. /\ d.current = t /\ d.completedCycle = FALSE
  BY <1>10, <1>12, OpenIs
<1>14. Tree(code, d)
  <2>1. DoneBefore(code, a, t)
    BY <1>1 DEF DoneBefore
  <2>2. Append(a.current, 0) = t
    BY <1>1, <1>10
  <2>3. QED
    BY <1>1, <1>9, <1>10, <1>11, <1>12, <2>1, <2>2, OpensTree
<1>15. ActiveAround(code, d, <<>>)
  BY <1>1, <1>13 DEF ActiveAround
<1>16. FunctionAt(code, d, <<>>, 1)
  <2>1. Scopes(code, 1) = SectionsOn(code, t)
    BY ScopesFirst, SectionsFirst DEF t
  <2>2. 1 \in 1 .. Len(code) + 1 /\ Len(code) \in Nat
    BY SectionsNest
  <2>3. DoneBefore(code, d, Append(t, 1))
    <3>1. DoneBefore(code, d, t)
      BY <1>1 DEF DoneBefore
    <3>2. \A z \in 1 .. Len(code) : ~ (0 < z /\ z < 1)
      BY <2>2
    <3>3. t \in Path /\ Len(t) > 0 /\ 1 \in Nat /\ \A z \in 1 .. Len(code) : ~ (t[Len(t)] < z /\ z < 1)
      BY <1>1, <3>2
    <3>4. QED
      BY <3>1, <3>3, DoneGrows
  <2>4. d.current[Len(d.current)] < 1 /\ Len(d.current) = 1
    BY <1>1, <1>13
  <2>5. QED
    BY <1>13, <2>1, <2>2, <2>3, <2>4 DEF FunctionAt
<1>17. QED
  BY <1>11, <1>12, <1>13, <1>14, <1>15, <1>16 DEF InFunction, a, b, t

(* A test case begins with no tracker but the root.                        *)
LEMMA RunStarts ==
  ASSUME NEW code, NEW filters
  PROVE  LET c == startRun(filters)
         IN  Tree(code, c) /\ c.current = Root /\ TestCase \notin DOMAIN c.state
<1> DEFINE c == startRun(filters)
<1>1. Ordered(c)
  BY StartsInOrder
<1>2. /\ DOMAIN c.state = {Root} /\ c.state[Root] = "NotStarted" /\ DOMAIN c.generator = {}
      /\ c.current = Root
  BY DEF startRun
<1> HIDE DEF c
<1>3. TestCase # Root
  BY DEF TestCase, Root
<1>4. Root \in Path /\ Len(Root) = 0
  BY DEF Root, Path
<1>5. \A k \in 0 .. Len(Root) : SubSeq(Root, 1, k) \in DOMAIN c.state
  <2>1. SubSeq(Root, 1, 0) = Root
    BY <1>4, PathParts DEF Root
  <2>2. \A k \in 0 .. Len(Root) : k = 0
    BY <1>4
  <2>3. QED
    BY <1>2, <2>1, <2>2
<1>6. Placed(code, c, Root)
  BY <1>2, <1>4 DEF Placed
<1>7. ~ IsBusy(c, Root) /\ ~ StartedSection(c, Root)
  BY <1>2 DEF IsBusy, StartedSection, Started, Busy
<1>8. Tree(code, c)
  BY <1>1, <1>2, <1>5, <1>6, <1>7 DEF Tree
<1>9. QED
  BY <1>2, <1>3, <1>8 DEF c
=============================================================================
