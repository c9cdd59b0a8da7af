--------------------------- MODULE AllocContract ---------------------------
(***************************************************************************)
(* What alloc_limit_set_peak(3) promises, without the way alloc_rt.c keeps *)
(* its books: a limit is set, objects are charged against it, and a call   *)
(* is refused exactly when it would exceed what is left.  Under a total    *)
(* limit every grant is charged for good; under a peak limit an object is  *)
(* charged its present size until it is deallocated.                       *)
(***************************************************************************)
EXTENDS Integers, Volume

CONSTANTS
  Pointer,  \* what names an object
  SizeMax   \* the largest size and limit

VARIABLES
  mode,     \* "NO_LIMIT", "LIMIT_TOTAL" or "LIMIT_PEAK"
  cap,      \* the limit
  charge,   \* the bytes each object is charged for
  spent,    \* the bytes charged for good
  answer    \* what the last call said: its kind, and the bytes refused

vars == <<mode, cap, charge, spent, answer>>

Uncharged == [p \in Pointer |-> 0]
Quiet     == {"none", "failed"}

Left == cap - (IF mode = "LIMIT_TOTAL" THEN spent ELSE Volume(charge))

Init ==
  /\ mode \in {"NO_LIMIT", "LIMIT_TOTAL", "LIMIT_PEAK"}
  /\ cap \in 0 .. SizeMax
  /\ charge = Uncharged
  /\ spent = 0
  /\ answer = [kind |-> "none", cost |-> 0]

Answers(kinds) == \E k \in kinds : answer' = [kind |-> k, cost |-> 0]

(* A new limit: "earlier allocations are forgotten".                       *)
SetLimit ==
  /\ mode' \in {"NO_LIMIT", "LIMIT_TOTAL", "LIMIT_PEAK"}
  /\ cap' \in 0 .. SizeMax
  /\ charge' = Uncharged
  /\ spent' = 0
  /\ Answers({"none"})

(* An object of n bytes is granted, in place of the object p if there is   *)
(* one: a peak limit must have room for the growth, a total limit for n.   *)
Grant(p, q, n) ==
  /\ q = p \/ charge[q] = 0
  /\ mode = "LIMIT_TOTAL" => n <= Left
  /\ mode = "LIMIT_PEAK" => n - charge[p] <= Left
  /\ charge' = IF mode = "NO_LIMIT" THEN charge
               ELSE [charge EXCEPT ![p] = 0, ![q] = n]
  /\ spent' = IF mode = "LIMIT_TOTAL" THEN spent + n ELSE spent
  /\ Answers({"granted"})
  /\ UNCHANGED <<mode, cap>>

(* A refusal is for want of budget.  reallocf releases the object with it. *)
Refuse(gone) ==
  /\ mode # "NO_LIMIT"
  /\ answer' \in [kind : {"refused"}, cost : 0 .. SizeMax]
  /\ answer'.cost > Left
  /\ charge' = [p \in Pointer |-> IF p \in gone THEN 0 ELSE charge[p]]
  /\ UNCHANGED <<mode, cap, spent>>

(* An object is deallocated, or nothing happens to the books.              *)
Release(gone) ==
  /\ charge' = [p \in Pointer |-> IF p \in gone THEN 0 ELSE charge[p]]
  /\ Answers(Quiet)
  /\ UNCHANGED <<mode, cap, spent>>

AtMostOne == {{}} \cup {{p} : p \in Pointer}

Next ==
  \/ SetLimit
  \/ \E p, q \in Pointer, n \in 0 .. SizeMax : Grant(p, q, n)
  \/ \E gone \in AtMostOne : Refuse(gone) \/ Release(gone)

Spec == Init /\ [][Next]_vars
=============================================================================
