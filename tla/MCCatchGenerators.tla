------------------------- MODULE MCCatchGenerators -------------------------
(***************************************************************************)
(* The expressions that TLC runs CatchGenerators on: adaptors, one, two or *)
(* three deep, over lists, ranges and random numbers, alone in a GENERATE  *)
(* or before another value.                                                *)
(***************************************************************************)
EXTENDS CatchGenerators

Sources ==
  {[kind |-> "values", values |-> v] : v \in {<<1>>, <<1, 2>>, <<2, 3, 1>>}}
  \cup {[kind |-> "random", values |-> <<3, 1>>]}
  \cup {[kind |-> "range", start |-> r[1], end |-> r[2], step |-> r[3]] :
           r \in {<<1, 4, 1>>, <<3, 0, -2>>, <<2, 3, 5>>}}

RECURSIVE Vectors(_), Endless(_)

Vectors(e) ==
  CASE e.kind = "chunk" -> TRUE
    [] e.kind \in {"take", "repeat"} -> Vectors(e.of)
    [] OTHER -> FALSE

Endless(e) ==
  CASE e.kind = "random" -> TRUE
    [] e.kind \in {"filter", "repeat", "map"} -> Endless(e.of)
    [] e.kind = "chunk" -> e.size = 0 \/ Endless(e.of)
    [] OTHER -> FALSE

(* The adaptors that may be put around e: an endless one is not repeated.  *)
Around(e) ==
  {[kind |-> "take", target |-> n, of |-> e] : n \in 1 .. 3}
  \cup (IF Endless(e) THEN {} ELSE {[kind |-> "repeat", target |-> n, of |-> e] : n \in 1 .. 2})
  \cup (IF Vectors(e) THEN {} ELSE
          {[kind |-> "filter", keep |-> k, of |-> e] : k \in {{1}, {2, 3}, {4}}}
          \cup {[kind |-> "map", function |-> (Nothing :> Nothing) @@ [v \in 1 .. 3 |-> 4 - v], of |-> e]}
          \cup {[kind |-> "chunk", size |-> n, of |-> e] : n \in 0 .. 2})

(* An endless generator has its first value, or is looked through for ever.*)
RECURSIVE Comes(_)

Comes(e) ==
  CASE e.kind \in {"values", "range", "random", "all"} -> TRUE
    [] e.kind = "filter" /\ Endless(e.of) -> Comes(e.of) /\ Denotes(e) # <<>>
    [] OTHER -> Comes(e.of)

Nested(s) == UNION {Around(e) : e \in s}

Adapted == LET one == Nested(Sources) two == Nested(one) IN Sources \cup one \cup two \cup Nested(two)

MCExpressions ==
  {[kind |-> "all", parts |-> <<e>> \o after] :
     e \in {e \in Adapted : ~ Endless(e) /\ Comes(e)},
     after \in {<<>>, <<[kind |-> "values", values |-> <<2>>]>>}}
=============================================================================
