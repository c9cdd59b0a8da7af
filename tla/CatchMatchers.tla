---------------------------- MODULE CatchMatchers ----------------------------
(***************************************************************************)
(* Catch's matchers: the tests a CHECK_THAT applies to a string, a vector  *)
(* or a number, the operators && || ! that compose them, and what they say *)
(* of themselves when a check fails.                                       *)
(*                                                                         *)
(* A matcher is [does, arg, parts, generic, rvalue]: what kind it is, its  *)
(* comparator, the matchers it holds pointers to, whether it is a          *)
(* MatcherGenericBase, and whether it is a temporary that an operator may  *)
(* take over.  Strings and vectors are sequences.                          *)
(***************************************************************************)
EXTENDS Integers, Sequences, SequencesExt

Matcher(does, arg, parts, generic) ==
  [does |-> does, arg |-> arg, parts |-> parts, generic |-> generic, rvalue |-> TRUE]

-----------------------------------------------------------------------------
(* The operators.  The typed ones take over a composition on either side,  *)
(* never two: that is ambiguous and does not compile.  The generic ones    *)
(* join two, or add a matcher of either family.                            *)

Composes(m, does) == m.does = does /\ m.rvalue
Ambiguous(l, r, does) == ~ l.generic /\ ~ r.generic /\ Composes(l, does) /\ Composes(r, does)

(* All but the first of the parts taken over left out                      *)
PartsFirst(m, does, generic) ==
  IF Composes(m, does) /\ m.generic = generic THEN <<m.parts[1]>> ELSE <<m>>

(* Parts taken over from a side of the composition's own family *)
PartsOf(m, does, generic) ==
  IF Composes(m, does) /\ m.generic = generic THEN m.parts ELSE <<m>>

Composed(l, r, does) ==
  LET generic == l.generic \/ r.generic
  IN  Matcher(does, <<>>, PartsOf(l, does, generic) \o PartsOf(r, does, generic), generic)

And(l, r) == Composed(l, r, "AllOf")
Or(l, r) == Composed(l, r, "AnyOf")

(* Negating a generic negation gives back what it negates, an lvalue.      *)
Not(m) ==
  IF m.generic /\ m.does = "NotOf"
  THEN [m.parts[1] EXCEPT !.rvalue = FALSE]
  ELSE Matcher("NotOf", <<>>, <<m>>, m.generic)

-----------------------------------------------------------------------------
(* The tests *)

Lower(c) == IF c = "A" THEN "a" ELSE c
adjustString(str, cased) == IF cased THEN str ELSE [i \in DOMAIN str |-> Lower(str[i])]

startsWith(s, prefix) ==
  Len(s) >= Len(prefix) /\ \A i \in DOMAIN prefix : s[i] = prefix[i]
endsWith(s, suffix) ==
  Len(s) >= Len(suffix) /\ \A i \in 0 .. Len(suffix) - 1 : s[Len(s) - i] = suffix[Len(suffix) - i]
containsString(s, infix) ==
  \E i \in 1 .. Len(s) - Len(infix) + 1 : startsWith(SubSeq(s, i, Len(s)), infix)

(* std::is_permutation: each value as often in one as in the other *)
Times(s, e) == Len(SelectSeq(s, LAMBDA d : d = e))
IsPermutation(s, t) == \A i \in DOMAIN s : Times(s, s[i]) = Times(t, s[i])

StringMatches(m, source) ==
  LET s == adjustString(source, m.arg.cased)
      comparator == adjustString(m.arg.str, m.arg.cased)
  IN  CASE m.does = "StringEquals" -> s = comparator
        [] m.does = "StringContains" -> containsString(s, comparator)
        [] m.does = "StartsWith" -> startsWith(s, comparator)
        [] m.does = "EndsWith" -> endsWith(s, comparator)

VectorMatches(m, v) ==
  CASE m.does = "VectorContains" -> \E i \in DOMAIN v : v[i] = m.arg
    [] m.does = "Contains" ->
         /\ Len(m.arg) <= Len(v)
         /\ \A i \in DOMAIN m.arg : \E j \in DOMAIN v : v[j] = m.arg[i]
    [] m.does = "Equals" -> Len(m.arg) = Len(v) /\ \A i \in DOMAIN v : m.arg[i] = v[i]
    [] m.does = "UnorderedEquals" -> Len(m.arg) = Len(v) /\ IsPermutation(m.arg, v)

RECURSIVE Matches(_, _)

(* The matchers of any range: of its size, or of its elements              *)
SizeIs(m, range) ==
  CASE m.does = "IsEmpty" -> Len(range) = 0
    [] m.does = "HasSize" -> Len(range) = m.arg
    [] m.does = "SizeMatches" -> Matches(m.parts[1], Len(range))
ElementIs(m, range) ==
  \E i \in DOMAIN range :
    IF m.does = "ContainsElement" THEN range[i] = m.arg ELSE Matches(m.parts[1], range[i])

Matches(m, x) ==
  CASE m.does = "AllOf" -> \A p \in DOMAIN m.parts : Matches(m.parts[p], x)
    [] m.does = "AnyOf" -> \E p \in DOMAIN m.parts : Matches(m.parts[p], x)
    [] m.does = "NotOf" -> ~ Matches(m.parts[1], x)
    [] m.does \in {"StringEquals", "StringContains", "StartsWith", "EndsWith"} -> StringMatches(m, x)
    [] m.does \in {"VectorContains", "Contains", "Equals", "UnorderedEquals"} -> VectorMatches(m, x)
    [] m.does \in {"IsEmpty", "HasSize", "SizeMatches"} -> SizeIs(m, x)
    [] m.does \in {"ContainsElement", "ContainsMatching"} -> ElementIs(m, x)
    [] m.does = "Message" -> x = m.arg
    [] m.does = "Predicate" -> x \in m.arg

-----------------------------------------------------------------------------
(* What a matcher says of itself, as tokens: a word of the language, or a  *)
(* test with its comparator.                                               *)

Word(word) == [word |-> word]
Test(m) == [word |-> "test", does |-> m.does, arg |-> m.arg]

Joined(descriptions, word) ==
  <<Word("(")>>
    \o FlattenSeq([i \in DOMAIN descriptions |->
                     IF i = 1 THEN descriptions[i] ELSE <<Word(word)>> \o descriptions[i]])
    \o <<Word(")")>>

RECURSIVE describe(_)
describe(m) ==
  LET all == [p \in DOMAIN m.parts |-> describe(m.parts[p])]
  IN  CASE m.does = "AllOf" -> Joined(all, "and")
        [] m.does = "AnyOf" -> Joined(all, "or")
        [] m.does = "NotOf" -> <<Word("not")>> \o all[1]
        [] m.does = "SizeMatches" -> <<Word("size matches")>> \o all[1]
        [] m.does = "ContainsMatching" -> <<Word("contains element matching")>> \o all[1]
        [] OTHER -> <<Test(m)>>

(* makeMatchExpr: what the check learns, and what it tells                 *)
MatchExpr(x, m) == [result |-> Matches(m, x), told |-> describe(m)]

-----------------------------------------------------------------------------
(* Numbers.  A double is an integer here, or Inf, -Inf or NaN, which are   *)
(* given integers out of the way; a quantity that is a fraction of one is  *)
(* told in quarters.                                                       *)

Inf == 1000
NaN == 2000

Magnitude(x) == IF x < 0 THEN - x ELSE x
IsInf(x) == x # NaN /\ Magnitude(x) = Inf

(* lhs + rhs, and k quarters of x, with IEEE's infinities *)
Plus(x, y) ==
  IF \/ NaN \in {x, y}
     \/ IsInf(x) /\ y = - x THEN NaN
  ELSE IF IsInf(x) THEN x
  ELSE IF IsInf(y) THEN y ELSE x + y
Quarters(k, x) ==
  IF \/ x = NaN
     \/ IsInf(x) /\ k = 0 THEN NaN
  ELSE IF IsInf(x) THEN x ELSE k * x
NotLess(x, y) == NaN \notin {x, y} /\ x >= y

marginComparison(lhs, rhs, margin) ==
  NotLess(Plus(lhs, margin), rhs) /\ NotLess(Plus(rhs, margin), lhs)

(* Arguments of a comparison in quarters *)
InQuarters(x) == Quarters(4, x)

WithinAbs(x, target, margin) == marginComparison(x, target, margin)

Larger(x, y) == IF x >= y THEN x ELSE y
WithinRel(x, target, k) ==
  LET margin == Quarters(k, Larger(Magnitude(x), Magnitude(target)))
  IN  marginComparison(InQuarters(x), InQuarters(target), IF IsInf(margin) THEN 0 ELSE margin)

(* Approx(value) with a margin, an epsilon of k quarters and a scale       *)
ApproxEquals(value, other, margin, k, scale) ==
  \/ marginComparison(value, other, margin)
  \/ marginComparison(InQuarters(value), InQuarters(other),
                      Quarters(k, scale + IF IsInf(value) THEN 0 ELSE Magnitude(value)))

(* The vector matcher Approx: the margin is that of the vector's element.  *)
VectorApprox(v, comparator, margin, k, scale) ==
  /\ Len(comparator) = Len(v)
  /\ \A i \in DOMAIN v : ApproxEquals(v[i], comparator[i], margin, k, scale)

-----------------------------------------------------------------------------
(* Floating-point numbers by their representation: a sign and a magnitude, *)
(* the largest of which are infinity and the NaNs.                         *)

CONSTANTS MaxFinite, Magnitudes
ASSUME FloatAssumption == MaxFinite \in Nat /\ Magnitudes > MaxFinite + 2

Floats == [negative : BOOLEAN, mag : 0 .. Magnitudes - 1]
isnan(f) == f.mag > MaxFinite + 1

(* convert: the representation read as an integer in two's complement      *)
convert(f) == IF f.negative THEN f.mag - Magnitudes ELSE f.mag

(* What a float is worth, in steps from zero *)
Worth(f) == IF f.negative THEN - f.mag ELSE f.mag

almostEqualUlps(lhs, rhs, maxUlpDiff) ==
  /\ ~ isnan(lhs) /\ ~ isnan(rhs)
  /\ IF (convert(lhs) < 0) # (convert(rhs) < 0)
     THEN Worth(lhs) = Worth(rhs)
     ELSE Magnitude(convert(lhs) - convert(rhs)) <= maxUlpDiff

(* step(start, direction, steps), as the worth it comes to; nextafter      *)
(* stays at an infinity.                                                   *)
Stepped(f, direction, steps) ==
  LET worth == Worth(f) + (direction * steps)
  IN  IF Magnitude(worth) > MaxFinite + 1 THEN direction * (MaxFinite + 1) ELSE worth

(* The range WithinULP's description tells *)
UlpRange(target, ulps) == Stepped(target, -1, ulps) .. Stepped(target, 1, ulps)

=============================================================================
