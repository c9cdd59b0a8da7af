--------------------------- MODULE CatchGenerators ---------------------------
(***************************************************************************)
(* The generators of Catch (lib/catch, namespace Generators): objects that *)
(* are asked for a value, get(), and told to move on, next().  GENERATE    *)
(* makes one from an expression, reads it in every run of the test         *)
(* function that comes to it, more than once for a value when sections     *)
(* follow, and moves it when a value is done with.                         *)
(*                                                                         *)
(* An expression is a record with the arguments of one of the functions    *)
(* values, value, range, random, take, filter, repeat, map, chunk, or of   *)
(* GENERATE itself ("all", over several).  The object is the expression's  *)
(* record with the members that change added to it.                        *)
(***************************************************************************)
EXTENDS Integers, FiniteSets, Sequences, SequencesExt

CONSTANTS
  Expressions,  \* the expressions that GENERATE may be given
  Width,        \* the bits of a range's integers
  Nothing,      \* what is read where there is no value
  Thrown        \* what is made by a constructor that throws

ASSUME WidthAssumption == Width \in Nat \ {0}

VARIABLES
  expression, \* the argument of GENERATE
  mode,       \* what GENERATE may do next
  gen,        \* the generator
  value,      \* the value read last
  pos,        \* which value it is
  reread      \* history: a value was read twice

vars == <<expression, mode, gen, value, pos, reread>>

RECURSIVE Get(_), Next(_), Make(_), Seek(_)

Got(v, g)      == [value |-> v, gen |-> g]
Moved(more, g) == [more |-> more, gen |-> g]

(* A generator with what became of the one it has inside.                  *)
With(g, r) == [g EXCEPT !.of = r.gen]

At(s, i) == IF i \in DOMAIN s THEN s[i] ELSE Nothing

-----------------------------------------------------------------------------
(* SingleValueGenerator and FixedValuesGenerator; random numbers come from *)
(* the C++ library, here from a list of them that repeats.                 *)
ValuesNext(g) == Moved(g.idx + 1 < Len(g.values), [g EXCEPT !.idx = @ + 1])

RandomNext(g) == Moved(TRUE, [g EXCEPT !.idx = (@ + 1) % Len(g.values)])

(* RangeGenerator; a narrow integer wraps.                                 *)
Wrapped(n) == ((n + 2 ^ (Width - 1)) % 2 ^ Width) - 2 ^ (Width - 1)

RangeNext(g) ==
  LET n == Wrapped(g.current + g.step)
  IN  Moved(IF g.step > 0 THEN n < g.end ELSE n > g.end, [g EXCEPT !.current = n])

(* TakeGenerator.                                                          *)
TakeNext(g) ==
  IF g.returned + 1 >= g.target THEN Moved(FALSE, [g EXCEPT !.returned = @ + 1])
  ELSE LET r == Next(g.of)
       IN  Moved(r.more, [With(g, r) EXCEPT !.returned = IF r.more THEN @ + 1 ELSE g.target])

(* FilterGenerator: on to the first value that passes.                     *)
Seek(g) ==
  LET r == Get(g.of)
      n == Next(r.gen)
  IN  CASE r.value \in g.keep -> Moved(TRUE, With(g, r))
        [] r.value \notin g.keep /\ n.more -> Seek(With(g, n))
        [] OTHER -> Moved(FALSE, With(g, n))

(* Faulty variant of the next definition: it stops at the next value.      *)
FilterNextOnce(g) ==
  LET r == Next(g.of) IN Moved(r.more, With(g, r))

FilterNext(g) ==
  LET r == Next(g.of) IN IF r.more THEN Seek(With(g, r)) ELSE Moved(FALSE, With(g, r))

FilterMade(g) ==
  LET r == Get(g.of)
      n == FilterNext(With(g, r))
  IN  IF r.value \in g.keep THEN With(g, r) ELSE IF n.more THEN n.gen ELSE Thrown

(* RepeatGenerator: what is read in the first pass is kept for the others. *)
RepeatGet(g) ==
  IF g.repeat = 0
  THEN LET r == Get(g.of) IN Got(r.value, [With(g, r) EXCEPT !.returned = Append(@, r.value)])
  ELSE Got(At(g.returned, g.index + 1), g)

RepeatNext(g) ==
  LET r    == Next(g.of)
      last == g.index + 1 = Len(g.returned)
      h    == CASE g.repeat = 0 /\ r.more   -> With(g, r)
                [] g.repeat = 0 /\ ~ r.more -> [With(g, r) EXCEPT !.repeat = 1]
                [] g.repeat > 0 /\ last     -> [g EXCEPT !.index = 0, !.repeat = @ + 1]
                [] OTHER                    -> [g EXCEPT !.index = @ + 1]
  IN  Moved(h.repeat < g.target, h)

(* MapGenerator, whose values are kept.                                    *)
Mapped(g) == LET r == Get(g.of) IN [With(g, r) EXCEPT !.cache = g.function[r.value]]

MapNext(g) ==
  LET r == Next(g.of)
  IN  Moved(r.more, IF r.more THEN Mapped(With(g, r)) ELSE With(g, r))

(* ChunkGenerator: k more values, if there are so many.                    *)
Filled(g, k) ==
  LET more(f, i) ==
        LET n == Next(f.gen.of)
            r == Get(n.gen)
        IN  CASE ~ f.more           -> f
              [] f.more /\ ~ n.more -> Moved(FALSE, With(f.gen, n))
              [] OTHER -> Moved(TRUE, [With(f.gen, r) EXCEPT !.chunk = Append(@, r.value)])
  IN  FoldLeft(more, Moved(TRUE, g), [i \in 1 .. k |-> i])

ChunkNext(g) == Filled([g EXCEPT !.chunk = <<>>], g.size)

ChunkMade(g) ==
  LET r == Get(g.of)
      f == Filled([With(g, r) EXCEPT !.chunk = <<r.value>>], g.size - 1)
  IN  CASE g.size = 0 -> g
        [] g.size > 0 /\ f.more -> f.gen
        [] OTHER -> Thrown

(* Generators: one after the other.                                        *)
AllNext(g) ==
  IF g.current > Len(g.parts) THEN Moved(FALSE, g)
  ELSE LET r == Next(g.parts[g.current])
           c == IF r.more THEN g.current ELSE g.current + 1
       IN  Moved(c <= Len(g.parts), [g EXCEPT !.parts[g.current] = r.gen, !.current = c])

AllGet(g) ==
  IF g.current > Len(g.parts) THEN Got(Nothing, g)
  ELSE LET r == Get(g.parts[g.current]) IN Got(r.value, [g EXCEPT !.parts[g.current] = r.gen])

-----------------------------------------------------------------------------
Get(g) ==
  CASE g.kind \in {"values", "random"} -> Got(At(g.values, g.idx + 1), g)
    [] g.kind = "range"  -> Got(g.current, g)
    [] g.kind \in {"take", "filter"} -> LET r == Get(g.of) IN Got(r.value, With(g, r))
    [] g.kind = "repeat" -> RepeatGet(g)
    [] g.kind = "map"    -> Got(g.cache, g)
    [] g.kind = "chunk"  -> Got(g.chunk, g)
    [] g.kind = "all"    -> AllGet(g)

Next(g) ==
  CASE g.kind = "values" -> ValuesNext(g)
    [] g.kind = "random" -> RandomNext(g)
    [] g.kind = "range"  -> RangeNext(g)
    [] g.kind = "take"   -> TakeNext(g)
    [] g.kind = "filter" -> FilterNext(g)
    [] g.kind = "repeat" -> RepeatNext(g)
    [] g.kind = "map"    -> MapNext(g)
    [] g.kind = "chunk"  -> ChunkNext(g)
    [] g.kind = "all"    -> AllNext(g)

(* The constructors, from the inside out: an exception leaves them all.    *)
Make(e) ==
  LET parts == [i \in DOMAIN e.parts |-> Make(e.parts[i])]
      inner == Make(e.of)
      g     == [e EXCEPT !.of = inner]
  IN  CASE e.kind \in {"values", "random"} -> [idx |-> 0] @@ e
        [] e.kind = "range" -> [current |-> e.start] @@ e
        [] e.kind = "all" ->
             IF Thrown \in ToSet(parts) THEN Thrown
             ELSE [current |-> 1] @@ [e EXCEPT !.parts = parts]
        [] e.kind \in {"take", "filter", "repeat", "map", "chunk"} /\ inner = Thrown -> Thrown
        [] e.kind = "take"   -> [returned |-> 0] @@ g
        [] e.kind = "filter" -> FilterMade(g)
        [] e.kind = "repeat" -> [returned |-> <<>>, repeat |-> 0, index |-> 0] @@ g
        [] e.kind = "map"    -> Mapped([cache |-> Nothing] @@ g)
        [] e.kind = "chunk"  -> ChunkMade([chunk |-> <<>>] @@ g)

-----------------------------------------------------------------------------
(* The values an expression stands for, in order.  Of an endless one, as   *)
(* many as Rounds times its period.                                        *)
RECURSIVE Denotes(_)

Rounds == 6

Times(n, s) == FlattenSeq([i \in 1 .. n |-> s])

First(n, s) == SubSeq(s, 1, IF n < Len(s) THEN n ELSE Len(s))

Steps(e) ==
  IF e.step > 0 THEN {n \in 0 .. 2 ^ Width : e.start + n * e.step < e.end}
                ELSE {n \in 0 .. 2 ^ Width : e.start + n * e.step > e.end}

Denotes(e) ==
  CASE e.kind = "values" -> e.values
    [] e.kind = "random" -> Times(Rounds, e.values)
    [] e.kind = "range"  -> [i \in 1 .. Cardinality(Steps(e)) |-> e.start + (i - 1) * e.step]
    [] e.kind = "take"   -> First(e.target, Denotes(e.of))
    [] e.kind = "filter" -> SelectSeq(Denotes(e.of), LAMBDA v : v \in e.keep)
    [] e.kind = "repeat" -> Times(e.target, Denotes(e.of))
    [] e.kind = "map"    -> LET s == Denotes(e.of) IN [i \in DOMAIN s |-> e.function[s[i]]]
    [] e.kind = "chunk"  ->
         LET s == Denotes(e.of)
         IN  IF e.size = 0 THEN Times(Rounds, <<<<>>>>)
             ELSE [i \in 1 .. Len(s) \div e.size |-> SubSeq(s, (i - 1) * e.size + 1, i * e.size)]
    [] e.kind = "all"    -> FlattenSeq([i \in DOMAIN e.parts |-> Denotes(e.parts[i])])

(* An expression that has a constructor throw: nothing passes a filter, or *)
(* there is no whole chunk.                                                *)
RECURSIVE Fails(_)

Fails(e) ==
  CASE e.kind \in {"values", "random", "range"} -> FALSE
    [] e.kind = "all" -> \E i \in DOMAIN e.parts : Fails(e.parts[i])
    [] OTHER -> Fails(e.of) \/ Denotes(e) = <<>>

(* A repeat that is read when the generator around it is.                  *)
RECURSIVE ReadsRepeat(_), FiltersRepeat(_)

ReadsRepeat(e) ==
  CASE e.kind = "repeat" -> e.target > 1 \/ ReadsRepeat(e.of)
    [] e.kind \in {"take", "filter"} -> ReadsRepeat(e.of)
    [] e.kind = "all" -> \E i \in DOMAIN e.parts : ReadsRepeat(e.parts[i])
    [] OTHER -> FALSE

FiltersRepeat(e) ==
  CASE e.kind = "filter" -> ReadsRepeat(e.of) \/ FiltersRepeat(e.of)
    [] e.kind \in {"take", "repeat", "map", "chunk"} -> FiltersRepeat(e.of)
    [] e.kind = "all" -> \E i \in DOMAIN e.parts : FiltersRepeat(e.parts[i])
    [] OTHER -> FALSE

-----------------------------------------------------------------------------
Init ==
  /\ expression \in Expressions
  /\ mode = "new"
  /\ gen = Nothing /\ value = Nothing
  /\ pos = 0
  /\ reread = FALSE

(* The first time: setGenerator.                                           *)
SetGenerator ==
  /\ mode = "new"
  /\ gen' = Make(expression)
  /\ mode' = IF gen' = Thrown THEN "thrown" ELSE "moved"
  /\ pos' = 1
  /\ UNCHANGED <<expression, value, reread>>

(* generate() reads the value, and reads it again in a later run.          *)
ReadValue ==
  /\ mode \in {"moved", "read"}
  /\ LET r == Get(gen) IN gen' = r.gen /\ value' = r.value
  /\ reread' = (reread \/ mode = "read")
  /\ mode = "read" => ~ reread
  /\ mode' = "read"
  /\ UNCHANGED <<expression, pos>>

(* The tracker is closed for the value: it is done with.  (Positions past  *)
(* the last are one.)                                                      *)
MoveOn ==
  /\ mode = "read"
  /\ LET r == Next(gen) IN gen' = r.gen /\ mode' = IF r.more THEN "moved" ELSE "over"
  /\ pos' = IF mode' = "over" \/ pos > Len(Denotes(expression)) THEN pos ELSE pos + 1
  /\ UNCHANGED <<expression, value, reread>>

GenNext == SetGenerator \/ ReadValue \/ MoveOn

Spec == Init /\ [][GenNext]_vars

-----------------------------------------------------------------------------
(* Where repeats are read once for each of their values.                   *)
RepeatsReadOnce == ~ FiltersRepeat(expression) /\ ~ (reread /\ ReadsRepeat(expression))

(***************************************************************************)
(* However generators are composed, each value that is read is the one     *)
(* the expression stands for at its place, and stays that when it is read  *)
(* again; provided that no repeat is read twice for one value, after which *)
(* its later passes go wrong.                                              *)
(***************************************************************************)
ValuesAsDenoted ==
  mode = "read" /\ RepeatsReadOnce =>
    pos <= Len(Denotes(expression)) /\ value = Denotes(expression)[pos]

(***************************************************************************)
(* None is left out, and none too many is promised: a generator is over    *)
(* after its last value; and it throws exactly when a filter lets nothing  *)
(* pass, or a chunk cannot be filled once.                                 *)
(***************************************************************************)
NoneLeftOut ==
  /\ mode = "over" /\ RepeatsReadOnce => pos = Len(Denotes(expression))
  /\ mode # "new" => (mode = "thrown" <=> Fails(expression))

(* Every composition of generators is the sequence it stands for: no value *)
(* is another, is left out or comes too many.                              *)
YieldsAsDenoted == ValuesAsDenoted /\ NoneLeftOut

=============================================================================
