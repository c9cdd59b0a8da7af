---------------------------- MODULE MCCatchHelpers ----------------------------
(***************************************************************************)
(* The inputs of the helpers for TLC: every short text over the characters *)
(* a helper tells apart, in every width and indent a use of it gives.      *)
(***************************************************************************)
EXTENDS CatchHelpers

Texts0(chars, n) == UNION {[1 .. m -> chars] : m \in 0 .. n}

a == <<"a">>

(* One column: texts over a letter, a blank, a line feed and the two kinds *)
(* of break, with room for one character and for more.                     *)
Singles ==
  {<<Column(text, width, first, 1)>> :
     text \in Texts0({"a", " ", "\n"}, 7) \cup Texts0({"a", " ", "[", ":"}, 6),
     width \in {2, 3, 4}, first \in {NoIndent, 0}}

(* Two and three columns of different lengths *)
Few == {<<>>, <<"a">>, <<"a", " ", "a", "a">>, <<"a", "a", "a", "a", "a">>, <<"a", "\n", "\n", "a">>}
Rows ==
  {<<Column(s, 3, NoIndent, 0), Spacer(2), Column(t, 4, 0, 1), Column(u, 3, NoIndent, 0)>> :
     s, t, u \in Few}

Words == <<"a", "a", " ", "a", "a", "a", ":", " ", "a", "a", " ", "a", "a", "a", "a", " ", "a">>
Info(name, width) == [name |-> name, width |-> width]

(* The layouts the library itself makes *)
Library ==
  {Header(SubSeq(Words, i, Len(Words)), first) : i \in {1, 3, 9}, first \in {0, 2}}
    \cup {ListedReporter(a, Words, n) : n \in 1 .. 5} \cup {ListedReporterQuietly(a, 1)}
    \cup {ListedTest(Words), ListedTestTags(Words), ListedTags(<<" ", " ", "a", " ", " ">>, Words)}
    \cup {Plain(Words, 2), BenchmarkName(Words, 9)}
    \cup {HelpRow(SubSeq(Words, 1, n), Words, {a, SubSeq(Words, 1, n)}) : n \in {2, 6, 17}}
    \cup {TableHeadings(<<Info(Words, 9), Info(a, 5), Info(Words, 6)>>)}

MCLayouts == Singles \cup Rows \cup Library

MCBytes ==
  Texts0({65, GT, BRACKET, LT, QUOT, AMP, 31, 127, 128, 191, 194, 237}, 3)
    \cup Texts0({65, 9, 10, 13, 11, 12, 92}, 3)
    \cup [1 .. 3 -> {238, 239, 190, 191}]
    \cup {<<BRACKET>> \o s : s \in [1 .. 3 -> {65, GT, BRACKET}]}
    \cup [1 .. 3 -> {192, 193, 194, 224, 237, 128, 159, 160, 191, 65}]
    \cup {<<lead>> \o s : lead \in {240, 241, 244, 245, 248}, s \in [1 .. 3 -> {128, 143, 144, 160, 191, 65}]}

MCTexts == Texts0({"a", "n", "|", "'", "\n", "["}, 5) \cup Texts0({"|", "\r", "r", "]"}, 3)

(* Arguments as a C++ expression may be written: names, calls with several *)
(* arguments, character and string literals with commas, quotes, brackets  *)
(* and escapes in them                                                     *)
Arguments ==
  { a, <<"a", "(", "a", ",", "a", ")">>, <<"(", "(", "a", ")", ",", "a", ")">>,
    <<"a", " ", "a">>, <<"\"", ",", "\"">>, <<"\"", "\\", "\"", ",", "(", "\"">>,
    <<"'", ",", "'">>, <<"'", "\\", "'", "'">>, <<"'", "\"", "'">>, <<"\"", "\\", "\\", "\"">>,
    <<"\"", "'", "\"">>, <<"a", "(", "\"", ")", "\"", ")">> }
MCCaptured == UNION {[1 .. n -> Arguments] : n \in 1 .. 3}

Cased(str, cased) == [str |-> str, cased |-> cased]
Small == Matcher("Predicate", {0, 1}, <<>>, FALSE)
IsA == Matcher("Predicate", {"a"}, <<>>, FALSE)

MCLeaves ==
  << Matcher("StringEquals", Cased(<<"a", "b">>, FALSE), <<>>, FALSE),
     Matcher("StringContains", Cased(<<"A">>, TRUE), <<>>, FALSE),
     Matcher("StartsWith", Cased(<<"A", "b">>, FALSE), <<>>, FALSE),
     Matcher("EndsWith", Cased(<<"a", "b">>, TRUE), <<>>, FALSE),
     Matcher("Message", <<"a">>, <<>>, FALSE),
     Matcher("VectorContains", "b", <<>>, FALSE),
     Matcher("Contains", <<"a", "b">>, <<>>, FALSE),
     Matcher("Equals", <<"A", "b">>, <<>>, FALSE),
     Matcher("UnorderedEquals", <<"a", "b", "a">>, <<>>, FALSE),
     Matcher("IsEmpty", <<>>, <<>>, TRUE),
     Matcher("HasSize", 2, <<>>, TRUE),
     Matcher("SizeMatches", <<>>, <<Small>>, TRUE),
     Matcher("ContainsElement", "A", <<>>, TRUE),
     Matcher("ContainsMatching", <<>>, <<IsA>>, TRUE),
     Matcher("Contains", <<"a", "a">>, <<>>, FALSE) >>

(* Every leaf, and every expression of up to two operators and a negation  *)
(* over two typed and two generic leaves                                   *)
Leaf(n) == <<"leaf", n>>
Some == {Leaf(n) : n \in {3, 6, 10, 14}}
Pairs(L, R) == {<<op, l, r>> : op \in {"and", "or"}, l \in L, r \in R}
Negated(S) == S \cup {<<"not", e>> : e \in S}
Twos == Negated(Pairs(Some, Some))
MCExpressions ==
  {Leaf(n) : n \in DOMAIN MCLeaves} \cup Negated(Negated(Twos))
    \cup Pairs(Negated(Negated(Some)), Negated(Some)) \cup Pairs(Some, Twos) \cup Pairs(Twos, Some)
    \cup Pairs(Pairs({Leaf(3), Leaf(10)}, {Leaf(6), Leaf(14)}), Pairs({Leaf(3), Leaf(10)}, {Leaf(6), Leaf(14)}))

MCSubjects == Texts0({"a", "b", "A"}, 2) \cup {<<"a", "a", "b">>, <<"b", "a", "b">>}

MCNumbers == (-5 .. 5) \cup {Inf, - Inf, NaN}

=============================================================================
