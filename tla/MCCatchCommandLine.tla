------------------------- MODULE MCCatchCommandLine -------------------------
(***************************************************************************)
(* The lines that TLC gives CatchCommandLine: options with good and bad    *)
(* arguments in every spelling; specifications of tests that are written   *)
(* out, with backslashes where they are needed; and any text at all of     *)
(* some characters as a specification, alone or before another.            *)
(***************************************************************************)
EXTENDS CatchCommandLine

CONSTANTS MaxText, MaxTexts

MCTestCases ==
  {[name |-> n, declared |-> d] :
     n \in {<<"a">>, <<"b", "a">>, <<"a", ",", "b">>},
     d \in {{}, {<<"a">>}, {<<".", "a">>, <<"b">>}, {<<"b">>, <<"!throws">>}}}

MCFiles == [f \in {<<"f">>} |-> <<<<" ", "a">>, <<"#", "a">>, <<>>, <<"\"", "b", "\"">>>>]

Plain == [words |-> <<>>, known |-> FALSE, items |-> <<>>, written |-> <<>>,
          startup |-> FALSE, duplicate |-> FALSE]

-----------------------------------------------------------------------------
(* An option as it is written, with the item that is meant.                *)
Item(option, field, value) ==
  [option |-> option, field |-> field, value |-> value, fine |-> TRUE, adds |-> FALSE, once |-> TRUE]

Flag(c, long, field, value) ==
  {[words |-> <<w>>, item |-> Item(c, field, value)] : w \in {Short(c), Long(long)}}

(* A text that begins like an option can only follow a delimiter.          *)
Valued(c, long, item, text) ==
  {[words |-> <<name, text>>, item |-> [item EXCEPT !.fine = @ /\ Head(text) # "-"]] :
     name \in {Short(c), Long(long)}}
  \cup {[words |-> <<name \o <<d>> \o text>>, item |-> item] :
     name \in {Short(c), Long(long)}, d \in {"=", ":"}}

Bad(item) == [item EXCEPT !.fine = FALSE]

Adding(item) == [item EXCEPT !.adds = TRUE, !.once = FALSE]

Few ==
  Flag("l", "list-tests", "listTests", TRUE)
  \cup Flag("e", "nothrow", "noThrow", TRUE)
  \cup Flag("?", "help", "showHelp", TRUE)
  \cup Valued("x", "abortx", Item("x", "abortAfter", 2), <<"2">>)
  \cup Valued("x", "abortx", Item("x", "abortAfter", -1), <<"-", "1">>)
  \cup {[words |-> <<<<"[", "b", "]">>>>, item |-> Adding(Item("", "testsOrTags", <<<<"[", "b", "]">>>>))]}

Others ==
  Flag("a", "abort", "abortAfter", 1)
  \cup Valued("x", "abortx", Bad(Item("x", "abortAfter", 0)), <<"z">>)
  \cup Valued("x", "abortx", Bad(Item("x", "abortAfter", 12)), <<"1", "2">>)
  \cup Valued("w", "warn", Item("w", "warnings", {"NoTests"}), <<"NoTests">>)
  \cup Valued("w", "warn", Bad(Item("w", "warnings", {})), <<"z">>)
  \cup Valued("d", "durations", Item("d", "showDurations", "Never"), <<"no">>)
  \cup Valued("n", "name", Item("n", "name", <<"a", "=", "b">>), <<"a", "=", "b">>)
  \cup Valued("c", "section", Adding(Item("c", "sectionsToRun", <<<<" ", "a">>>>)), <<" ", "a">>)
  \cup Valued("f", "input-file", [Item("f", "testsOrTags",
         <<<<"\"", "a", "\"">>, <<",">>, <<"\"", "b", "\"">>>>) EXCEPT !.adds = TRUE], <<"f">>)
  \cup Valued("f", "input-file", Bad(Item("f", "testsOrTags", <<>>)), <<"g">>)
  \cup {[words |-> <<Long("order"), o.text>>, item |-> Item("order", "runOrder", o.means)] :
          o \in {[text |-> <<"d">>, means |-> "declared"], [text |-> <<"r", "a">>, means |-> "random"]}}
  \cup {[words |-> <<Long("order"), <<"l", "i">>>>, item |-> Bad(Item("order", "runOrder", "lexical"))]}
  \cup {[words |-> <<Long("list-reporters")>>, item |-> Item("reporters", "listReporters", TRUE)]}
  \cup {[words |-> <<Long("rng-seed") \o <<"=", "3">>>>, item |-> Item("seed", "rngSeed", 3)]}

Meant1(spelled) ==
  [Plain EXCEPT !.words = FlattenSeq([i \in DOMAIN spelled |-> spelled[i].words]), !.known = TRUE,
                !.items = [i \in DOMAIN spelled |-> spelled[i].item]]

(* Two short options in one word, the first a flag.                        *)
Grouped(p, q) ==
  [Meant1(<<p, q>>) EXCEPT
     !.words = <<p.words[1] \o Tail(q.words[1])>> \o Tail(q.words)]

Groupable(p) == Len(p.words[1]) = 2 /\ Head(p.words[1]) = "-"

OptionLines ==
  {Meant1(<<p>>) : p \in Few \cup Others}
  \cup {Meant1(<<p, q>>) : p, q \in Few \cup Others}
  \cup {Meant1(<<p, q, r>>) : p, q, r \in Few}
  \cup {Grouped(p, q) : p \in {f \in Few \cup Others : Groupable(f) /\ Len(f.words) = 1},
                        q \in {f \in Few \cup Others : Groupable(f)}}
  \cup {[Meant1(<<p>>) EXCEPT !.startup = s, !.duplicate = ~ s] : p \in Few \cup Others, s \in BOOLEAN}
  \cup {[Plain EXCEPT !.words = w] :
          w \in {<<<<>>, Short("n"), <<>>, <<"a">>>>, <<<<"-">>>>, <<<<"-", "-">>, <<"a">>>>,
                 <<Long("rng-seed"), <<"time">>>>, <<Long("libidentify")>>, <<Short("x"), <<" ", "+", "2", "z">>>>}}

-----------------------------------------------------------------------------
(* A pattern as it is written.                                             *)
Special(kind) ==
  CASE kind = "name"   -> {",", "\\", "["}
    [] kind = "quoted" -> {",", "\\", "\""}
    [] kind = "tag"    -> {",", "\\", "[", "]"}

Shown(pattern) ==
  LET text == FlattenSeq([i \in DOMAIN pattern.text |->
                IF pattern.text[i] \in Special(pattern.kind) THEN <<"\\", pattern.text[i]>>
                ELSE <<pattern.text[i]>>])
      sign == IF pattern.sign = "" THEN <<>> ELSE <<pattern.sign>>
  IN  CASE pattern.kind = "name"   -> sign \o text
        [] pattern.kind = "quoted" -> sign \o <<"\"">> \o text \o <<"\"">>
        [] pattern.kind = "tag"    -> sign \o <<"[">> \o text \o <<"]">>

Texts(kind) == IF kind = "tag" THEN {<<"a">>, <<"b">>, <<".">>, <<".", "a">>}
               ELSE {<<"a">>, <<"*">>, <<"*", "a">>, <<"a", "*">>, <<"*", ",", "*">>, <<",", "b">>, <<"a", ",", "b">>}

Patterns ==
  UNION {[kind : {k}, sign : {"", "~", "exclude:"}, text : Texts(k)] : k \in {"name", "quoted", "tag"}}

(* exclude: is followed by a name or a tag; a name by a tag without a      *)
(* sign; and a sole comma is astray without quotes.                        *)
Writable(patterns) ==
  /\ \A i \in DOMAIN patterns : patterns[i].sign = "exclude:" => patterns[i].kind # "quoted"
  /\ \A i \in 1 .. Len(patterns) - 1 :
       patterns[i].kind = "name" => patterns[i + 1].kind = "tag" /\ patterns[i + 1].sign = ""

Rows == {<<p>> : p \in Patterns} \cup {<<p, q>> : p, q \in Patterns}

Alternatives == {a \in Rows : Writable(a)}

Written(a) == FlattenSeq([i \in DOMAIN a |-> Shown(a[i])])

(* Texts that are written out, and listed too.                             *)
Asked(args, written) == [Plain EXCEPT !.words = args, !.written = written]

One == {Asked(<<Written(a)>>, <<a>>) : a \in Alternatives}

Single == {a \in Alternatives : Len(a) = 1}

Two ==
  {Asked(<<Short(c), Written(a) \o <<",">> \o Written(b)>>, <<a, b>>) : a, b \in Single, c \in {"e", "l"}}
  \cup {Asked(<<Written(a), Written(b)>>, <<a \o b>>) : a, b \in Single}
  \cup {Asked(<<<<"-", "e", "l">>, Written(a)>>, <<a>>) : a \in Single}

Characters == {"a", " ", "~", "[", "]", "\"", "\\", ",", "exclude:"}

Strings(n) == UNION {[1 .. k -> Characters] : k \in 0 .. n}

Unknown ==
  {Asked(<<s>>, <<>>) : s \in Strings(MaxText)} \cup {Asked(<<s, t>>, <<>>) : s, t \in Strings(MaxTexts)}

MCLines == OptionLines \cup One \cup Two \cup Unknown
=============================================================================
