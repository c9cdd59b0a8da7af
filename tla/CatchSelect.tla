----------------------------- MODULE CatchSelect -----------------------------
(***************************************************************************)
(* How Catch (lib/catch) chooses the test cases to run: TestSpecParser     *)
(* reads the arguments of the command line, character by character, into   *)
(* filters of name and tag patterns; a test case runs if a filter matches. *)
(*                                                                         *)
(* The module that composes it with the command line is CatchCommandLine.  *)
(* Characters are those the parser distinguishes, and some letters; the    *)
(* words "exclude:", "!throws" and "!benchmark" are a character each.      *)
(* There is no upper case, and no tag alias.                               *)
(***************************************************************************)
EXTENDS Naturals, FiniteSets, Sequences, SequencesExt

CONSTANT
  TestCases   \* the test cases: records [name, declared], two texts and the
              \* set of the tags that were declared for it

VARIABLES
  input,      \* what the Config asks for: its arguments, whether --nothrow was
              \* given, and, history, the alternatives that were written, if known
  arg,        \* the argument that is parsed, or was last
  pos,        \* m_pos
  stage,      \* between two arguments, in one, or done
  parser,     \* the other members of TestSpecParser
  selected,   \* the test cases of the TestGroup
  astray      \* history: a backslash where no pattern had begun, or at the end

vars == <<input, arg, pos, stage, parser, selected, astray>>

NoFilter == [required |-> <<>>, forbidden |-> <<>>]

-----------------------------------------------------------------------------
isControlChar(mode, c) ==
  CASE mode = "None"        -> c = "~"
    [] mode = "Name"        -> c = "["
    [] mode = "QuotedName"  -> c = "\""
    [] mode = "Tag"         -> c \in {"[", "]"}
    [] mode = "EscapedName" -> TRUE

addCharToPattern(p, c) ==
  [p EXCEPT !.substring = Append(@, c), !.patternName = Append(@, c), !.realPatternPos = @ + 1]

addFilter(p) ==
  IF p.current = NoFilter THEN p
  ELSE [p EXCEPT !.filters = Append(@, p.current), !.current = NoFilter]

(* preprocessPattern: the backslashes are taken out of the pattern.        *)
TokenTaken(p) == [p EXCEPT !.patternName = <<>>, !.escapeChars = {}, !.realPatternPos = 0]

Token(p) ==
  LET kept == SetToSortSeq({i \in DOMAIN p.patternName : i - 1 \notin p.escapeChars}, <)
  IN  [i \in DOMAIN kept |-> p.patternName[kept[i]]]

(* addNamePattern and addTagPattern, with a hidden tag taken apart.        *)
PatternsOf(kind, text) ==
  CASE text = <<>> -> <<>>
    [] kind = "tag" /\ Len(text) > 1 /\ Head(text) = "." ->
         <<[kind |-> kind, text |-> <<".">>], [kind |-> kind, text |-> Tail(text)],
           [kind |-> kind, text |-> Tail(text)]>>
    [] OTHER -> <<[kind |-> kind, text |-> text]>>

addPattern(p, kind) ==
  LET token    == Token(p)
      excludes == token # <<>> /\ Head(token) = "exclude:"
      added    == PatternsOf(kind, IF excludes THEN Tail(token) ELSE token)
      q        == [TokenTaken(p) EXCEPT !.substring = <<>>, !.exclusion = FALSE, !.mode = "None"]
  IN  IF excludes \/ p.exclusion THEN [q EXCEPT !.current.forbidden = @ \o added]
                                 ELSE [q EXCEPT !.current.required = @ \o added]

endMode(p) ==
  CASE p.mode \in {"Name", "QuotedName"} -> addPattern(p, "name")
    [] p.mode = "Tag"         -> addPattern(p, "tag")
    [] p.mode = "EscapedName" -> [p EXCEPT !.mode = p.lastMode]
    [] p.mode = "None"        -> p

escape(p) ==
  [p EXCEPT !.lastMode = p.mode, !.mode = "EscapedName", !.escapeChars = @ \cup {p.realPatternPos}]

processNoneChar(p, c) ==
  CASE c = "~"  -> [p EXCEPT !.exclusion = TRUE]
    [] c = "["  -> [p EXCEPT !.mode = "Tag"]
    [] c = "\"" -> [p EXCEPT !.mode = "QuotedName"]
    [] OTHER    -> [p EXCEPT !.mode = "Name"]

processNameChar(p, c) ==
  CASE c = "[" /\ p.substring = <<"exclude:">> -> [p EXCEPT !.exclusion = TRUE, !.mode = "Tag"]
    [] c = "[" /\ p.substring # <<"exclude:">> -> [endMode(p) EXCEPT !.mode = "Tag"]
    [] OTHER -> p

(* The end of visitChar.                                                   *)
Added(p, c) ==
  IF isControlChar(p.mode, c) THEN [p EXCEPT !.substring = Append(@, c)] ELSE addCharToPattern(p, c)

Invalid(p, c) == c = "," /\ p.mode \in {"QuotedName", "Tag"}

(* Faulty variant of the next definition: what was read stays.             *)
GivenUpHalfway(p, text) == [p EXCEPT !.mode = "None", !.invalid = Append(@, text)]

(* separate() inside a tag or quotes, and parse() then.                    *)
GivenUp(p, text) ==
  [p EXCEPT !.mode = "None", !.substring = <<>>, !.patternName = <<>>, !.realPatternPos = 0,
            !.invalid = Append(@, text)]

visitChar(p, c) ==
  CASE p.mode # "EscapedName" /\ c = "\\" -> addCharToPattern(escape(p), c)
    [] p.mode # "EscapedName" /\ c = ","  -> addFilter(endMode(p))
    [] p.mode = "EscapedName"             -> addCharToPattern(endMode(p), c)
    [] p.mode = "None" /\ c = " "         -> p
    [] p.mode = "None" /\ c \notin {" ", ",", "\\"} -> Added(processNoneChar(p, c), c)
    [] p.mode = "Name" /\ c \notin {",", "\\"}      -> Added(processNameChar(p, c), c)
    [] p.mode \in {"QuotedName", "Tag"} /\ c \notin {",", "\\"} ->
         IF isControlChar(p.mode, c) THEN endMode([p EXCEPT !.substring = Append(@, c)])
         ELSE Added(p, c)

-----------------------------------------------------------------------------
(* The tags of a test case: a hidden one is hidden by a tag of its own.    *)
Hides(tag) == Head(tag) \in {".", "!benchmark"}

isHidden(t) == \E tag \in t.declared : Hides(tag)

throws(t) == <<"!throws">> \in t.declared

Tags(t) ==
  {IF Len(tag) > 1 /\ Head(tag) = "." THEN Tail(tag) ELSE tag : tag \in t.declared}
    \cup (IF isHidden(t) THEN {<<".">>} ELSE {})

trim(s) ==
  LET ink == {i \in DOMAIN s : s[i] # " "}
  IN  IF ink = {} THEN <<>> ELSE SubSeq(s, Min(ink), Max(ink))

(* WildcardPattern.                                                        *)
NameMatches(pattern, name) ==
  LET text  == trim(pattern)
      start == text # <<>> /\ Head(text) = "*"
      rest  == IF start THEN Tail(text) ELSE text
      end   == rest # <<>> /\ Last(rest) = "*"
      core  == IF end THEN Front(rest) ELSE rest
      str   == trim(name)
  IN  CASE ~ start /\ ~ end -> core = str
        [] start /\ ~ end   -> IsSuffix(core, str)
        [] ~ start /\ end   -> IsPrefix(core, str)
        [] start /\ end     -> \E i \in 0 .. Len(str) : IsPrefix(core, SubSeq(str, i + 1, Len(str)))

PatternMatches(pattern, t) ==
  IF pattern.kind = "name" THEN NameMatches(pattern.text, t.name) ELSE pattern.text \in Tags(t)

(* Faulty variant of the next definition: a hidden test case is no matter. *)
FilterMatchesHidden(filter, t) ==
  /\ \A pattern \in ToSet(filter.required) : PatternMatches(pattern, t)
  /\ \A pattern \in ToSet(filter.forbidden) : ~ PatternMatches(pattern, t)

(* Filter::matches.                                                        *)
FilterMatches(filter, t) ==
  /\ \A pattern \in ToSet(filter.required) : PatternMatches(pattern, t)
  /\ \A pattern \in ToSet(filter.forbidden) : ~ PatternMatches(pattern, t)
  /\ filter.required = <<>> => ~ isHidden(t)

isThrowSafe(t) == throws(t) => ~ input.noThrow

(* matchesByFilter, and the TestGroup's constructor.                       *)
Chosen(p) ==
  IF p.filters = <<>> /\ p.invalid = <<>> THEN {t \in TestCases : ~ isHidden(t)}
  ELSE {t \in TestCases : isThrowSafe(t) /\ \E i \in DOMAIN p.filters : FilterMatches(p.filters[i], t)}

-----------------------------------------------------------------------------
(* Nothing is asked for yet.                                               *)
InitSelect ==
  /\ input = [args |-> <<>>, noThrow |-> FALSE, written |-> <<>>]
  /\ arg = 0 /\ pos = 1
  /\ stage = "between"
  /\ parser = [mode |-> "None", lastMode |-> "None", exclusion |-> FALSE, substring |-> <<>>,
               patternName |-> <<>>, realPatternPos |-> 0, escapeChars |-> {},
               current |-> NoFilter, filters |-> <<>>, invalid |-> <<>>]
  /\ selected = {}
  /\ astray = FALSE

Text == input.args[arg]

(* parse() is called with the next argument.                               *)
Parse ==
  /\ stage = "between"
  /\ arg < Len(input.args)
  /\ arg' = arg + 1 /\ pos' = 1
  /\ stage' = "in one"
  /\ parser' = [parser EXCEPT !.mode = "None", !.exclusion = FALSE, !.escapeChars = {},
                             !.realPatternPos = 0]
  /\ UNCHANGED <<input, selected, astray>>

VisitChar ==
  /\ stage = "in one"
  /\ pos <= Len(Text)
  /\ IF Invalid(parser, Text[pos])
     THEN stage' = "between" /\ parser' = GivenUp(parser, Text)
     ELSE stage' = stage /\ parser' = visitChar(parser, Text[pos])
  /\ pos' = pos + 1
  /\ astray' = (astray \/ (parser.mode = "None" /\ parser'.mode = "EscapedName"))
  /\ UNCHANGED <<input, arg, selected>>

(* The end of parse().                                                     *)
ArgEnds ==
  /\ stage = "in one"
  /\ pos > Len(Text)
  /\ stage' = "between"
  /\ parser' = endMode(parser)
  /\ astray' = (astray \/ parser.mode = "EscapedName")
  /\ UNCHANGED <<input, arg, pos, selected>>

(* testSpec(), and the test cases are chosen.                              *)
TestSpec ==
  /\ stage = "between"
  /\ arg = Len(input.args)
  /\ stage' = "done"
  /\ parser' = addFilter(parser)
  /\ selected' = Chosen(parser')
  /\ UNCHANGED <<input, arg, pos, astray>>

-----------------------------------------------------------------------------
(***************************************************************************)
(* What is selected is what was written: a specification is alternatives   *)
(* with commas between, an alternative is patterns in a row, a pattern is  *)
(* a name, a quoted name or a tag, after ~ or exclude: if it is not to     *)
(* match; [.tag] is [.] and [tag], each with that sign.  Two arguments are *)
(* one specification, the last alternative of the first continued by the   *)
(* first of the second.  A hidden test case only runs when it is asked for.*)
(***************************************************************************)
Means(pattern, t) ==
  LET text == pattern.text
      stars == [start |-> Head(text) = "*", end |-> Len(text) > 1 /\ Last(text) = "*"]
      core == SelectSeq(text, LAMBDA c : c # "*")
  IN  IF pattern.kind = "tag"
      THEN text \in t.declared \/ <<".">> \o text \in t.declared \/ (text = <<".">> /\ isHidden(t))
      ELSE \E i \in 1 .. Len(t.name) + 1, j \in 0 .. Len(t.name) :
             /\ SubSeq(t.name, i, j) = core
             /\ ~ stars.start => i = 1
             /\ ~ stars.end   => j = Len(t.name)

Meant(pattern) ==
  IF pattern.kind = "tag" /\ Len(pattern.text) > 1 /\ Head(pattern.text) = "."
  THEN {[pattern EXCEPT !.text = <<".">>], [pattern EXCEPT !.text = Tail(@)]}
  ELSE {pattern}

MeansAlternative(patterns, t) ==
  /\ \A pattern \in UNION {Meant(p) : p \in ToSet(patterns)} : Means(pattern, t) <=> pattern.sign = ""
  /\ isHidden(t) => \E pattern \in ToSet(patterns) : pattern.sign = ""

SelectsAsWritten ==
  stage = "done" /\ input.written # <<>> =>
    selected = {t \in TestCases :
                  isThrowSafe(t) /\ \E i \in DOMAIN input.written : MeansAlternative(input.written[i], t)}

(***************************************************************************)
(* No pattern is put together from two arguments: an argument leaves no    *)
(* text to the next, an invalid one either, unless a backslash was astray. *)
(* Within one, each backslash to be taken out is in the pattern, so that   *)
(* substr() does not throw.                                                *)
(***************************************************************************)
NothingCarriedOver ==
  /\ stage = "between" /\ ~ astray => parser.patternName = <<>> /\ parser.realPatternPos = 0
  /\ stage = "in one" => parser.escapeChars \subseteq 0 .. Len(parser.patternName) - 1

=============================================================================
