----------------------------- MODULE CatchHelpers -----------------------------
(***************************************************************************)
(* Catch's helpers at work.  A job is one call of one of them, on one of   *)
(* the inputs of the constants: columns laid out row by row, a text        *)
(* written into XML byte by byte or into a TeamCity message replacement by *)
(* replacement, the arguments of a CAPTURE read character by character, a  *)
(* matcher put together and applied, two numbers compared.  Each is held   *)
(* against what it is for, said in other terms than its own.               *)
(***************************************************************************)
EXTENDS CatchText, CatchEncode, CatchMatchers

CONSTANTS
  Layouts,      \* sequences of columns to lay out
  Bytes,        \* texts to write into XML
  Texts,        \* texts to write into a TeamCity message
  Captured,     \* sequences of arguments of CAPTURE
  Leaves,       \* the matchers that expressions are made of, a sequence
  Expressions,  \* expressions of matchers
  Subjects,     \* what they are applied to
  Numbers, Margins, Ulps,
  MaxRows       \* bound: rows laid out, where the code goes on for ever

VARIABLES job, work
vars == <<job, work>>

(* A call that is one step, before it is made *)
Waiting == [made |-> FALSE]

Init ==
  \/ \E cols \in Layouts :
       /\ job = [kind |-> "wrap", cols |-> cols]
       /\ work = [its |-> Begins(cols), walked |-> <<>>, rows |-> <<>>]
  \/ \E str \in Bytes, attribute \in BOOLEAN :
       /\ job = [kind |-> "encode", str |-> str, attribute |-> attribute]
       /\ work = [idx |-> 1, out |-> <<>>]
  \/ \E str \in Texts :
       /\ job = [kind |-> "escape", str |-> str]
       /\ work = [line |-> 1, str |-> str]
  \/ \E args \in Captured :
       /\ job = [kind |-> "capture", args |-> args]
       /\ work = Scanning
  \/ \E expr \in Expressions, x \in Subjects :
       /\ job = [kind |-> "match", expr |-> expr, x |-> x]
       /\ work = Waiting
  \/ \E how \in {"abs", "rel", "approx"}, x, target \in Numbers, m, k \in Margins :
       /\ job = [kind |-> "near", how |-> how, x |-> x, target |-> target, margin |-> m, k |-> k]
       /\ work = Waiting
  \/ \E x, target \in Floats, ulps \in Ulps :
       /\ job = [kind |-> "ulps", x |-> x, target |-> target, ulps |-> ulps]
       /\ work = Waiting

(* operator<< for columns: one row *)
Wrap ==
  /\ job.kind = "wrap" /\ ~ AllAtEnd(job.cols, work.its) /\ Len(work.rows) < MaxRows
  /\ work' = [its |-> Advances(job.cols, work.its),
              walked |-> Append(work.walked, work.its),
              rows |-> Append(work.rows, Row(job.cols, work.its))]
  /\ UNCHANGED job

(* encodeTo: one turn of its loop *)
Encode ==
  /\ job.kind = "encode" /\ work.idx <= Len(job.str)
  /\ LET turn == Encoded(job.str, work.idx, job.attribute)
     IN  work' = [idx |-> work.idx + turn.takes, out |-> work.out \o turn.writes]
  /\ UNCHANGED job

(* TeamCity's escape: one of its replacements *)
EscapeOne ==
  /\ job.kind = "escape" /\ work.line <= Len(Escapes)
  /\ work' = [line |-> work.line + 1, str |-> Escape(work.str, work.line)]
  /\ UNCHANGED job

(* The arguments of CAPTURE as the macro turns them into text *)
Text(args) ==
  FlattenSeq([i \in DOMAIN args |-> IF i = 1 THEN args[i] ELSE <<",", " ">> \o args[i]])

(* Capturer's constructor: one turn of its loop *)
Capture ==
  /\ job.kind = "capture" /\ ~ work.gaveUp /\ work.pos <= Len(Text(job.args))
  /\ work' = Scanned(Text(job.args), work)
  /\ UNCHANGED job

(* The matcher an expression of the program builds *)
RECURSIVE Built(_)
Built(e) ==
  CASE e[1] = "leaf" -> Leaves[e[2]]
    [] e[1] = "and" -> And(Built(e[2]), Built(e[3]))
    [] e[1] = "or" -> Or(Built(e[2]), Built(e[3]))
    [] e[1] = "not" -> Not(Built(e[2]))

RECURSIVE Compiles(_)
Compiles(e) ==
  CASE e[1] = "leaf" -> TRUE
    [] e[1] = "not" -> Compiles(e[2])
    [] e[1] = "and" -> /\ Compiles(e[2]) /\ Compiles(e[3])
                       /\ ~ Ambiguous(Built(e[2]), Built(e[3]), "AllOf")
    [] e[1] = "or" -> /\ Compiles(e[2]) /\ Compiles(e[3])
                      /\ ~ Ambiguous(Built(e[2]), Built(e[3]), "AnyOf")

(* CHECK_THAT(x, expr) *)
Match ==
  /\ job.kind = "match" /\ work = Waiting /\ Compiles(job.expr)
  /\ work' = [made |-> TRUE, expr |-> MatchExpr(job.x, Built(job.expr))]
  /\ UNCHANGED job

Compare ==
  /\ job.kind = "near" /\ work = Waiting
  /\ work' = [made |-> TRUE, result |->
       CASE job.how = "abs" -> WithinAbs(job.x, job.target, job.margin)
         [] job.how = "rel" -> WithinRel(job.x, job.target, job.k)
         [] job.how = "approx" ->
              VectorApprox(<<job.x>>, <<job.target>>, job.margin, job.k, 0)]
  /\ UNCHANGED job

CompareUlps ==
  /\ job.kind = "ulps" /\ work = Waiting
  /\ work' = [made |-> TRUE, result |-> almostEqualUlps(job.x, job.target, job.ulps)]
  /\ UNCHANGED job

Next == Wrap \/ Encode \/ EscapeOne \/ Capture \/ Match \/ Compare \/ CompareUlps

Spec == Init /\ [][Next]_vars

-----------------------------------------------------------------------------
(* What the columns are for *)

Solid(text) == SelectSeq(text, LAMBDA c : ~ isWhitespace(c))
Told(col, it) == SubSeq(col.text, it.pos + 1, it.pos + it.len)

(* The lines told of one column so far *)
ToldOf(i) ==
  SelectSeq([r \in DOMAIN work.walked |-> work.walked[r][i]],
            LAMBDA it : ~ AtEnd(job.cols[i], it))

(* Where the cells of a column stand in a row *)
Offset(i) == FoldLeft(LAMBDA sum, col : sum + col.width, 0, SubSeq(job.cols, 1, i - 1))

Room(col, pos) == col.width - indent(col, pos)

(* A word, or a part of one between breaks, is cut in two at this place.   *)
CutsWord(text, at) ==
  /\ at \in 1 .. Len(text) - 1
  /\ ~ isWhitespace(Char(text, at - 1)) /\ ~ isWhitespace(Char(text, at))
  /\ Char(text, at) # "[" /\ Char(text, at - 1) # ":"

(* In a room of one, a word of two has no room but for its hyphen.         *)
Stands(col, pos) == Room(col, pos) = 1 /\ CutsWord(col.text, pos + 1)

(* In a room of one, a column that begins with a blank, or with a word of  *)
(* two, is taken for an empty one.                                         *)
IsLost(col) ==
  /\ Room(col, 0) = 1 /\ col.text # <<>>
  /\ isWhitespace(Char(col.text, 0)) \/ Stands(col, 0)

LinesAreRight(col, lines) ==
  \A n \in DOMAIN lines :
    LET it   == lines[n]
        told == Told(col, it)
    IN  /\ Len(Line(col, it)) <= col.width
        /\ \A p \in 2 .. Len(told) : told[p] # "\n"
        /\ it.suffix <=>
             \/ CutsWord(col.text, it.pos + it.len)
             \/ Solid(told) = <<>> /\ LineEnd(col.text, it.pos) >= it.pos + Room(col, it.pos)
                  /\ ~ Stands(col, it.pos)
             \/ Stands(col, it.pos)

(***************************************************************************)
(* What a column is laid out to: no row of it is wider than the column or  *)
(* runs on over a line feed, and each stands under the one above.  A row   *)
(* ends in a hyphen exactly where it cuts a word that it may not break, or *)
(* has blanks alone, at the beginning of a line that does not fit.  Every  *)
(* character but blanks is told once and in order, and every row takes the *)
(* text further.  Where there is room for one character only, three things *)
(* happen instead: a column that begins with a word of two, or a blank, is *)
(* lost as a whole; another stands still for ever at its first word of     *)
(* two, with a hyphen in every row; and only these are, or do.             *)
(***************************************************************************)
Wrapped ==
  job.kind = "wrap" =>
    /\ \A i \in DOMAIN job.cols :
         LET col  == job.cols[i]
             told == [n \in DOMAIN ToldOf(i) |-> Told(col, ToldOf(i)[n])]
         IN  /\ LinesAreRight(col, ToldOf(i))
             /\ Solid(FlattenSeq(told)) =
                  IF IsLost(col) THEN <<>> ELSE Solid(SubSeq(col.text, 1, work.its[i].pos))
             /\ IsLost(col) => AtEnd(col, work.its[i])
    /\ \A r \in DOMAIN work.rows, i \in DOMAIN job.cols :
         LET col  == job.cols[i]
             it   == work.walked[r][i]
             next == Append(work.walked, work.its)[r + 1][i]
             line == Line(col, it)
         IN  ~ AtEnd(col, it) =>
               /\ SubSeq(work.rows[r], Offset(i) + 1, Offset(i) + Len(line)) = line
               /\ IF Stands(col, it.pos) THEN next = it ELSE next.pos > it.pos

-----------------------------------------------------------------------------
(* What the escaping is for *)

(* The characters of XML 1.0, as the bytes of UTF-8 that Unicode gives     *)
(* them: no controls but tab, line feed and carriage return, no surrogates *)
(* and neither U+FFFE nor U+FFFF.                                          *)
Within(bytes, low, high) ==
  bytes[2] \in low .. high /\ \A i \in 3 .. Len(bytes) : bytes[i] \in 128 .. 191
IsCharacter(bytes) ==
  CASE Len(bytes) = 1 -> bytes[1] \in {9, 10, 13} \cup (32 .. 127)
    [] Len(bytes) = 2 -> bytes[1] \in 194 .. 223 /\ Within(bytes, 128, 191)
    [] Len(bytes) = 3 -> \/ bytes[1] = 224 /\ Within(bytes, 160, 191)
                         \/ bytes[1] \in 225 .. 236 \cup {238} /\ Within(bytes, 128, 191)
                         \/ bytes[1] = 237 /\ Within(bytes, 128, 159)
                         \/ /\ bytes[1] = 239 /\ Within(bytes, 128, 191)
                            /\ Tail(bytes) \notin {<<191, 190>>, <<191, 191>>}
    [] Len(bytes) = 4 -> \/ bytes[1] = 240 /\ Within(bytes, 144, 191)
                         \/ bytes[1] \in 241 .. 243 /\ Within(bytes, 128, 191)
                         \/ bytes[1] = 244 /\ Within(bytes, 128, 143)

(* How long the character is that a sequence of bytes begins with; 0: none *)
CharacterAt(bytes) ==
  Max({0} \cup {n \in 1 .. Min({4, Len(bytes)}) : IsCharacter(SubSeq(bytes, 1, n))})

Rest(bytes, n) == SubSeq(bytes, n + 1, Len(bytes))

(* What a reader makes of line ends, and of blanks in an attribute         *)
RECURSIVE Normalized(_, _)
Normalized(bytes, attribute) ==
  LET n == IF IsPrefix(<<13, 10>>, bytes) THEN 2 ELSE 1
      c == Head(bytes)
  IN  IF bytes = <<>> THEN <<>>
      ELSE <<IF attribute /\ c \in {9, 10, 13} THEN 32 ELSE IF c = 13 THEN 10 ELSE c>>
             \o Normalized(Rest(bytes, n), attribute)

(* What an XML reader reads in an attribute in quotes or between tags; it  *)
(* gives up at what is no character, or not text.                          *)
NotRead == <<-1>>

RECURSIVE ReadXml(_, _)
ReadXml(bytes, attribute) ==
  LET n == CharacterAt(bytes)
      entity == {c \in DOMAIN Entities : IsPrefix(Entities[c], bytes)}
      c == CHOOSE c \in entity : TRUE
  IN  IF bytes = <<>> THEN <<>>
      ELSE IF entity # {} THEN <<c>> \o ReadXml(Rest(bytes, Len(Entities[c])), attribute)
      ELSE IF \/ n = 0
              \/ Head(bytes) \in {LT, AMP}
              \/ Head(bytes) = QUOT /\ attribute
              \/ IsPrefix(<<BRACKET, BRACKET, GT>>, bytes) /\ ~ attribute
      THEN NotRead
      ELSE SubSeq(bytes, 1, n) \o ReadXml(Rest(bytes, n), attribute)

(* A text as it may be shown in XML: bytes of no character in hexadecimal, *)
(* and DEL, which need not be.                                             *)
RECURSIVE Shown(_)
Shown(str) ==
  LET n == CharacterAt(str)
  IN  IF str = <<>> THEN <<>>
      ELSE IF n = 0 \/ Head(str) = 127 THEN hexEscapeChar(Head(str)) \o Shown(Tail(str))
      ELSE SubSeq(str, 1, n) \o Shown(Rest(str, n))

(* What is written as it is though no reader takes it: the controls 11 and *)
(* 12, surrogates, U+FFFE and U+FFFF, U+0800 in four bytes, and a ]]> that *)
(* the text begins with.                                                   *)
NotForXml == [1 .. 1 -> {11, 12}] \cup {<<240, 128, 160, 128>>, <<239, 191, 190>>, <<239, 191, 191>>}
               \cup {<<237, b, c>> : b \in 160 .. 191, c \in 128 .. 191}
Unreadable(str, attribute) ==
  \/ \E i, j \in DOMAIN str : SubSeq(str, i, j) \in NotForXml
  \/ IsPrefix(<<BRACKET, BRACKET, GT>>, str) /\ ~ attribute

XmlKept ==
  job.kind = "encode" /\ work.idx > Len(job.str) =>
    LET read == ReadXml(Normalized(work.out, job.attribute), job.attribute)
    IN  IF Unreadable(job.str, job.attribute) THEN -1 \in ToSet(read)
        ELSE read = Normalized(Shown(job.str), job.attribute)

(* What TeamCity reads: a bar gives the character after it its other sense *)
Sense(c) == CASE c = "n" -> "\n" [] c = "r" -> "\r" [] OTHER -> c
RECURSIVE Read(_)
Read(str) ==
  IF str = <<>> THEN <<>>
  ELSE IF Head(str) = "|" /\ Len(str) > 1 THEN <<Sense(str[2])>> \o Read(SubSeq(str, 3, Len(str)))
  ELSE IF Head(str) \in {"|", "'", "\n", "\r", "[", "]"} THEN <<"bare">>
  ELSE <<Head(str)>> \o Read(Tail(str))

TeamCityKept == job.kind = "escape" /\ work.line > Len(Escapes) => Read(work.str) = job.str

(***************************************************************************)
(* What is written for TeamCity is read back as it was, and what is        *)
(* written for XML is read as the text, with DEL and the bytes that are no *)
(* character of XML in hexadecimal, and line ends and the blanks of an     *)
(* attribute as every reader of XML changes them: nothing of it is taken   *)
(* for the language around it, and the report stays readable.  It does not *)
(* exactly when the text has a character XML has not, but that the code    *)
(* does not look for (catch.cxx:6191 and 6245-6254), or begins with ]]>    *)
(* outside an attribute (6187 counts from zero).                           *)
(***************************************************************************)
TextKept == XmlKept /\ TeamCityKept

(* CAPTURE's messages are named after its arguments, one each: a value is  *)
(* told under the name of its own expression.                              *)
CapturesNamed ==
  job.kind = "capture" =>
    /\ ~ work.gaveUp
    /\ work.pos > Len(Text(job.args)) =>
         work.openings = 0 /\ Names(Text(job.args), work) = job.args

-----------------------------------------------------------------------------
(* What the matchers are for *)

(* The tests, by what their documentation says they accept *)
SameLetters(s, t, cased) ==
  Len(s) = Len(t) /\ \A i \in DOMAIN s : s[i] = t[i] \/ (~ cased /\ Lower(s[i]) = Lower(t[i]))
Cuts(x) == {SubSeq(x, i, j) : i \in 1 .. Len(x) + 1, j \in 0 .. Len(x)}
Accepts(does, arg, x) ==
  CASE does = "StringEquals" -> SameLetters(x, arg.str, arg.cased)
    [] does = "StringContains" -> \E cut \in Cuts(x) : SameLetters(cut, arg.str, arg.cased)
    [] does = "StartsWith" ->
         \E n \in 0 .. Len(x) : SameLetters(SubSeq(x, 1, n), arg.str, arg.cased)
    [] does = "EndsWith" ->
         \E n \in 1 .. Len(x) + 1 : SameLetters(SubSeq(x, n, Len(x)), arg.str, arg.cased)
    [] does \in {"Message", "Equals"} -> x = arg
    [] does \in {"VectorContains", "ContainsElement"} -> arg \in ToSet(x)
    [] does = "Contains" -> ToSet(arg) \subseteq ToSet(x)
    [] does = "UnorderedEquals" -> ToBag(x) = ToBag(arg)
    [] does = "Predicate" -> x \in arg
    [] does = "IsEmpty" -> x = <<>>
    [] does = "HasSize" -> Len(x) = arg

(* A tree of what an expression, or a description, says *)
RECURSIVE Says(_, _)
Says(tree, x) ==
  CASE tree[1] = "test" -> Accepts(tree[2], tree[3], x)
    [] tree[1] = "not" -> ~ Says(tree[2], x)
    [] tree[1] = "and" -> Says(tree[2], x) /\ Says(tree[3], x)
    [] tree[1] = "or" -> Says(tree[2], x) \/ Says(tree[3], x)
    [] tree[1] = "size matches" -> Says(tree[2], Len(x))
    [] tree[1] = "contains element matching" -> \E i \in DOMAIN x : Says(tree[2], x[i])

(* The tree of an expression of the program *)
RECURSIVE Meant(_)
Meant(e) ==
  LET leaf == Leaves[e[2]]
      inner == <<"test", leaf.parts[1].does, leaf.parts[1].arg>>
  IN  CASE e[1] = "leaf" /\ leaf.does = "SizeMatches" -> <<"size matches", inner>>
        [] e[1] = "leaf" /\ leaf.does = "ContainsMatching" -> <<"contains element matching", inner>>
        [] e[1] = "leaf" /\ leaf.parts = <<>> -> <<"test", leaf.does, leaf.arg>>
        [] e[1] = "not" -> <<"not", Meant(e[2])>>
        [] e[1] \in {"and", "or"} -> <<e[1], Meant(e[2]), Meant(e[3])>>

(* The tree a reader makes of a description, and the tokens left over      *)
RECURSIVE Understood(_)
Understood(tokens) ==
  LET first == Head(tokens)
      rest == Understood(Tail(tokens))
      RECURSIVE UpToClosing(_)
      UpToClosing(read) ==
        LET next == Understood(Tail(read.rest))
        IN  IF Head(read.rest).word = ")"
            THEN [tree |-> read.tree, rest |-> Tail(read.rest)]
            ELSE UpToClosing([tree |-> <<Head(read.rest).word, read.tree, next.tree>>,
                              rest |-> next.rest])
  IN  CASE first.word = "test" ->
             [tree |-> <<"test", first.does, first.arg>>, rest |-> Tail(tokens)]
        [] first.word = "(" -> UpToClosing(rest)
        [] OTHER -> [tree |-> <<first.word, rest.tree>>, rest |-> rest.rest]

(* "Contains all elements in comparator", but for one that is longer.      *)
TooLong(e, x) ==
  /\ e[1] = "leaf" /\ Leaves[e[2]].does = "Contains"
  /\ Len(Leaves[e[2]].arg) > Len(x)

(* A matcher built of others accepts what its expression means, and its    *)
(* description, read as it stands, means the same.                         *)
ExpressionsMean ==
  job.kind = "match" /\ work.made =>
    LET told == Understood(work.expr.told)
    IN  /\ work.expr.result = (Says(Meant(job.expr), job.x) /\ ~ TooLong(job.expr, job.x))
        /\ told.rest = <<>>
        /\ Says(told.tree, job.x) = Says(Meant(job.expr), job.x)

(* |x - target| is at most the margin; an infinity is near itself only.    *)
Near(x, target, margin, k) ==
  CASE NaN \in {x, target} -> FALSE
    [] NaN \notin {x, target} /\ (IsInf(x) \/ IsInf(target)) -> x = target
    [] OTHER -> LET off == Magnitude(x - target)
                IN  CASE job.how = "abs" -> off <= margin
                      [] job.how = "rel" -> 4 * off <= k * Magnitude(x) \/ 4 * off <= k * Magnitude(target)
                      [] job.how = "approx" -> off <= margin \/ 4 * off <= k * Magnitude(x)

(* With a relative margin of nothing it is not even that: it is multiplied *)
(* by zero, which gives NaN.                                               *)
NumbersNear ==
  job.kind = "near" /\ work.made =>
    LET lost == job.how = "rel" /\ job.k = 0 /\ IsInf(job.x)
    IN  work.result = (Near(job.x, job.target, job.margin, job.k) /\ ~ lost)

(* Of two numbers of one sign, one matches when it is in the range that    *)
(* the description tells.  That range goes on past zero, but of two signs  *)
(* only the zeros match.  NaN matches nothing.                             *)
UlpsAsTold ==
  job.kind = "ulps" /\ work.made =>
    work.result =
      /\ ~ isnan(job.x) /\ ~ isnan(job.target)
      /\ IF job.x.negative = job.target.negative
         THEN Worth(job.x) \in UlpRange(job.target, job.ulps)
         ELSE Worth(job.x) = 0 /\ Worth(job.target) = 0

(***************************************************************************)
(* A check with a matcher passes exactly when the matcher's expression and *)
(* its description say so, and a comparison of numbers when they are as    *)
(* near as the margin allows.  In three cases, and in these alone, it does *)
(* not: Contains refuses a comparator longer than the vector, though all   *)
(* its elements are there (catch.hxx:10103 against 10213); an infinity is  *)
(* not WithinRel of itself when epsilon is zero; and WithinULP does not    *)
(* reach past zero, though the range in its description does.              *)
(***************************************************************************)
MatchesAsMeant == ExpressionsMean /\ NumbersNear /\ UlpsAsTold

=============================================================================
