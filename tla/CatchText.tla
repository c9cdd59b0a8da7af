------------------------------ MODULE CatchText ------------------------------
(***************************************************************************)
(* Catch's TextFlow: the columns in which reporters and listings lay out   *)
(* text of any length.  A Column is a text with a width and an indent (and *)
(* an indent of its own for the first line); its iterator stands at a      *)
(* position of the text and knows how much of it the line there holds.     *)
(* Columns are walked side by side, one row at a time.                     *)
(*                                                                         *)
(* Positions count from 0, as in the code.  Characters are strings of one  *)
(* character; ":" stands for those a line may break after, "[" for those   *)
(* it may break before.                                                    *)
(***************************************************************************)
EXTENDS Integers, Sequences, SequencesExt, FiniteSetsExt

CONSTANT ConsoleWidth   \* CATCH_CONFIG_CONSOLE_WIDTH

(* std::string::npos as an indent *)
NoIndent == -1

Column(text, width, first, rest) ==
  [text |-> text, width |-> width, initialIndent |-> first, indent |-> rest]

Char(text, i) == text[i + 1]
Blanks(n) == [i \in 1 .. n |-> " "]

isWhitespace(c) == c \in {" ", "\n"}

isBoundary(text, at) ==
  \/ at = Len(text)
  \/ isWhitespace(Char(text, at)) /\ ~ isWhitespace(Char(text, at - 1))
  \/ Char(text, at) = "["
  \/ Char(text, at - 1) = ":"

-----------------------------------------------------------------------------
(* One line of a column *)

indent(col, pos) ==
  IF pos = 0 /\ col.initialIndent # NoIndent THEN col.initialIndent ELSE col.indent

(* The end of the line that starts at pos; a line feed at pos itself is    *)
(* part of the line (a blank line told before it).                         *)
LineEnd(text, pos) ==
  LET from == IF Char(text, pos) = "\n" THEN pos + 1 ELSE pos
  IN  Min({i \in from .. Len(text) : i = Len(text) \/ Char(text, i) = "\n"})

(* How much of a line too long for the width is told: up to the last       *)
(* boundary, without the blanks before it.                                 *)
BrokenAt(text, pos, width) ==
  LET boundary == Max({0} \cup {n \in 1 .. width : isBoundary(text, pos + n)})
  IN  Max({0} \cup {n \in 1 .. boundary : ~ isWhitespace(Char(text, pos + n - 1))})

(* What a broken word gives to a line, without room for its hyphen         *)
HyphenatedFull(width) == width

(* and with it                                                             *)
Hyphenated(width) == width - 1

(* An iterator standing at pos, after calcLength *)
calcLength(col, pos) ==
  LET width == col.width - indent(col, pos)
      len == BrokenAt(col.text, pos, width)
  IN  IF Len(col.text) = pos \/ LineEnd(col.text, pos) < pos + width
      THEN [pos |-> pos, suffix |-> FALSE,
            len |-> IF Len(col.text) = pos THEN 0 ELSE LineEnd(col.text, pos) - pos]
      ELSE [pos |-> pos, suffix |-> len = 0, len |-> IF len = 0 THEN Hyphenated(width) ELSE len]

(* Column::begin: a column whose first line is empty is at its end at once *)
Begin(col) ==
  LET it == calcLength(col, 0)
  IN  IF it.len = 0 THEN [it EXCEPT !.pos = Len(col.text)] ELSE it

AtEnd(col, it) == it.pos = Len(col.text)

(* operator*: the indent, the text, and a hyphen where a word is broken    *)
Line(col, it) ==
  Blanks(indent(col, it.pos)) \o SubSeq(col.text, it.pos + 1, it.pos + it.len)
    \o (IF it.suffix THEN <<"-">> ELSE <<>>)

(* Where the line after it starts: past one line feed, or past the blanks  *)
After(col, it) ==
  LET pos == it.pos + it.len
  IN  IF pos < Len(col.text) /\ Char(col.text, pos) = "\n"
      THEN pos + 1
      ELSE Min({i \in pos .. Len(col.text) :
                  i = Len(col.text) \/ ~ isWhitespace(Char(col.text, i))})

Advance(col, it) ==
  IF After(col, it) # Len(col.text)
  THEN calcLength(col, After(col, it))
  ELSE [it EXCEPT !.pos = Len(col.text)]

-----------------------------------------------------------------------------
(* Columns side by side *)

Spacer(width) == Column(<<>>, width, NoIndent, 0)

Begins(cols) == [i \in DOMAIN cols |-> Begin(cols[i])]
AllAtEnd(cols, its) == \A i \in DOMAIN cols : AtEnd(cols[i], its[i])
Advances(cols, its) ==
  [i \in DOMAIN cols |-> IF AtEnd(cols[i], its[i]) THEN its[i] ELSE Advance(cols[i], its[i])]

(* One cell more in a row: the padding of the cells before is written only *)
(* when a cell follows, and a column that is over is padding only.         *)
CellAdded(row, col, it) ==
  IF AtEnd(col, it)
  THEN [row EXCEPT !.padding = @ \o Blanks(col.width)]
  ELSE [text |-> row.text \o row.padding \o Line(col, it),
        padding |-> Blanks(Max({0, col.width - Len(Line(col, it))}))]

Row(cols, its) ==
  FoldLeftDomain(LAMBDA row, i : CellAdded(row, cols[i], its[i]),
                 [text |-> <<>>, padding |-> <<>>], cols).text

-----------------------------------------------------------------------------
(* What is laid out so: every use of a Column in the library *)

Plain(text, rest) == <<Column(text, ConsoleWidth - 1, NoIndent, rest)>>

(* printHeaderString: the lines after the first are indented past ": "     *)
Colon(text) ==
  LET at == {i \in 0 .. Len(text) - 2 : Char(text, i) = ":" /\ Char(text, i + 1) = " "}
  IN  IF at = {} THEN 0 ELSE Min(at) + 2
Header(text, first) == <<Column(text, ConsoleWidth - 1, first, first + Colon(text))>>

ListedReporter(name, description, maxNameLen) ==
  <<Column(name \o <<":">>, 5 + maxNameLen, NoIndent, 2),
    Column(description, ConsoleWidth - maxNameLen - 8, 0, 2)>>
ListedReporterQuietly(name, maxNameLen) == <<Column(name, 5 + maxNameLen, NoIndent, 2)>>

ListedTest(name) == <<Column(name, ConsoleWidth - 1, 2, 4)>>
ListedTestTags(tags) == Plain(tags, 6)
ListedTags(count, tags) == <<Column(tags, ConsoleWidth - 10, 0, Len(count))>>

(* The options of the help text *)
OptWidth(lefts) ==
  Min({ConsoleWidth \div 2, Max({0} \cup {Len(left) + 2 : left \in lefts})})
HelpRow(left, right, lefts) ==
  <<Column(left, OptWidth(lefts), NoIndent, 2),
    Spacer(4),
    Column(right, ConsoleWidth - 7 - OptWidth(lefts), NoIndent, 0)>>

(* The names of the benchmark table, and the name of one benchmark *)
TableHeadings(infos) ==
  FlattenSeq([i \in DOMAIN infos |->
                <<Column(infos[i].name, infos[i].width - 2, NoIndent, 0), Spacer(2)>>])
BenchmarkName(name, width) == <<Column(name, width - 2, NoIndent, 0)>>

=============================================================================
