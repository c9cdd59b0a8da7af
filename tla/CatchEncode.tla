----------------------------- MODULE CatchEncode -----------------------------
(***************************************************************************)
(* Catch's ways of writing a text for a reader that gives some characters  *)
(* a meaning: XmlEncode writes it into XML, escape writes it into a        *)
(* TeamCity message; and the way of CAPTURE to read one, which cuts the    *)
(* text of its arguments into their names.                                 *)
(***************************************************************************)
EXTENDS Integers, Sequences, SequencesExt

(* str.find(what, from): the first place at or after from, or 0 (npos)     *)
Find(str, what, from) ==
  LET at == {i \in from .. Len(str) + 1 - Len(what) : SubSeq(str, i, i + Len(what) - 1) = what}
  IN  IF at = {} THEN 0 ELSE CHOOSE i \in at : \A j \in at : i <= j

-----------------------------------------------------------------------------
(* XmlEncode: bytes 0 .. 255, one turn of its loop at a time: how many     *)
(* bytes of the text it takes and those it writes, which are the same, an  *)
(* entity, or a byte in hexadecimal (hexEscapeChar).                       *)

Turn(takes, writes) == [takes |-> takes, writes |-> writes]

LT == 60
GT == 62
AMP == 38
QUOT == 34
BRACKET == 93

Entities == [c \in {LT, GT, AMP, QUOT} |->
  CASE c = LT   -> <<AMP, 108, 116, 59>>
    [] c = GT   -> <<AMP, 103, 116, 59>>
    [] c = AMP  -> <<AMP, 97, 109, 112, 59>>
    [] c = QUOT -> <<AMP, 113, 117, 111, 116, 59>>]

Digit(d) == IF d < 10 THEN 48 + d ELSE 55 + d
hexEscapeChar(c) == <<92, 120, Digit(c \div 16), Digit(c % 16)>>

(* How many bytes a lead byte announces (trailingBytes), and the bits it   *)
(* carries itself (headerValue)                                            *)
trailingBytes(c) == CASE c \in 192 .. 223 -> 2 [] c \in 224 .. 239 -> 3 [] c \in 240 .. 247 -> 4
headerValue(c) ==
  CASE c \in 192 .. 223 -> c % 32 [] c \in 224 .. 239 -> c % 16 [] c \in 240 .. 247 -> c % 8

Continues(c) == c \in 128 .. 191
Value(bytes) ==
  FoldLeft(LAMBDA value, c : (value * 64) + (c % 64), headerValue(bytes[1]), Tail(bytes))

(* The limit of three bytes is compared with the length of four.           *)
OverlongButThree(value, n) ==
  \/ value < 128
  \/ value \in 128 .. 2047 /\ n > 3
  \/ value \in 2049 .. 65535 /\ n > 3

(* Encodings that are longer than they need to be *)
Overlong(value, n) ==
  \/ value < 128
  \/ value \in 128 .. 2047 /\ n > 2
  \/ value \in 2049 .. 65535 /\ n > 3

(* The bytes from idx that go out together as one character                *)
Sequenced(str, idx) ==
  LET n == trailingBytes(str[idx])
      bytes == SubSeq(str, idx, idx + n - 1)
  IN  IF /\ str[idx] \in 192 .. 247
         /\ idx + n - 1 <= Len(str)
         /\ \A i \in 2 .. n : Continues(bytes[i])
         /\ ~ Overlong(Value(bytes), n)
         /\ Value(bytes) < 1114112
      THEN <<bytes>>
      ELSE <<>>

Control(c) == c < 9 \/ c \in 14 .. 31 \/ c = 127

EndsSection(str, idx) == idx > 3 /\ str[idx - 1] = BRACKET /\ str[idx - 2] = BRACKET

(* What one turn of encodeTo writes, at idx (which counts from 1 here)     *)
Encoded(str, idx, attribute) ==
  LET c == str[idx]
  IN  CASE \/ c \in {LT, AMP}
           \/ c = GT /\ EndsSection(str, idx)
           \/ c = QUOT /\ attribute -> Turn(1, Entities[c])
        [] Control(c) -> Turn(1, hexEscapeChar(c))
        [] c >= 128 /\ Sequenced(str, idx) = <<>> -> Turn(1, hexEscapeChar(c))
        [] c >= 128 /\ Sequenced(str, idx) # <<>> ->
             Turn(trailingBytes(c), Sequenced(str, idx)[1])
        [] OTHER -> Turn(1, <<c>>)

-----------------------------------------------------------------------------
(* TeamCity's escape: one replacement after the other *)

(* replaceInPlace from a place on: the search goes on after what was put   *)
(* in, unless that is the end of the text.                                 *)
RECURSIVE ReplacedFrom(_, _, _, _)
ReplacedFrom(str, this, with, from) ==
  LET i == Find(str, this, from)
      new == SubSeq(str, 1, i - 1) \o with \o SubSeq(str, i + Len(this), Len(str))
  IN  IF i = 0 THEN str
      ELSE IF i - 1 < Len(new) - Len(with)
           THEN ReplacedFrom(new, this, with, i + Len(with))
           ELSE new

replaceInPlace(str, this, with) == ReplacedFrom(str, this, with, 1)

Escapes == << <<"|", <<"|", "|">>>>, <<"'", <<"|", "'">>>>, <<"\n", <<"|", "n">>>>,
              <<"\r", <<"|", "r">>>>, <<"[", <<"|", "[">>>>, <<"]", <<"|", "]">>>> >>

(* One line of escape *)
Escape(str, n) == replaceInPlace(str, <<Escapes[n][1]>>, Escapes[n][2])

-----------------------------------------------------------------------------
(* Capturer: a scan of the text of CAPTURE's arguments, one character at a *)
(* time.  pos is the character the loop looks at next, start where the     *)
(* name being read started (both from 1), openings how many brackets are   *)
(* open and names those read so far.                                       *)

Separates(c) == c \in {",", " "}

(* trimmed(start, end) *)
Trimmed(str, start, end) ==
  LET kept == {i \in start .. end : ~ Separates(str[i])}
  IN  IF kept = {} THEN <<>>
      ELSE SubSeq(str, CHOOSE i \in kept : \A j \in kept : i <= j,
                       CHOOSE i \in kept : \A j \in kept : i >= j)

(* A quote after a backslash taken for the closing one *)
skipqPlain(str, i, quote) ==
  LET at == {j \in i .. Len(str) : str[j] = quote}
  IN  IF at = {} THEN 0 ELSE CHOOSE j \in at : \A k \in at : j <= k

(* The place of the quote that closes the one at start (skipq); 0 where    *)
(* the text has none, and the library gives up                             *)
RECURSIVE skipq(_, _, _)
skipq(str, i, quote) ==
  IF i > Len(str) THEN 0
  ELSE IF str[i] = quote THEN i
  ELSE IF str[i] = "\\" THEN skipq(str, i + 2, quote)
  ELSE skipq(str, i + 1, quote)

Scanning == [pos |-> 1, start |-> 1, openings |-> 0, names |-> <<>>, gaveUp |-> FALSE]

(* One turn of the loop of the constructor *)
Scanned(str, scan) ==
  LET c == str[scan.pos]
      next == [scan EXCEPT !.pos = @ + 1]
  IN  CASE c = "(" -> [next EXCEPT !.openings = @ + 1]
        [] c = ")" -> [next EXCEPT !.openings = @ - 1]
        [] c \in {"'", "\""} ->
             [next EXCEPT !.pos = skipq(str, scan.pos + 1, c) + 1,
                          !.gaveUp = skipq(str, scan.pos + 1, c) = 0]
        [] c = "," /\ scan.start # scan.pos /\ scan.openings = 0 ->
             [next EXCEPT !.names = Append(@, Trimmed(str, scan.start, scan.pos)),
                          !.start = scan.pos]
        [] OTHER -> next

(* The last name, after the loop *)
Names(str, scan) == Append(scan.names, Trimmed(str, scan.start, Len(str)))

=============================================================================
