--------------------------- MODULE ReadersProofs ---------------------------
(***************************************************************************)
(* What is proved of the readers, for every input, every capacity that a   *)
(* block starts with, every set of characters and every failure of the     *)
(* stream or the allocator: their invariant, and that fread_line           *)
(* implements LineSource.                                                  *)
(***************************************************************************)
EXTENDS ReadersImplement, SequenceTheorems, TLAPS

Working == {"line", "all", "read"}

FileOK(f) == f \in [rest : Seq(Char), eof : BOOLEAN, err : BOOLEAN]

TypeOK ==
  /\ use \in {"lines", "all"}
  /\ input \in Seq(Char)
  /\ FileOK(file)
  /\ at \in Working \cup {"idle", "exited"}
  /\ c \in Char \cup {EOF}
  /\ buf \in [cap : Nat, data : Seq(Char)]
  /\ held \in Nat
  /\ fd \in {"open", "stream", "closed"}

(* Each reader is where its own loop may be, and the end of a stream is    *)
(* only seen when nothing is left in it.                                   *)
InPlace ==
  /\ at \in {"line", "exited"} => use = "lines"
  /\ at \in {"all", "read"} => use = "all"
  /\ file.eof => file.rest = <<>>

(* The characters that fdread_all has read and those left in the stream    *)
(* are the input: no refused growth and no failed read loses one.          *)
InputKept ==
  /\ at \in {"all", "read"} => buf.data \o file.rest = input
  /\ use = "all" /\ at = "idle" /\ fd = "open" => file.rest = input

IInv ==
  /\ TypeOK
  /\ InPlace
  /\ InputKept
  /\ RoomForNext
  /\ NothingLeaks
  /\ AllOrNothing

-----------------------------------------------------------------------------
(* A sequence cut after its k-th element is its two parts.                 *)
LEMMA CutInTwo ==
  ASSUME NEW S, NEW d \in Seq(S), NEW r \in Seq(S), NEW k \in 0 .. Len(r)
  PROVE  /\ SubSeq(r, 1, k) \in Seq(S)
         /\ SubSeq(r, k + 1, Len(r)) \in Seq(S)
         /\ SubSeq(r, 1, k) \o SubSeq(r, k + 1, Len(r)) = r
         /\ Len(d \o SubSeq(r, 1, k)) = Len(d) + k
<1> DEFINE a == SubSeq(r, 1, k)
           b == SubSeq(r, k + 1, Len(r))
<1>1. a \in Seq(S) /\ Len(a) = k
  <2>1. \A i \in 1 .. k : r[i] \in S
    BY ElementOfSeq
  <2> QED
    BY <2>1, SubSeqProperties
<1>2. b \in Seq(S)
  <2>1. \A i \in k + 1 .. Len(r) : r[i] \in S
    BY ElementOfSeq
  <2>2. k + 1 \in Int /\ Len(r) \in Int
    OBVIOUS
  <2> QED
    BY <2>1, <2>2, SubSeqProperties
<1>3. a \o b = r
  <2>1. 1 \in 1 .. Len(r) + 1 /\ k \in 1 - 1 .. Len(r) /\ Len(r) \in k .. Len(r)
    OBVIOUS
  <2> HIDE DEF a, b
  <2>2. SubSeq(r, 1, k) \o SubSeq(r, k + 1, Len(r)) = SubSeq(r, 1, Len(r))
    BY <2>1, ConcatAdjacentSubSeq
  <2> QED
    BY <2>2, SubSeqFull DEF a, b
<1> HIDE DEF a, b
<1>4. Len(d \o a) = Len(d) + k
  BY <1>1, ConcatProperties
<1> QED
  BY <1>1, <1>2, <1>3, <1>4 DEF a, b

(* getc returns a character or EOF, and a stream; EOF is remembered when   *)
(* nothing is left.                                                        *)
LEMMA GetcReads ==
  ASSUME NEW f, FileOK(f), f.eof => f.rest = <<>>, NEW g \in getc(f)
  PROVE  /\ g[1] \in Char \cup {EOF}
         /\ FileOK(g[2])
         /\ g[2].eof => g[2].rest = <<>>
<1> DEFINE Broken == [f EXCEPT !.err = TRUE]
           Over   == [f EXCEPT !.eof = TRUE]
           Rest   == [f EXCEPT !.rest = Tail(@)]
<1>1. CASE f.eof
  BY <1>1 DEF getc, FileOK
<1>2. CASE ~ f.eof /\ f.rest = <<>>
  <2>1. g[1] = EOF /\ g[2] \in {Broken, Over}
    BY <1>2 DEF getc
  <2>2. /\ FileOK(Broken) /\ Broken.eof = FALSE
        /\ FileOK(Over) /\ Over.rest = <<>>
    BY <1>2 DEF FileOK
  <2> QED
    BY <2>1, <2>2
<1>3. CASE ~ f.eof /\ f.rest # <<>>
  <2>1. Head(f.rest) \in Char /\ Tail(f.rest) \in Seq(Char)
    BY <1>3, HeadTailProperties DEF FileOK
  <2>2. \/ g[1] = EOF /\ g[2] = Broken
        \/ g[1] = Head(f.rest) /\ g[2] = Rest
    <3>1. getc(f) = {<<EOF, Broken>>, <<Head(f.rest), Rest>>}
      BY <1>3, Zenon DEF getc
    <3> HIDE DEF Broken, Rest
    <3> QED
      BY <3>1
  <2>3. /\ FileOK(Broken) /\ Broken.eof = FALSE
        /\ FileOK(Rest) /\ Rest.eof = FALSE
    BY <1>3, <2>1 DEF FileOK
  <2> HIDE DEF Broken, Rest
  <2> QED
    BY <2>1, <2>2, <2>3
<1> QED
  BY <1>1, <1>2, <1>3

(* fread takes k characters, no more than it was asked for and no more     *)
(* than there are, from the front of the stream.                           *)
LEMMA FreadTakes ==
  ASSUME NEW f, FileOK(f), f.eof => f.rest = <<>>,
         NEW n \in Nat \ {0}, NEW g \in fread(f, n)
  PROVE  /\ g[1] \in 0 .. n
         /\ g[1] <= Len(f.rest)
         /\ FileOK(g[2])
         /\ g[2].rest = SubSeq(f.rest, g[1] + 1, Len(f.rest))
         /\ g[2].eof => g[2].rest = <<>>
<1> DEFINE left           == Len(f.rest)
           After(k, e, b) == <<k, [rest |-> SubSeq(f.rest, k + 1, left), eof |-> e, err |-> b]>>
<1>1. f.rest \in Seq(Char) /\ left \in Nat /\ f.eof \in BOOLEAN /\ f.err \in BOOLEAN
  BY LenProperties DEF FileOK
<1>2. CASE f.eof
  <2>1. g[1] = 0 /\ g[2] = f
    BY <1>2 DEF fread
  <2>2. f.rest = SubSeq(f.rest, 0 + 1, Len(f.rest))
    BY <1>1, SubSeqFull
  <2> QED
    BY <1>1, <1>2, <2>1, <2>2
<1>3. CASE ~ f.eof
  <2>1. ASSUME NEW k \in 0 .. left
        PROVE  /\ SubSeq(f.rest, k + 1, left) \in Seq(Char)
               /\ k = left => SubSeq(f.rest, k + 1, left) = <<>>
    BY <1>1, CutInTwo, SubSeqEmpty
  <2>2. \/ \E k \in 0 .. (IF n > left THEN left ELSE n - 1) : g = After(k, FALSE, TRUE)
        \/ left < n /\ g = After(left, TRUE, f.err)
        \/ ~ (left < n) /\ g = After(n, FALSE, f.err)
    BY <1>3 DEF fread
  <2>3. CASE \E k \in 0 .. (IF n > left THEN left ELSE n - 1) : g = After(k, FALSE, TRUE)
    <3>1. PICK k \in 0 .. (IF n > left THEN left ELSE n - 1) : g = After(k, FALSE, TRUE)
      BY <2>3
    <3>2. k \in 0 .. left /\ k <= n
      BY <1>1
    <3>3. SubSeq(f.rest, k + 1, left) \in Seq(Char)
      BY <2>1, <3>2
    <3>4. /\ g[1] = k
          /\ g[2] = [rest |-> SubSeq(f.rest, k + 1, left), eof |-> FALSE, err |-> TRUE]
      BY <3>1
    <3> QED
      BY <1>1, <3>2, <3>3, <3>4 DEF FileOK
  <2>4. CASE left < n /\ g = After(left, TRUE, f.err)
    <3>1. left \in 0 .. left
      BY <1>1
    <3>2. SubSeq(f.rest, left + 1, left) \in Seq(Char) /\ SubSeq(f.rest, left + 1, left) = <<>>
      BY <2>1, <3>1
    <3>3. /\ g[1] = left
          /\ g[2] = [rest |-> SubSeq(f.rest, left + 1, left), eof |-> TRUE, err |-> f.err]
      BY <2>4
    <3> QED
      BY <1>1, <2>4, <3>2, <3>3 DEF FileOK
  <2>5. CASE ~ (left < n) /\ g = After(n, FALSE, f.err)
    <3>1. n \in 0 .. left
      BY <1>1, <2>5
    <3>2. SubSeq(f.rest, n + 1, left) \in Seq(Char)
      BY <2>1, <3>1
    <3>3. /\ g[1] = n
          /\ g[2] = [rest |-> SubSeq(f.rest, n + 1, left), eof |-> FALSE, err |-> f.err]
      BY <2>5
    <3> QED
      BY <1>1, <3>1, <3>2, <3>3 DEF FileOK
  <2> QED
    BY <2>2, <2>3, <2>4, <2>5
<1> QED
  BY <1>2, <1>3

(* One more character is one more to the length.                           *)
LEMMA OneMore ==
  ASSUME NEW S, NEW d \in Seq(S), NEW x \in S
  PROVE  Append(d, x) \in Seq(S) /\ Len(Append(d, x)) = Len(d) + 1
  BY AppendProperties

(* bfread(1) puts what it takes from the stream behind what it has, and    *)
(* keeps a character free, whether the buffer was grown or not.            *)
LEMMA BfreadKeeps ==
  ASSUME IInv, at = "all", NEW r \in bfread(1)
  PROVE  /\ r[2].eof => r[2].rest = <<>>
         /\ FileOK(r[2])
         /\ r[3] \in [cap : Nat, data : Seq(Char)]
         /\ Len(r[3].data) < r[3].cap
         /\ r[3].data \o r[2].rest = input
<1> DEFINE Into(b) == {<<g[1], g[2], [b EXCEPT !.data = @ \o SubSeq(file.rest, 1, g[1])]>> :
                         g \in fread(file, b.cap - (fill + 1))}
           bigger  == [buf EXCEPT !.cap = 2 * @]
<1>1. /\ FileOK(file) /\ file.rest \in Seq(Char)
      /\ file.eof => file.rest = <<>>
      /\ buf \in [cap : Nat, data : Seq(Char)]
      /\ buf.cap \in Nat /\ buf.data \in Seq(Char) /\ fill \in Nat
      /\ fill < buf.cap
      /\ buf.data \o file.rest = input
  BY DEF IInv, TypeOK, InPlace, InputKept, RoomForNext, FileOK, fill
<1>2. ASSUME NEW b \in [cap : Nat, data : Seq(Char)], b.data = buf.data,
             fill + 1 < b.cap, r \in Into(b)
      PROVE  /\ r[2].eof => r[2].rest = <<>>
             /\ FileOK(r[2])
             /\ r[3] \in [cap : Nat, data : Seq(Char)]
             /\ Len(r[3].data) < r[3].cap
             /\ r[3].data \o r[2].rest = input
  <2>1. PICK g \in fread(file, b.cap - (fill + 1)) :
          r = <<g[1], g[2], [b EXCEPT !.data = @ \o SubSeq(file.rest, 1, g[1])]>>
    BY <1>2
  <2>2. b.cap \in Nat /\ b.cap - (fill + 1) \in Nat \ {0}
    BY <1>1, <1>2
  <2>3. /\ g[1] \in 0 .. b.cap - (fill + 1)
        /\ g[1] <= Len(file.rest)
        /\ FileOK(g[2])
        /\ g[2].rest = SubSeq(file.rest, g[1] + 1, Len(file.rest))
        /\ g[2].eof => g[2].rest = <<>>
    BY <1>1, <2>2, FreadTakes
  <2>4. g[1] \in 0 .. Len(file.rest)
    BY <1>1, <2>2, <2>3
  <2>5. /\ SubSeq(file.rest, 1, g[1]) \in Seq(Char)
        /\ Len(buf.data \o SubSeq(file.rest, 1, g[1])) = fill + g[1]
        /\ (buf.data \o SubSeq(file.rest, 1, g[1]))
             \o SubSeq(file.rest, g[1] + 1, Len(file.rest)) = buf.data \o file.rest
    <3> DEFINE d == buf.data
               s == file.rest
               k == g[1]
    <3>1. d \in Seq(Char) /\ s \in Seq(Char) /\ k \in 0 .. Len(s)
      BY <1>1, <2>4
    <3> HIDE DEF d, s, k
    <3>2. /\ SubSeq(s, 1, k) \in Seq(Char)
          /\ Len(d \o SubSeq(s, 1, k)) = Len(d) + k
          /\ (d \o SubSeq(s, 1, k)) \o SubSeq(s, k + 1, Len(s)) = d \o s
      <4>1. SubSeq(s, 1, k) \in Seq(Char)
        BY <3>1, CutInTwo
      <4>2. Len(d \o SubSeq(s, 1, k)) = Len(d) + k
        BY <3>1, CutInTwo
      <4>3. (d \o SubSeq(s, 1, k)) \o SubSeq(s, k + 1, Len(s)) = d \o s
        <5> DEFINE front == SubSeq(s, 1, k)
                   back == SubSeq(s, k + 1, Len(s))
        <5>1. d \in Seq(Char) /\ front \in Seq(Char) /\ back \in Seq(Char)
          BY <3>1, CutInTwo
        <5>2. front \o back = s
          BY <3>1, CutInTwo
        <5> HIDE DEF front, back
        <5>3. (d \o front) \o back = d \o (front \o back)
          BY <5>1, ConcatAssociative
        <5>4. (d \o front) \o back = d \o s
          BY <5>2, <5>3, Zenon
        <5> QED
          BY <5>4 DEF front, back
      <4> QED
        BY <4>1, <4>2, <4>3
    <3> QED
      BY <3>2, Zenon DEF d, s, k, fill
  <2>6. buf.data \o SubSeq(file.rest, 1, g[1]) \in Seq(Char)
    BY <1>1, <2>5
  <2>7. r[2] = g[2] /\ r[3].cap = b.cap
        /\ r[3].data = buf.data \o SubSeq(file.rest, 1, g[1])
        /\ r[3] \in [cap : Nat, data : Seq(Char)]
    BY <1>2, <2>1, <2>6
  <2>8. fill + g[1] < b.cap
    BY <1>1, <2>2, <2>3
  <2> QED
    BY <1>1, <2>3, <2>5, <2>7, <2>8
<1>3. CASE fill + 1 >= buf.cap
  <2>1. CASE r = <<0, file, buf>>
    BY <1>1, <2>1 DEF fill
  <2>2. CASE r \in Into(bigger)
    <3>1. bigger \in [cap : Nat, data : Seq(Char)] /\ bigger.data = buf.data
          /\ bigger.cap = 2 * buf.cap
      BY <1>1
    <3>2. fill + 1 < bigger.cap
      BY <1>1, <1>3, <3>1
    <3> HIDE DEF bigger, Into
    <3> QED
      BY <1>2, <2>2, <3>1, <3>2
  <2> QED
    BY <1>3, <2>1, <2>2 DEF bfread
<1>4. CASE ~ (fill + 1 >= buf.cap)
  <2>1. r \in Into(buf)
    BY <1>4 DEF bfread
  <2>2. fill + 1 < buf.cap
    BY <1>1, <1>4
  <2> HIDE DEF Into
  <2> QED
    BY <1>1, <1>2, <2>1, <2>2
<1> QED
  BY <1>3, <1>4

-----------------------------------------------------------------------------
(* The invariant holds at first.                                           *)
LEMMA InitHolds == Init => IInv
<1> SUFFICES ASSUME Init PROVE IInv
  OBVIOUS
<1>1. input \in Seq(Char)
  <2>1. PICK n \in 0 .. MaxInput : input \in [1 .. n -> Char]
    BY DEF Init
  <2> QED
    BY <2>1, ReadersAssumption
<1>2. buf = [cap |-> 0, data |-> <<>>] /\ buf \in [cap : Nat, data : Seq(Char)]
  BY DEF Init, NoBlock
<1>3. FileOK(file)
  BY <1>1 DEF Init, FileOK
<1> QED
  BY <1>1, <1>2, <1>3
  DEF Init, IInv, TypeOK, Working, InPlace, InputKept, RoomForNext, NothingLeaks, AllOrNothing

(* A line is begun: its block has room for the first character.            *)
LEMMA CallHolds == IInv /\ Call => IInv'
<1> SUFFICES ASSUME IInv, Call PROVE IInv'
  OBVIOUS
<1>1. PICK g \in IF file.eof THEN {<<EOF, file>>} ELSE getc(file) :
        /\ c' = g[1]
        /\ file' = g[2]
        /\ IF g[1] = EOF
           THEN Answers(Null) /\ UNCHANGED <<buf, held>>
           ELSE \/ Exits /\ buf' = NoBlock
                \/ /\ at' = "line" /\ buf' = Block(LineCap) /\ held' = held + 1
                   /\ UNCHANGED reply
  BY DEF Call
<1>2. c' \in Char \cup {EOF} /\ FileOK(file') /\ (file'.eof => file'.rest = <<>>)
  BY <1>1, GetcReads DEF IInv, TypeOK, InPlace
<1>3. use = "lines" /\ at = "idle" /\ UNCHANGED <<use, input, fd>>
  BY DEF Call
<1>4. NoBlock \in [cap : Nat, data : Seq(Char)] /\ Block(LineCap) \in [cap : Nat, data : Seq(Char)]
      /\ Len(Block(LineCap).data) < Block(LineCap).cap
  BY ReadersAssumption DEF NoBlock, Block
<1>5. \/ at' = "idle" /\ UNCHANGED <<buf, held>>
      \/ at' = "exited" /\ buf' = NoBlock /\ held' = 0
      \/ at' = "line" /\ buf' = Block(LineCap) /\ held' = held + 1
  BY <1>1 DEF Answers, Exits
<1> HIDE DEF NoBlock, Block
<1>6. TypeOK' /\ InPlace'
  BY <1>2, <1>3, <1>4, <1>5 DEF IInv, TypeOK, Working, InPlace, NothingLeaks
<1>7. InputKept' /\ AllOrNothing'
  BY <1>3, <1>5 DEF InputKept, AllOrNothing
<1>8. RoomForNext'
  BY <1>3, <1>4, <1>5 DEF RoomForNext, fill
<1>9. NothingLeaks'
  BY <1>3, <1>5 DEF IInv, NothingLeaks
<1> QED
  BY <1>6, <1>7, <1>8, <1>9 DEF IInv

(* A turn of fread_line's loop.  A block that is not Full has room for one *)
(* more, and one that is doubled has.                                      *)
LEMMA TurnHolds == IInv /\ Turn => IInv'
<1> SUFFICES ASSUME IInv, Turn PROVE IInv'
  OBVIOUS
<1>1. /\ at = "line" /\ use = "lines" /\ held = 1 /\ fill < buf.cap
      /\ buf \in [cap : Nat, data : Seq(Char)] /\ c \in Char \cup {EOF}
      /\ UNCHANGED <<use, input, fd>>
  BY DEF IInv, TypeOK, InPlace, RoomForNext, NothingLeaks, Turn
<1>2. CASE EndsLine(c)
  <2>1. at' = "idle" /\ held' = 0 /\ UNCHANGED <<file, c, buf>>
    BY <1>1, <1>2 DEF Turn, Answers
  <2> QED
    BY <1>1, <2>1
    DEF IInv, TypeOK, Working, InPlace, InputKept, RoomForNext, NothingLeaks, AllOrNothing
<1>3. CASE ~ EndsLine(c)
  <2> DEFINE data == Append(buf.data, c)
  <2>1. data \in Seq(Char) /\ Len(data) = fill + 1
    <3>1. buf.data \in Seq(Char) /\ c \in Char
      BY <1>1, <1>3 DEF EndsLine
    <3> QED
      BY <3>1, OneMore DEF fill
  <2>2. PICK g \in getc(file) :
          /\ c' = g[1]
          /\ file' = g[2]
          /\ IF ~ Full(Len(data), buf.cap)
             THEN buf' = [buf EXCEPT !.data = data] /\ UNCHANGED <<at, held, reply>>
             ELSE \/ Exits /\ buf' = [buf EXCEPT !.data = data]
                  \/ /\ buf' = [cap |-> 2 * buf.cap, data |-> data]
                     /\ UNCHANGED <<at, held, reply>>
    BY <1>3 DEF Turn
  <2>3. c' \in Char \cup {EOF} /\ FileOK(file') /\ (file'.eof => file'.rest = <<>>)
    BY <2>2, GetcReads DEF IInv, TypeOK, InPlace
  <2> HIDE DEF data
  <2>4. /\ buf' \in [cap : Nat, data : Seq(Char)]
        /\ \/ at' = "line" /\ held' = 1 /\ Len(buf'.data) < buf'.cap
           \/ at' = "exited" /\ held' = 0
    <3>1. buf.cap \in Nat /\ fill \in Nat
      BY <1>1, LenProperties DEF fill
    <3>2. CASE ~ Full(Len(data), buf.cap)
      BY <1>1, <2>1, <2>2, <3>1, <3>2 DEF Full
    <3>3. CASE Full(Len(data), buf.cap)
      BY <1>1, <2>1, <2>2, <3>1, <3>3 DEF Full, Exits
    <3> QED
      BY <3>2, <3>3
  <2> QED
    BY <1>1, <2>3, <2>4
    DEF IInv, TypeOK, Working, InPlace, InputKept, RoomForNext, NothingLeaks, AllOrNothing, fill
<1> QED
  BY <1>2, <1>3

(* fdread_all has its block and its stream, or neither.                    *)
LEMMA OpenHolds == IInv /\ Open => IInv'
<1> SUFFICES ASSUME IInv, Open PROVE IInv'
  OBVIOUS
<1>1. /\ use = "all" /\ at = "idle" /\ fd = "open" /\ held = 0
      /\ file.rest = input /\ input \in Seq(Char)
      /\ UNCHANGED <<use, input, file, c>>
  BY DEF IInv, TypeOK, InputKept, NothingLeaks, Open
<1>2. /\ Block(AllCap) \in [cap : Nat, data : Seq(Char)]
      /\ Len(Block(AllCap).data) < Block(AllCap).cap
      /\ Block(AllCap).data \o file.rest = input
  <2>1. Block(AllCap).data = <<>> /\ Block(AllCap) \in [cap : Nat, data : Seq(Char)]
        /\ Block(AllCap).cap > 0
    BY ReadersAssumption DEF Block
  <2> QED
    BY <1>1, <2>1, ConcatEmptySeq, EmptySeq
<1>3. \/ at' = "idle" /\ reply' = Null /\ fd' = "closed" /\ UNCHANGED <<buf, held>>
      \/ at' = "all" /\ fd' = "stream" /\ buf' = Block(AllCap) /\ held' = held + 1
         /\ UNCHANGED reply
  BY DEF Open, Answers
<1> HIDE DEF Block
<1>4. TypeOK' /\ InPlace'
  BY <1>1, <1>2, <1>3 DEF IInv, TypeOK, Working, InPlace
<1>5. InputKept' /\ AllOrNothing'
  BY <1>1, <1>2, <1>3 DEF IInv, InputKept, AllOrNothing
<1>6. RoomForNext'
  BY <1>2, <1>3 DEF RoomForNext, fill
<1>7. NothingLeaks'
  BY <1>1, <1>3 DEF NothingLeaks
<1> QED
  BY <1>4, <1>5, <1>6, <1>7 DEF IInv

(* A turn of fdread_all's loop.                                            *)
LEMMA FillHolds == IInv /\ Fill => IInv'
<1> SUFFICES ASSUME IInv, Fill PROVE IInv'
  OBVIOUS
<1>1. /\ at = "all" /\ use = "all" /\ UNCHANGED <<use, input, c, held, fd, reply>>
      /\ at' \in {"all", "read"}
  BY DEF IInv, InPlace, Fill
<1>2. PICK r \in bfread(1) : file' = r[2] /\ buf' = r[3]
  BY DEF Fill
<1>3. /\ file'.eof => file'.rest = <<>>
      /\ FileOK(file')
      /\ buf' \in [cap : Nat, data : Seq(Char)]
      /\ Len(buf'.data) < buf'.cap
      /\ buf'.data \o file'.rest = input
  BY <1>1, <1>2, BfreadKeeps
<1> QED
  BY <1>1, <1>3
  DEF IInv, TypeOK, Working, InPlace, InputKept, RoomForNext, NothingLeaks, AllOrNothing, fill

(* At the end of the file the block holds the whole input.                 *)
LEMMA CloseHolds == IInv /\ Close => IInv'
<1> SUFFICES ASSUME IInv, Close PROVE IInv'
  OBVIOUS
<1>1. /\ at = "read" /\ use = "all" /\ held = 1
      /\ at' = "idle" /\ held' = 0 /\ fd' = "closed"
      /\ reply' = IF ReachedEnd(file) THEN buf.data ELSE Null
      /\ UNCHANGED <<use, input, file, c, buf>>
  BY DEF IInv, InPlace, NothingLeaks, Close, Answers
<1>2. ReachedEnd(file) => buf.data = input
  <2>1. ReachedEnd(file) => buf.data \o <<>> = input
    BY <1>1 DEF IInv, InPlace, InputKept, ReachedEnd
  <2>2. buf.data \in Seq(Char)
    BY DEF IInv, TypeOK
  <2> QED
    BY <2>1, <2>2, ConcatEmptySeq
<1> QED
  BY <1>1, <1>2
  DEF IInv, TypeOK, Working, InPlace, InputKept, RoomForNext, NothingLeaks, AllOrNothing, fill

(* A stutter.                                                              *)
LEMMA StutterHolds == IInv /\ UNCHANGED vars => IInv'
  BY DEF vars, IInv, TypeOK, InPlace, InputKept, RoomForNext, NothingLeaks, AllOrNothing, fill

(***************************************************************************)
(* The inductive invariant holds in every state.                           *)
(***************************************************************************)
THEOREM Invariance == Spec => []IInv
<1>1. Init => IInv
  BY InitHolds
<1>2. IInv /\ [Next]_vars => IInv'
  BY CallHolds, TurnHolds, OpenHolds, FillHolds, CloseHolds, StutterHolds DEF Next, Reads
<1> QED
  BY <1>1, <1>2, PTL DEF Spec

(***************************************************************************)
(* Neither reader writes past its block, whatever the capacity it starts   *)
(* with (read_line.inc line 44, buffer.h line 39).                         *)
(***************************************************************************)
THEOREM NeverPastTheBlock == Spec => []RoomForNext
<1>1. IInv => RoomForNext
  BY DEF IInv
<1> QED
  BY <1>1, Invariance, PTL

(***************************************************************************)
(* A reader's block is freed or handed over exactly once, and fdread_all's *)
(* descriptor is closed, on every way out.                                 *)
(***************************************************************************)
THEOREM NeverLeaks == Spec => []NothingLeaks
<1>1. IInv => NothingLeaks
  BY DEF IInv
<1> QED
  BY <1>1, Invariance, PTL

(***************************************************************************)
(* fdread_all never answers with a part of a file.                         *)
(***************************************************************************)
THEOREM NeverInPart == Spec => []AllOrNothing
<1>1. IInv => AllOrNothing
  BY DEF IInv
<1> QED
  BY <1>1, Invariance, PTL

-----------------------------------------------------------------------------
(***************************************************************************)
(* fread_line implements LineSource.                                       *)
(***************************************************************************)
(* The block of a line that is being read holds no newline; if the last    *)
(* character was none, the block holds some, and either the stream failed  *)
(* or nothing is left in it.                                               *)
LineInv ==
  at = "line" =>
    /\ \A i \in 1 .. Len(buf.data) : buf.data[i] # NL
    /\ c = EOF => buf.data # <<>> /\ (file.err \/ file.rest = <<>>)

-----------------------------------------------------------------------------
(* Two texts in a row, taken apart again.                                  *)
LEMMA TakenApart ==
  ASSUME NEW S, NEW d \in Seq(S), NEW r \in Seq(S)
  PROVE  /\ d \o r \in Seq(S)
         /\ Len(d \o r) = Len(d) + Len(r)
         /\ \A i \in 1 .. Len(d) : (d \o r)[i] = d[i]
         /\ SubSeq(d \o r, 1, Len(d)) = d
         /\ SubSeq(d \o r, Len(d) + 1, Len(d \o r)) = r
<1>1. /\ d \o r \in Seq(S)
      /\ Len(d \o r) = Len(d) + Len(r)
      /\ \A i \in 1 .. Len(d) + Len(r) :
            (d \o r)[i] = IF i <= Len(d) THEN d[i] ELSE r[i - Len(d)]
  BY ConcatProperties
<1>2. Len(d) \in Nat /\ Len(r) \in Nat
  BY LenProperties
<1>3. \A i \in 1 .. Len(d) : (d \o r)[i] = d[i]
  BY <1>1, <1>2
<1>4. SubSeq(d \o r, 1, Len(d)) = d
  <2>1. CASE Len(d) = 0
    <3>1. d = <<>>
      BY <2>1, EmptySeq
    <3>2. SubSeq(d \o r, 1, 0) = <<>>
      BY SubSeqEmpty
    <3> QED
      BY <2>1, <3>1, <3>2
  <2>2. CASE Len(d) # 0
    <3>1. 1 \in 1 .. Len(d) /\ Len(d) \in 1 .. Len(d)
      BY <1>2, <2>2
    <3>2. SubSeq(d \o r, 1, Len(d)) = SubSeq(d, 1, Len(d))
      BY <3>1, SubSeqOfConcat1
    <3> QED
      BY <3>2, SubSeqFull
  <2> QED
    BY <2>1, <2>2
<1>5. SubSeq(d \o r, Len(d) + 1, Len(d \o r)) = r
  <2>1. CASE Len(r) = 0
    <3>1. r = <<>>
      BY <2>1, EmptySeq
    <3>2. SubSeq(d \o r, Len(d) + 1, Len(d)) = <<>>
      BY <1>2, SubSeqEmpty
    <3>3. Len(d \o r) = Len(d)
      BY <1>1, <1>2, <2>1
    <3> QED
      BY <3>1, <3>2, <3>3, Zenon
  <2>2. CASE Len(r) # 0
    <3>1. /\ Len(d) + 1 \in Len(d) + 1 .. Len(d) + Len(r)
          /\ Len(d) + Len(r) \in Len(d) + 1 .. Len(d) + Len(r)
      BY <1>2, <2>2
    <3>2. SubSeq(d \o r, Len(d) + 1, Len(d) + Len(r))
            = SubSeq(r, Len(d) + 1 - Len(d), Len(d) + Len(r) - Len(d))
      BY <3>1, SubSeqOfConcat2
    <3>3. Len(d) + 1 - Len(d) = 1 /\ Len(d) + Len(r) - Len(d) = Len(r)
      BY <1>2
    <3>4. SubSeq(d \o r, Len(d) + 1, Len(d \o r)) = SubSeq(r, 1, Len(r))
      BY <1>1, <3>2, <3>3
    <3> QED
      BY <3>4, SubSeqFull
  <2> QED
    BY <2>1, <2>2
<1> QED
  BY <1>1, <1>3, <1>4, <1>5

(* A character moves from what is left to what was read.                   *)
LEMMA CharacterMoves ==
  ASSUME NEW S, NEW d \in Seq(S), NEW x \in S, NEW r \in Seq(S),
         NEW one, one = <<x>>, NEW e, e = Append(d, x)
  PROVE  e \o r = d \o (one \o r)
<1>1. one \in Seq(S)
  OBVIOUS
<1>2. e = d \o one
  BY AppendIsConcat
<1>3. (d \o one) \o r = d \o (one \o r)
  BY <1>1, ConcatAssociative
<1> QED
  BY <1>2, <1>3, Zenon

(* getc loses nothing: what it read and what it left is what was there; a  *)
(* failure is remembered; and EOF has one of its two reasons.              *)
LEMMA GetcLosesNothing ==
  ASSUME NEW f, FileOK(f), f.eof => f.rest = <<>>, NEW g \in getc(f)
  PROVE  /\ AsText(g[1]) \o g[2].rest = f.rest
         /\ f.err => g[2].err
         /\ g[1] = EOF => g[2].rest = f.rest /\ (g[2].err \/ f.rest = <<>>)
<1> DEFINE Broken == [f EXCEPT !.err = TRUE]
           Over   == [f EXCEPT !.eof = TRUE]
           Rest   == [f EXCEPT !.rest = Tail(@)]
<1>0. f.rest \in Seq(Char) /\ f.err \in BOOLEAN
  BY DEF FileOK
<1>1. <<>> \o f.rest = f.rest
  BY <1>0, ConcatEmptySeq
<1>2. /\ Broken.rest = f.rest /\ Broken.err = TRUE
      /\ Over.rest = f.rest /\ Over.err = f.err
      /\ Rest.rest = Tail(f.rest) /\ Rest.err = f.err
  BY DEF FileOK
<1>3. CASE f.eof
  BY <1>0, <1>1, <1>3 DEF getc, AsText
<1>4. CASE ~ f.eof /\ f.rest = <<>>
  <2>1. getc(f) = {<<EOF, Broken>>, <<EOF, Over>>}
    BY <1>4, Zenon DEF getc
  <2> HIDE DEF Broken, Over
  <2>2. g[1] = EOF /\ g[2] \in {Broken, Over}
    BY <2>1
  <2>3. AsText(g[1]) = <<>>
    BY <2>2 DEF AsText
  <2>4. g[2].rest = f.rest /\ (f.err => g[2].err)
    BY <1>2, <2>2
  <2> QED
    BY <1>1, <1>4, <2>3, <2>4, Zenon
<1>5. CASE ~ f.eof /\ f.rest # <<>>
  <2>1. getc(f) = {<<EOF, Broken>>, <<Head(f.rest), Rest>>}
    BY <1>5, Zenon DEF getc
  <2> HIDE DEF Broken, Rest
  <2>2. \/ g[1] = EOF /\ g[2] = Broken
        \/ g[1] = Head(f.rest) /\ g[2] = Rest
    BY <2>1
  <2>3. CASE g[1] = EOF /\ g[2] = Broken
    <3>1. AsText(g[1]) = <<>>
      BY <2>3 DEF AsText
    <3> QED
      BY <1>1, <1>2, <2>3, <3>1, Zenon
  <2>4. CASE g[1] = Head(f.rest) /\ g[2] = Rest
    <3>1. Head(f.rest) \in Char /\ Tail(f.rest) \in Seq(Char)
      BY <1>0, <1>5, HeadTailProperties
    <3>2. g[1] # EOF /\ AsText(g[1]) = <<Head(f.rest)>>
      BY <2>4, <3>1, ReadersAssumption DEF AsText
    <3>3. <<Head(f.rest)>> \o Tail(f.rest) = f.rest
      <4>1. Len(f.rest) \in Nat \ {0}
        BY <1>0, <1>5, EmptySeq
      <4>2. 1 \in 1 .. Len(f.rest) /\ Len(f.rest) \in 1 .. Len(f.rest)
        BY <4>1
      <4>3. SubSeq(f.rest, 1, Len(f.rest)) = <<f.rest[1]>> \o SubSeq(f.rest, 1 + 1, Len(f.rest))
        BY <1>0, <4>2, SubSeqRecursiveFirst
      <4>4. Tail(f.rest) = SubSeq(f.rest, 2, Len(f.rest))
        BY <1>0, <1>5, TailIsSubSeq
      <4>5. Head(f.rest) = f.rest[1] /\ 1 + 1 = 2
        BY <1>0, <1>5
      <4>6. SubSeq(f.rest, 1, Len(f.rest)) = f.rest
        BY <1>0, SubSeqFull
      <4> QED
        BY <4>3, <4>4, <4>5, <4>6, Zenon
    <3>4. g[2].rest = Tail(f.rest) /\ g[2].err = f.err
      BY <1>2, <2>4
    <3> QED
      BY <3>2, <3>3, <3>4, Zenon
  <2> QED
    BY <2>2, <2>3, <2>4
<1> QED
  BY <1>3, <1>4, <1>5

-----------------------------------------------------------------------------
(* What the loop knows of the line so far holds from one turn to the next. *)
LEMMA LineInvHolds == IInv /\ LineInv /\ [Next]_vars => LineInv'
<1> SUFFICES ASSUME IInv, LineInv, [Next]_vars PROVE LineInv'
  OBVIOUS
<1>0. FileOK(file) /\ (file.eof => file.rest = <<>>)
  BY DEF IInv, TypeOK, InPlace
<1>1. CASE Call
  <2>1. CASE at' = "line"
    <3>1. PICK g \in IF file.eof THEN {<<EOF, file>>} ELSE getc(file) :
            /\ c' = g[1]
            /\ IF g[1] = EOF THEN Answers(Null)
               ELSE \/ Exits
                    \/ buf' = Block(LineCap)
      BY <1>1 DEF Call
    <3>2. c' # EOF /\ buf' = Block(LineCap)
      BY <2>1, <3>1 DEF Answers, Exits
    <3>3. buf'.data = <<>> /\ Len(<<>>) = 0
      BY <3>2, EmptySeq DEF Block
    <3> QED
      BY <3>2, <3>3 DEF LineInv
  <2> QED
    BY <2>1 DEF LineInv
<1>2. CASE Turn
  <2>1. CASE at' = "line"
    <3>1. at = "line" /\ ~ EndsLine(c)
      BY <1>2, <2>1 DEF Turn, Answers
    <3>2. PICK g \in getc(file) :
            /\ c' = g[1]
            /\ file' = g[2]
            /\ \/ buf' = [buf EXCEPT !.data = Append(buf.data, c)]
               \/ Exits
               \/ buf' = [cap |-> 2 * buf.cap, data |-> Append(buf.data, c)]
      BY <1>2, <3>1 DEF Turn
    <3>3. buf \in [cap : Nat, data : Seq(Char)] /\ c \in Char /\ c # NL
      BY <3>1 DEF IInv, TypeOK, EndsLine
    <3>4. buf'.data = Append(buf.data, c)
      BY <2>1, <3>2, <3>3 DEF Exits
    <3>5. /\ Len(Append(buf.data, c)) = Len(buf.data) + 1 /\ Len(buf.data) \in Nat
          /\ \A i \in 1 .. Len(buf.data) : Append(buf.data, c)[i] = buf.data[i]
          /\ Append(buf.data, c)[Len(buf.data) + 1] = c
          /\ Append(buf.data, c) # <<>>
      BY <3>3, AppendProperties, LenProperties
    <3>6. \A i \in 1 .. Len(buf'.data) : buf'.data[i] # NL
      BY <3>1, <3>3, <3>4, <3>5 DEF LineInv
    <3>7. c' = EOF => file'.err \/ file'.rest = <<>>
      BY <1>0, <3>2, GetcLosesNothing
    <3> QED
      BY <3>4, <3>5, <3>6, <3>7 DEF LineInv
  <2> QED
    BY <2>1 DEF LineInv
<1>3. CASE Open \/ Fill \/ Close \/ UNCHANGED vars
  BY <1>3 DEF Open, Fill, Close, Answers, vars, LineInv
<1> QED
  BY <1>1, <1>2, <1>3 DEF Next, Reads

-----------------------------------------------------------------------------
(* The start of a call: nothing to read, a failure, or a line begun.       *)
LEMMA CallMaps == IInv /\ Call => [Source!Next]_(Source!vars)
<1> SUFFICES ASSUME IInv, Call PROVE [Source!Next]_(Source!vars)
  OBVIOUS
<1>1. PICK g \in IF file.eof THEN {<<EOF, file>>} ELSE getc(file) :
        /\ c' = g[1]
        /\ file' = g[2]
        /\ IF g[1] = EOF
           THEN Answers(Null) /\ UNCHANGED <<buf, held>>
           ELSE \/ Exits /\ buf' = NoBlock
                \/ /\ at' = "line" /\ buf' = Block(LineCap) /\ held' = held + 1
                   /\ UNCHANGED reply
  BY DEF Call
<1>2. /\ use = "lines" /\ use' = "lines" /\ at = "idle"
      /\ FileOK(file) /\ (file.eof => file.rest = <<>>)
      /\ file.rest \in Seq(Char) /\ file.err \in BOOLEAN
  BY DEF IInv, TypeOK, InPlace, FileOK, Call
<1>3. /\ FileOK(file') /\ file'.err \in BOOLEAN /\ file'.rest \in Seq(Char)
      /\ AsText(c') \o file'.rest = file.rest
      /\ file.err => file'.err
      /\ c' = EOF => file'.rest = file.rest /\ (file'.err \/ file.rest = <<>>)
  <2>1. CASE file.eof
    <3>1. c' = EOF /\ file' = file
      BY <1>1, <2>1
    <3>2. <<>> \o file.rest = file.rest
      BY <1>2, ConcatEmptySeq
    <3> QED
      BY <1>2, <2>1, <3>1, <3>2 DEF AsText
  <2>2. CASE ~ file.eof
    <3>1. g \in getc(file)
      BY <1>1, <2>2
    <3>2. FileOK(file')
      BY <1>1, <1>2, <3>1, GetcReads
    <3>3. file'.err \in BOOLEAN /\ file'.rest \in Seq(Char)
      BY <3>2 DEF FileOK
    <3> QED
      BY <1>1, <1>2, <3>1, <3>2, <3>3, GetcLosesNothing
  <2> QED
    BY <2>1, <2>2
<1>4. restBar = file.rest /\ brokenBar = file.err /\ replyBar = reply /\ stoppedBar = FALSE
  BY <1>2 DEF restBar, brokenBar, replyBar, stoppedBar, Lines, Unanswered
<1>5. brokenBar' = file'.err /\ replyBar' = reply'
  BY <1>2, <1>3 DEF brokenBar, replyBar, Lines
<1>6. CASE c' = EOF
  <2>1. at' = "idle" /\ reply' = Null
    BY <1>1, <1>6 DEF Answers
  <2>2. restBar' = file.rest /\ stoppedBar' = FALSE
    BY <1>2, <1>3, <1>6, <2>1 DEF restBar, Lines, Unanswered, stoppedBar
  <2>3. CASE file'.err
    BY <1>2, <1>3, <1>4, <1>5, <2>1, <2>2, <2>3 DEF Source!Next, Source!FailsAtOnce
  <2>4. CASE ~ file'.err
    BY <1>2, <1>3, <1>4, <1>5, <1>6, <2>1, <2>2, <2>4 DEF Source!Next, Source!NoLine
  <2> QED
    BY <2>3, <2>4
<1>7. CASE c' # EOF
  <2>1. reply' = reply /\ buf' \in {NoBlock, Block(LineCap)} /\ at' \in {"line", "exited"}
    BY <1>1, <1>7 DEF Exits
  <2>2. restBar' = file.rest
    <3>1. buf'.data = <<>>
      BY <2>1 DEF NoBlock, Block
    <3>2. restBar' = <<>> \o (AsText(c') \o file'.rest)
      BY <1>2, <2>1, <3>1 DEF restBar, Lines, Unanswered
    <3>3. <<>> \o file.rest = file.rest
      BY <1>2, ConcatEmptySeq
    <3> QED
      BY <1>3, <3>2, <3>3, Zenon
  <2>3. CASE at' = "exited"
    <3>1. stoppedBar' = TRUE
      BY <2>3 DEF stoppedBar
    <3> QED
      BY <1>2, <1>3, <1>4, <1>5, <2>1, <2>2, <3>1 DEF Source!Next, Source!OutOfMemory
  <2>4. CASE at' = "line"
    <3>1. stoppedBar' = FALSE
      BY <2>4 DEF stoppedBar
    <3> QED
      BY <1>2, <1>3, <1>4, <1>5, <2>1, <2>2, <3>1 DEF Source!Next, Source!Fails, Source!vars
  <2> QED
    BY <2>1, <2>3, <2>4
<1> QED
  BY <1>6, <1>7

(* A turn that ends the line: at its newline, at the end of the input, or  *)
(* where the stream has failed.                                            *)
LEMMA EndOfLineMaps ==
  IInv /\ LineInv /\ Turn /\ EndsLine(c) => [Source!Next]_(Source!vars)
<1> SUFFICES ASSUME IInv, LineInv, Turn, EndsLine(c) PROVE [Source!Next]_(Source!vars)
  OBVIOUS
<1> DEFINE d == buf.data
           r == file.rest
           s == restBar
<1>1. /\ at = "line" /\ use = "lines" /\ use' = "lines"
      /\ at' = "idle" /\ reply' = buf.data /\ UNCHANGED <<file, c, buf>>
  BY DEF IInv, InPlace, Turn, Answers
<1>2. /\ d \in Seq(Char) /\ r \in Seq(Char) /\ file.err \in BOOLEAN
      /\ Len(d) \in Nat /\ Len(r) \in Nat
      /\ \A i \in 1 .. Len(d) : d[i] # NL
  BY <1>1, LenProperties DEF IInv, TypeOK, FileOK, LineInv
<1>3. /\ s = d \o (AsText(c) \o r)
      /\ brokenBar = file.err /\ brokenBar' = file.err
      /\ replyBar' = d
      /\ restBar' = r
      /\ stoppedBar = FALSE /\ stoppedBar' = FALSE
  BY <1>1, <1>2 DEF restBar, brokenBar, replyBar, stoppedBar, Lines, Unanswered
<1>4. CASE c = NL
  <2>1. AsText(c) = <<NL>> /\ NL \in Char
    BY <1>4, ReadersAssumption DEF AsText
  <2> DEFINE t == <<NL>> \o r
             e == Append(d, NL)
  <2>2. t \in Seq(Char) /\ Len(t) = 1 + Len(r) /\ t[1] = NL
    BY <1>2, <2>1
  <2>3. e \in Seq(Char) /\ Len(e) = Len(d) + 1
    BY <1>2, <2>1, AppendProperties
  <2>4. s = d \o t
    BY <1>3, <2>1, Zenon
  <2>5. s = e \o r
    <3> DEFINE one == <<NL>>
    <3>1. /\ d \in Seq(Char) /\ r \in Seq(Char) /\ NL \in Char
          /\ one = <<NL>> /\ e = Append(d, NL)
      BY <1>2, <2>1
    <3> HIDE DEF d, r, e, one
    <3>2. e \o r = d \o (one \o r)
      BY <3>1, CharacterMoves
    <3>3. e \o r = d \o t
      BY <3>2, Zenon DEF one
    <3> QED
      BY <2>4, <3>3, Zenon
  <2> HIDE DEF d, r, t, e, s
  <2>6. /\ Len(s) = Len(d) + Len(t)
        /\ \A i \in 1 .. Len(d) : s[i] = d[i]
        /\ SubSeq(s, 1, Len(d)) = d
    BY <1>2, <2>2, <2>4, TakenApart
  <2>7. s[Len(d) + 1] = NL
    BY <1>2, <2>2, <2>4, ConcatProperties
  <2>8. SubSeq(s, (Len(d) + 1) + 1, Len(s)) = r
    <3>1. SubSeq(e \o r, Len(e) + 1, Len(e \o r)) = r
      BY <1>2, <2>3, TakenApart
    <3> QED
      BY <2>3, <2>5, <3>1
  <2>9. s # <<>> /\ Len(d) \in 0 .. Len(s)
    <3>1. Len(s) # 0
      BY <1>2, <2>2, <2>6
    <3> QED
      BY <1>2, <2>2, <2>6, <3>1, EmptySeq
  <2>10. Source!IsLine(s, Len(d))
    BY <1>2, <2>6, <2>7 DEF Source!IsLine, Source!InLine
  <2>11. Source!NextLine
    BY <1>3, <2>6, <2>8, <2>9, <2>10 DEF Source!NextLine, Source!Drop, s
  <2> QED
    BY <1>3, <2>11 DEF Source!Next
<1>5. CASE c = EOF
  <2>1. d # <<>> /\ (file.err \/ r = <<>>)
    BY <1>1, <1>5 DEF LineInv
  <2>2. s = d \o r
    <3>1. AsText(c) = <<>> /\ <<>> \o r = r
      BY <1>2, <1>5, ConcatEmptySeq DEF AsText
    <3> QED
      BY <1>3, <3>1, Zenon
  <2> HIDE DEF d, r, s
  <2>3. /\ Len(s) = Len(d) + Len(r)
        /\ \A i \in 1 .. Len(d) : s[i] = d[i]
        /\ SubSeq(s, 1, Len(d)) = d
        /\ SubSeq(s, Len(d) + 1, Len(s)) = r
    BY <1>2, <2>2, TakenApart
  <2>4. Len(d) \in 0 .. Len(s) /\ Len(d) # 0
    BY <1>2, <2>1, <2>3, EmptySeq
  <2>5. Source!InLine(s, Len(d))
    BY <1>2, <2>3 DEF Source!InLine
  <2>6. CASE file.err
    <3>1. Source!CutShort
      BY <1>3, <2>3, <2>4, <2>5, <2>6 DEF Source!CutShort, Source!Drop, s
    <3> QED
      BY <1>3, <3>1 DEF Source!Next
  <2>7. CASE r = <<>>
    <3>1. Len(r) = 0 /\ Len(s) = Len(d)
      BY <1>2, <2>3, <2>7, EmptySeq
    <3>2. Source!IsLine(s, Len(d))
      BY <2>5, <3>1 DEF Source!IsLine
    <3>3. SubSeq(s, (Len(d) + 1) + 1, Len(s)) = r
      BY <1>2, <2>7, <3>1, SubSeqEmpty
    <3>4. s # <<>>
      BY <2>4, <3>1, EmptySeq
    <3>5. Source!NextLine
      BY <1>3, <2>3, <2>4, <3>2, <3>3, <3>4 DEF Source!NextLine, Source!Drop, s
    <3> QED
      BY <1>3, <3>5 DEF Source!Next
  <2> QED
    BY <2>1, <2>6, <2>7
<1> QED
  BY <1>4, <1>5 DEF EndsLine

(* Any other turn answers nothing, and may fail or run out of memory.      *)
LEMMA OtherTurnMaps ==
  IInv /\ Turn /\ ~ EndsLine(c) => [Source!Next]_(Source!vars)
<1> SUFFICES ASSUME IInv, Turn, ~ EndsLine(c) PROVE [Source!Next]_(Source!vars)
  OBVIOUS
<1>1. /\ at = "line" /\ use = "lines" /\ use' = "lines"
      /\ FileOK(file) /\ (file.eof => file.rest = <<>>)
      /\ file.rest \in Seq(Char) /\ file.err \in BOOLEAN
      /\ buf \in [cap : Nat, data : Seq(Char)] /\ buf.data \in Seq(Char)
      /\ c \in Char /\ c # EOF
  BY DEF IInv, TypeOK, InPlace, FileOK, Turn, EndsLine
<1>2. PICK g \in getc(file) :
        /\ c' = g[1]
        /\ file' = g[2]
        /\ \/ buf' = [buf EXCEPT !.data = Append(buf.data, c)] /\ UNCHANGED <<at, reply>>
           \/ Exits /\ buf' = [buf EXCEPT !.data = Append(buf.data, c)]
           \/ buf' = [cap |-> 2 * buf.cap, data |-> Append(buf.data, c)] /\ UNCHANGED <<at, reply>>
  BY DEF Turn
<1>3. /\ reply' = reply /\ at' \in {"line", "exited"}
      /\ buf'.data = Append(buf.data, c)
  BY <1>1, <1>2 DEF Exits
<1>4. /\ AsText(c') \o file'.rest = file.rest
      /\ file.err => file'.err
  BY <1>1, <1>2, GetcLosesNothing
<1>5. file'.err \in BOOLEAN
  <2>1. FileOK(file')
    BY <1>1, <1>2, GetcReads
  <2> QED
    BY <2>1 DEF FileOK
<1>6. /\ restBar = buf.data \o (AsText(c) \o file.rest)
      /\ restBar' = buf'.data \o (AsText(c') \o file'.rest)
      /\ brokenBar = file.err /\ brokenBar' = file'.err
      /\ replyBar = reply /\ replyBar' = reply
      /\ stoppedBar = FALSE
  BY <1>1, <1>3, <1>5 DEF restBar, brokenBar, replyBar, stoppedBar, Lines, Unanswered
<1>7. restBar' = restBar
  <2>1. AsText(c) = <<c>>
    BY <1>1 DEF AsText
  <2>2. Append(buf.data, c) \o file.rest = buf.data \o (<<c>> \o file.rest)
    <3> DEFINE d   == buf.data
               r   == file.rest
               one == <<c>>
               e   == Append(d, c)
    <3>1. /\ d \in Seq(Char) /\ r \in Seq(Char) /\ c \in Char
          /\ one = <<c>> /\ e = Append(d, c)
      BY <1>1
    <3> HIDE DEF d, r, one, e
    <3>2. e \o r = d \o (one \o r)
      BY <3>1, CharacterMoves
    <3> QED
      BY <3>2, Zenon DEF d, r, one, e
  <2>3. restBar' = Append(buf.data, c) \o file.rest
    BY <1>3, <1>4, <1>6, Zenon
  <2> QED
    BY <1>6, <2>1, <2>2, <2>3, Zenon
<1>8. CASE at' = "exited"
  <2>1. stoppedBar' = TRUE
    BY <1>8 DEF stoppedBar
  <2> QED
    BY <1>1, <1>4, <1>5, <1>6, <1>7, <2>1 DEF Source!Next, Source!OutOfMemory
<1>9. CASE at' = "line"
  <2>1. stoppedBar' = FALSE
    BY <1>9 DEF stoppedBar
  <2> QED
    BY <1>1, <1>4, <1>5, <1>6, <1>7, <2>1 DEF Source!Next, Source!Fails, Source!vars
<1> QED
  BY <1>3, <1>8, <1>9

(* What fdread_all does is no step of LineSource.                          *)
LEMMA ElseStutters ==
  IInv /\ (Open \/ Fill \/ Close \/ UNCHANGED vars) => UNCHANGED Source!vars
<1>1. CASE IInv /\ (Open \/ Fill \/ Close)
  <2>1. use = "all" /\ use' = "all" /\ at # "exited" /\ at' # "exited"
    BY <1>1 DEF IInv, InPlace, Open, Fill, Close, Answers
  <2>2. /\ restBar = <<>> /\ restBar' = <<>>
        /\ brokenBar = FALSE /\ brokenBar' = FALSE
        /\ replyBar = Null /\ replyBar' = Null
        /\ stoppedBar = FALSE /\ stoppedBar' = FALSE
    BY <2>1 DEF restBar, brokenBar, replyBar, stoppedBar, Lines
  <2> QED
    BY <2>2 DEF Source!vars
<1>2. CASE UNCHANGED vars
  <2>1. UNCHANGED <<use, file, at, c, buf, reply>>
    BY <1>2 DEF vars
  <2> QED
    BY <2>1 DEF Source!vars, restBar, brokenBar, replyBar, stoppedBar, Lines, Unanswered
<1> QED
  BY <1>1, <1>2

(***************************************************************************)
(* fread_line implements read_line(3): each answer is the next line of the *)
(* input or what a failing stream let through of it, and no character is   *)
(* lost or answered twice (read_line.inc).                                 *)
(***************************************************************************)
THEOREM ReadsEachLine == Spec => ImplementsLineSource
<1>1. Init => Source!Init
  <2> SUFFICES ASSUME Init PROVE Source!Init
    OBVIOUS
  <2>1. input \in Seq(Char)
    BY InitHolds DEF IInv, TypeOK
  <2>2. /\ restBar = IF Lines THEN input ELSE <<>>
        /\ brokenBar = FALSE /\ replyBar = Null /\ stoppedBar = FALSE
    BY DEF Init, restBar, brokenBar, replyBar, stoppedBar, Lines, Unanswered
  <2>3. restBar \in Seq(Char)
    BY <2>1, <2>2, EmptySeq
  <2> QED
    BY <2>2, <2>3 DEF Source!Init
<1>2. Init => LineInv
  BY DEF Init, LineInv
<1>3. IInv /\ LineInv /\ [Next]_vars => [Source!Next]_(Source!vars)
  BY CallMaps, EndOfLineMaps, OtherTurnMaps, ElseStutters DEF Next, Reads
<1> QED
  BY <1>1, <1>2, <1>3, Invariance, LineInvHolds, PTL DEF Spec, ImplementsLineSource, Source!Spec
=============================================================================
