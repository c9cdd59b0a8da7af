------------------------------ MODULE Readers ------------------------------
(***************************************************************************)
(* The two readers of libipd that grow a block until the input fits:       *)
(* fread_line (read_line.inc), behind read_line and prompt_line, and       *)
(* fdread_all (program_test_rt.c), over struct buffer (buffer.h), which    *)
(* reads what a checked program has written.                               *)
(*                                                                         *)
(* A reader sees a stdio stream, that can fail, and an allocator, that can *)
(* refuse; the limiter of AllocLimit is one that does.  A process uses one *)
(* of the two, on one stream.                                              *)
(***************************************************************************)
EXTENDS Integers, Sequences

CONSTANTS
  Char,      \* characters, a newline included
  NL,        \* the newline
  EOF, Null, \* what getc and the readers return at the end
  LineCap,   \* READ_LINE_BUF_SIZE (80)
  AllCap,    \* READ_FD_BUF_LEN (256)
  MaxInput   \* bound: characters in the stream

ASSUME ReadersAssumption ==
  /\ NL \in Char /\ EOF \notin Char
  /\ LineCap \in Nat \ {0} /\ AllCap \in Nat \ {0} /\ MaxInput \in Nat

VARIABLES
  use,     \* which of the readers this process uses
  input,   \* history: everything that was in the stream
  file,    \* the stream: what is left, and its two indicators
  at,      \* where the reader is
  c,       \* fread_line's last character
  buf,     \* the block, its capacity and the characters in it
  held,    \* blocks the reader has allocated, and neither freed nor returned
  fd,      \* fdread_all's descriptor: open, given to a stream, or closed
  reply    \* the last answer

vars == <<use, input, file, at, c, buf, held, fd, reply>>

NoBlock  == [cap |-> 0, data |-> <<>>]
Block(n) == [cap |-> n, data |-> <<>>]
fill     == Len(buf.data)

Init ==
  /\ use \in {"lines", "all"}
  /\ input \in UNION {[1 .. n -> Char] : n \in 0 .. MaxInput}
  /\ file = [rest |-> input, eof |-> FALSE, err |-> FALSE]
  /\ at = "idle"
  /\ c = EOF
  /\ buf = NoBlock
  /\ held = 0
  /\ fd = "open"
  /\ reply = Null

-----------------------------------------------------------------------------
(* getc: the character and the stream after it.  The end is remembered; an *)
(* error may come at any time.                                             *)
getc(f) ==
  IF f.eof THEN {<<EOF, f>>}
  ELSE {<<EOF, [f EXCEPT !.err = TRUE]>>,
        IF f.rest = <<>> THEN <<EOF, [f EXCEPT !.eof = TRUE]>>
                         ELSE <<Head(f.rest), [f EXCEPT !.rest = Tail(@)]>>}

(* fread of n > 0 characters: how many are read, and the stream after it.  *)
fread(f, n) ==
  LET left           == Len(f.rest)
      After(k, e, b) == <<k, [rest |-> SubSeq(f.rest, k + 1, left), eof |-> e, err |-> b]>>
  IN  IF f.eof THEN {<<0, f>>}
      ELSE {After(k, FALSE, TRUE) : k \in 0 .. (IF n > left THEN left ELSE n - 1)}
           \cup {IF left < n THEN After(left, TRUE, f.err) ELSE After(n, FALSE, f.err)}

(* Faulty variant of the next definition: the block is not freed.          *)
ExitsHolding == at' = "exited" /\ UNCHANGED <<held, reply>>

(* exit(1), after surely_realloc has freed the block it could not grow.    *)
Exits == at' = "exited" /\ held' = 0 /\ UNCHANGED reply

Answers(r) == at' = "idle" /\ reply' = r

(* Faulty variant of the next definition: no room for the terminator.      *)
FullButOne(size, capacity) == size > capacity

Full(size, capacity) == size + 1 > capacity

(* Faulty variant of the next definition: the newline stays in the input.  *)
EndsAtEOF(k) == k = EOF

EndsLine(k) == k \in {EOF, NL}

(* fread_line, up to its first block.  prompt_line has flushed its prompt. *)
Call ==
  /\ use = "lines"
  /\ at = "idle"
  /\ \E g \in IF file.eof THEN {<<EOF, file>>} ELSE getc(file) :
       /\ c' = g[1]
       /\ file' = g[2]
       /\ IF g[1] = EOF
          THEN Answers(Null) /\ UNCHANGED <<buf, held>>
          ELSE \/ Exits /\ buf' = NoBlock
               \/ /\ at' = "line" /\ buf' = Block(LineCap) /\ held' = held + 1
                  /\ UNCHANGED reply
  /\ UNCHANGED <<use, input, fd>>

(* One turn of its loop: the line ends, and the block is the caller's, or  *)
(* the character is stored and the next one read, and the block grown if   *)
(* that one, or the terminator, would not fit.                             *)
Turn ==
  /\ at = "line"
  /\ IF EndsLine(c)
     THEN /\ Answers(buf.data)
          /\ held' = held - 1
          /\ UNCHANGED <<file, c, buf>>
     ELSE \E g \in getc(file) :
            LET data == Append(buf.data, c)
            IN  /\ c' = g[1]
                /\ file' = g[2]
                /\ IF ~ Full(Len(data), buf.cap)
                   THEN buf' = [buf EXCEPT !.data = data] /\ UNCHANGED <<at, held, reply>>
                   ELSE \/ Exits /\ buf' = [buf EXCEPT !.data = data]
                        \/ /\ buf' = [cap |-> 2 * buf.cap, data |-> data]
                           /\ UNCHANGED <<at, held, reply>>
  /\ UNCHANGED <<use, input, fd>>

-----------------------------------------------------------------------------
(* fdread_all up to its loop.  It fails with no block and the descriptor   *)
(* closed, whether lseek, malloc or fdopen failed.                         *)
Open ==
  /\ use = "all"
  /\ at = "idle"
  /\ fd = "open"
  /\ \/ Answers(Null) /\ fd' = "closed" /\ UNCHANGED <<buf, held>>
     \/ /\ at' = "all" /\ fd' = "stream" /\ buf' = Block(AllCap) /\ held' = held + 1
        /\ UNCHANGED reply
  /\ UNCHANGED <<use, input, file, c>>

(* bfread(&buf, pad, fin): the count, the stream and the buffer after it.  *)
(* A buffer that is full but for the pad is grown first, which may be      *)
(* refused: then nothing is read.                                          *)
bfread(pad) ==
  LET Into(b) == {<<g[1], g[2], [b EXCEPT !.data = @ \o SubSeq(file.rest, 1, g[1])]>> :
                    g \in fread(file, b.cap - (fill + pad))}
  IN  IF fill + pad >= buf.cap
      THEN {<<0, file, buf>>} \cup Into([buf EXCEPT !.cap = 2 * @])
      ELSE Into(buf)

(* Faulty variant of the next definition: the loop ends on an error.       *)
LoopEndsOnError(count, f) == f.err

LoopEnds(count, f) == count = 0

(* One turn of fdread_all's loop.                                          *)
Fill ==
  /\ at = "all"
  /\ \E r \in bfread(1) :
       /\ file' = r[2]
       /\ buf' = r[3]
       /\ at' = IF LoopEnds(r[1], r[2]) THEN "read" ELSE "all"
  /\ UNCHANGED <<use, input, c, held, fd, reply>>

(* Faulty variant of the next definition: only an error is looked for.     *)
NoError(f) == ~ f.err

ReachedEnd(f) == f.eof

(* fclose, and the block, terminated, is the caller's; or it is freed,     *)
(* because the loop has not ended at the end of the file.                  *)
Close ==
  /\ at = "read"
  /\ Answers(IF ReachedEnd(file) THEN buf.data ELSE Null)
  /\ held' = held - 1
  /\ fd' = "closed"
  /\ UNCHANGED <<use, input, file, c, buf>>

Reads == Turn \/ Fill \/ Close

Next == Call \/ Open \/ Reads

(* A reader that was called goes on: getc and fread answer.                *)
Spec == Init /\ [][Next]_vars /\ WF_vars(Reads)

-----------------------------------------------------------------------------
(***************************************************************************)
(* Whatever is written next fits: fread_line's next character or its       *)
(* terminator, and fdread_all's terminator, for which bfread keeps a       *)
(* character free.                                                         *)
(***************************************************************************)
RoomForNext == at \in {"line", "all", "read"} => fill < buf.cap

(* A reader that is at work holds one block and one that is not holds      *)
(* none, on every way out; a stream has the descriptor just while          *)
(* fdread_all is at work.                                                  *)
NothingLeaks ==
  /\ held = IF at \in {"line", "all", "read"} THEN 1 ELSE 0
  /\ use = "all" => (fd = "stream" <=> at \in {"all", "read"})

(* fdread_all answers with everything that was in the file or not at all:  *)
(* a buffer that could not grow, or a read that failed, truncates nothing. *)
AllOrNothing ==
  use = "all" /\ reply # Null => reply = input

(* A call that was made is answered, or the process exits.                 *)
CallEnds == at \in {"line", "all", "read"} ~> at \in {"idle", "exited"}
=============================================================================
