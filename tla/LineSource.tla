----------------------------- MODULE LineSource -----------------------------
(***************************************************************************)
(* What read_line(3) promises: each call answers with the next line of the *)
(* input, without its newline, or with NULL when nothing can be read.  A   *)
(* stream that fails may cut a line short, and a caller for whom there is  *)
(* no memory is stopped.  Buffers are not mentioned.                       *)
(***************************************************************************)
EXTENDS Sequences, Naturals

CONSTANTS Char, NL, Null

VARIABLES
  rest,    \* the input no call has answered with yet
  broken,  \* the stream has failed
  reply,   \* the last answer
  stopped  \* the process has exited for want of memory

vars == <<rest, broken, reply, stopped>>

(* The first n characters of s are in its first line; they are that line.  *)
InLine(s, n) == \A i \in 1 .. n : s[i] # NL
IsLine(s, n) == InLine(s, n) /\ (n < Len(s) => s[n + 1] = NL)

Init == rest \in Seq(Char) /\ ~ broken /\ reply = Null /\ ~ stopped

Drop(s, n) == SubSeq(s, n + 1, Len(s))

NextLine ==
  /\ rest # <<>>
  /\ \E n \in 0 .. Len(rest) :
       /\ IsLine(rest, n)
       /\ reply' = SubSeq(rest, 1, n)
       /\ rest' = Drop(rest, n + 1)
  /\ UNCHANGED <<broken, stopped>>

NoLine == rest = <<>> /\ reply' = Null /\ UNCHANGED <<rest, broken, stopped>>

Fails == broken' = TRUE /\ UNCHANGED <<rest, stopped, reply>>

(* What was read before the failure is answered, which may be nothing.     *)
CutShort ==
  /\ broken
  /\ \E n \in 0 .. Len(rest) :
       /\ InLine(rest, n)
       /\ reply' = IF n = 0 THEN Null ELSE SubSeq(rest, 1, n)
       /\ rest' = Drop(rest, n)
  /\ UNCHANGED <<broken, stopped>>

FailsAtOnce == broken' = TRUE /\ reply' = Null /\ UNCHANGED <<rest, stopped>>

OutOfMemory ==
  /\ stopped' = TRUE
  /\ broken' \in {broken, TRUE}
  /\ UNCHANGED <<rest, reply>>

Next ==
  /\ ~ stopped
  /\ NextLine \/ NoLine \/ Fails \/ CutShort \/ FailsAtOnce \/ OutOfMemory

Spec == Init /\ [][Next]_vars
=============================================================================
