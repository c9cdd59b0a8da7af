-------------------------- MODULE ReadersImplement --------------------------
(***************************************************************************)
(* fread_line implements LineSource: during a call, the characters in the  *)
(* block and the last one read have not been answered with yet.            *)
(***************************************************************************)
EXTENDS Readers

Lines == use = "lines"

AsText(k) == IF k = EOF THEN <<>> ELSE <<k>>

Unanswered ==
  IF at \in {"line", "exited"}
  THEN buf.data \o (AsText(c) \o file.rest)
  ELSE file.rest

restBar    == IF Lines THEN Unanswered ELSE <<>>
brokenBar  == Lines /\ file.err
replyBar   == IF Lines THEN reply ELSE Null
stoppedBar == at = "exited"

Source == INSTANCE LineSource WITH
  rest <- restBar, broken <- brokenBar, reply <- replyBar, stopped <- stoppedBar

(* read_line(3): every answer of fread_line is the next line of the input, *)
(* or what a failing stream has let through of it, and nothing of the      *)
(* input is lost or answered twice.                                        *)
ImplementsLineSource == Source!Spec
=============================================================================
