------------------------------ MODULE CatchXml ------------------------------
(***************************************************************************)
(* The XmlWriter of Catch: the elements that are open, and whether the     *)
(* start tag of the innermost one still takes attributes.  Indentation,    *)
(* line breaks and the encoding of texts are left out.                     *)
(***************************************************************************)
EXTENDS Integers, Sequences, SequencesExt

(* An element, and the name of what it stands for where there is one.      *)
Tag(name, of) == [name |-> name, of |-> of]

(* strays counts the attributes that were written where no start tag took  *)
(* them, underflows the ends of elements that had not been started.        *)
XmlWriter == [tags |-> <<>>, tagIsOpen |-> FALSE, strays |-> 0, underflows |-> 0]

ensureTagClosed(w) == [w EXCEPT !.tagIsOpen = FALSE]

startElement(w, tag) == [w EXCEPT !.tags = Append(@, tag), !.tagIsOpen = TRUE]

endElement(w) ==
  IF w.tags = <<>> THEN [w EXCEPT !.underflows = @ + 1]
  ELSE [w EXCEPT !.tags = Front(@), !.tagIsOpen = FALSE]

writeAttribute(w) == IF w.tagIsOpen THEN w ELSE [w EXCEPT !.strays = @ + 1]

writeText(w) == ensureTagClosed(w)

(* A start tag with its attributes.                                        *)
Opened(w, name, of) == writeAttribute(startElement(w, Tag(name, of)))

(* A scoped element with attributes or a text and nothing inside.          *)
scopedElement(w, name) == endElement(writeText(Opened(w, name, "")))

(* n of them, one after the other.                                         *)
Several(w, name, n) == FoldLeft(LAMBDA v, i : scopedElement(v, name), w, [i \in 1 .. n |-> i])

(* What the open elements say of the place: the test case and its sections *)
Place(w) ==
  LET named == SelectSeq(w.tags, LAMBDA t : t.name \in {"TestCase", "Section"})
  IN  [i \in DOMAIN named |-> named[i].of]
=============================================================================
