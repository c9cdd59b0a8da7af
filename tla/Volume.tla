------------------------------- MODULE Volume -------------------------------
(***************************************************************************)
(* The sum of a function into the naturals, as the number of elements of a *)
(* set: f[k] elements for every k.  Written without recursion, so that the *)
(* facts about it follow from facts about cardinalities.                   *)
(***************************************************************************)
EXTENDS Integers, FiniteSets

Bytes(f) == UNION {{k} \X (1 .. f[k]) : k \in DOMAIN f}

Volume(f) == Cardinality(Bytes(f))
=============================================================================
