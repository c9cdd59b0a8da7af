---------------------------- MODULE MCAllocLimit ----------------------------
(* Small instances of AllocLimit, and of its refinement, for TLC.          *)
EXTENDS AllocImplements, TLC

Unset == [kind |-> "unset", size |-> 0, unit |-> ""]
Number(n, u) == [kind |-> "number", size |-> n, unit |-> u]
Letters == [kind |-> "nonnumeric", size |-> 0, unit |-> ""]

NoEnvironment == [i \in 1 .. 4 |-> Unset]

(* One environment per way the chain of four variables can end: nothing    *)
(* set, a peak limit, a total limit that takes precedence over a peak one, *)
(* a variable that cannot be read.                                         *)
MCEnvironments ==
  {NoEnvironment,
   [NoEnvironment EXCEPT ![3] = Number(3, "b")],
   [NoEnvironment EXCEPT ![1] = Number(2, ""), ![3] = Number(5, "")],
   [NoEnvironment EXCEPT ![2] = Letters]}

PointerSymmetry == Permutations(Pointer)
=============================================================================
