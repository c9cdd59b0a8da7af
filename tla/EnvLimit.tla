------------------------------ MODULE EnvLimit ------------------------------
(***************************************************************************)
(* How libipd turns the environment into an initial allocation limit       *)
(* (alloc_rt.c, get_limit and alloc_limit_init_once).  Pure definitions:   *)
(* the text of a variable is abstracted to the outcome of the scan that    *)
(* get_limit makes of it, and the limit it yields is computed in size_t    *)
(* arithmetic, where a shift drops the bits that leave the word.           *)
(***************************************************************************)
EXTENDS Integers

CONSTANT SizeMax      \* SIZE_MAX, the largest size_t

ASSUME SizeMaxAssumption == SizeMax \in Nat \ {0}

Modulus == SizeMax + 1
Size    == 0 .. SizeMax

(***************************************************************************)
(* The suffix found after the number, lower-cased: "" also stands for the  *)
(* end of the text, "other" for any other character.                       *)
(***************************************************************************)
Units == {"", "b", "k", "m", "g", "other"}

(***************************************************************************)
(* What the scan of one variable finds: no variable at all, white space    *)
(* only, no digits where strtoul starts, or a number (what strtoul         *)
(* returned, already a size_t) and the character after it.  A text that    *)
(* goes on after the suffix is accepted by the code: only that one         *)
(* character is looked at.                                                 *)
(***************************************************************************)
EnvText == [kind : {"unset", "blank", "nonnumeric", "number"},
            size : Size, unit : Units]

(* Multiplication by 2^10, 2^20 and 2^30 is what <<, on an unsigned long,  *)
(* does before the high bits are lost.                                     *)
Factor(unit) == CASE unit = "k" -> 1024
                  [] unit = "m" -> 1048576
                  [] unit = "g" -> 1073741824
                  [] OTHER      -> 1

(* The value get_limit stores through *out. *)
Scaled(v) == (v.size * Factor(v.unit)) % Modulus

(***************************************************************************)
(* get_limit(name, out): "false" (nothing set here), "true" with the value *)
(* stored in *out, or "bad" when it calls bad_env_var and never returns.   *)
(***************************************************************************)
get_limit(v) ==
  CASE v.kind \in {"unset", "blank"}                 -> [ret |-> "false", out |-> 0]
    [] v.kind = "nonnumeric"                         -> [ret |-> "bad", out |-> 0]
    [] v.kind = "number" /\ v.unit = "other"         -> [ret |-> "bad", out |-> 0]
    [] OTHER                                         -> [ret |-> "true", out |-> Scaled(v)]

(***************************************************************************)
(* alloc_limit_init_once: the four variables in the order the || chain     *)
(* asks for them,                                                          *)
(*   1 RTIPD_ALLOC_LIMIT_TOTAL   2 RTIPD_ALLOC_LIMIT  (deprecated)         *)
(*   3 RTIPD_ALLOC_LIMIT_PEAK    4 RTIPD_HEAP_LIMIT   (deprecated)         *)
(* The first one that does not say "false" decides: it sets its limit, or  *)
(* ends the process with exit(254).                                        *)
(***************************************************************************)
Environment == [1 .. 4 -> EnvText]

Answering(e) == {i \in 1 .. 4 : get_limit(e[i]).ret # "false"}

Decider(e) == CHOOSE i \in Answering(e) : \A j \in Answering(e) : i <= j

BadEnv(e) == Answering(e) # {} /\ get_limit(e[Decider(e)]).ret = "bad"

EnvMode(e) == CASE Answering(e) = {} \/ BadEnv(e) -> "NO_LIMIT"
                [] Decider(e) \in {1, 2}          -> "LIMIT_TOTAL"
                [] OTHER                          -> "LIMIT_PEAK"

EnvBytes(e) == IF Answering(e) = {} THEN 0 ELSE get_limit(e[Decider(e)]).out
=============================================================================
