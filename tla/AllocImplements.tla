-------------------------- MODULE AllocImplements --------------------------
(***************************************************************************)
(* The limiter of AllocLimit read as the contract of AllocContract: the    *)
(* limit is the one a wrapper would see (the environment's, before the     *)
(* first call), and an object is charged what its live block holds.        *)
(***************************************************************************)
EXTENDS AllocLimit

Contract == INSTANCE AllocContract
              WITH mode   <- Ensured.state,
                   cap    <- Ensured.limit,
                   charge <- Charges,
                   answer <- reply

(***************************************************************************)
(* The limiter implements the manual page: every run of the wrappers is a  *)
(* run of the contract, each call one of its steps or a stutter.           *)
(***************************************************************************)
ImplementsContract == Contract!Spec
=============================================================================
