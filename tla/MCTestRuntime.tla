--------------------------- MODULE MCTestRuntime ---------------------------
(* TLC instance of the test runtime.                                       *)
EXTENDS TestRuntime

(* The program and its first test may count as many failures as there are  *)
(* statuses, which then read as none; another test prints, exits or dies.  *)
MCMaxCount == <<3, 3, 0>>
=============================================================================
