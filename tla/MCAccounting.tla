---------------------------- MODULE MCAccounting ----------------------------
(***************************************************************************)
(* Small instances of Accounting for TLC.                                  *)
(***************************************************************************)
EXTENDS Accounting, TLC

CONSTANTS r1, r2

\* Requests are interchangeable: nothing orders or names them.
RequestSymmetry == Permutations(Requests)
=============================================================================
