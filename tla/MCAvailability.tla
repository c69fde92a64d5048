-------------------------- MODULE MCAvailability --------------------------
(***************************************************************************)
(* Small instances of Availability for TLC.                                *)
(***************************************************************************)
EXTENDS Availability, TLC

CONSTANTS r1, r2, r3, m1, m2, p1

\* Requests are interchangeable: nothing orders or names them.
RequestSymmetry == Permutations(Requests)
============================================================================
