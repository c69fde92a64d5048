-------------------------- MODULE MCReconciliation --------------------------
(***************************************************************************)
(* A small instance of Reconciliation for TLC: an export with two charges  *)
(* of one request over different periods, and an invalid file.             *)
(***************************************************************************)
EXTENDS Reconciliation, TLC

CONSTANTS r1, f1, f2, export, bad

MCRows ==
    (export :> <<[start |-> 0, end |-> 2, request |-> r1],
                 [start |-> 1, end |-> 2, request |-> r1]>>) @@
    (bad :> <<>>)
=============================================================================
