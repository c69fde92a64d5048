---------------------------- MODULE MCContentLog ----------------------------
(***************************************************************************)
(* A small instance of ContentLog for TLC.                                 *)
(***************************************************************************)
EXTENDS ContentLog

CONSTANTS c1, c2
=============================================================================
