------------------------------ MODULE Absence -------------------------------
(***************************************************************************)
(* The absent value: a nil pointer, an empty name, NULL in a table.        *)
(***************************************************************************)
CONSTANT None

=============================================================================
