---------------------------- MODULE MCKeyPool ----------------------------
(***************************************************************************)
(* Small instances of KeyPool for TLC.                                     *)
(***************************************************************************)
EXTENDS KeyPool, TLC

CONSTANTS r1, r2, r3

\* Two credentials, one that is replaced by another, and one whose upstream
\* asks for a wait of nothing.
TwoKeys  == [keys |-> <<2, 0>>, waits |-> {1}, reloads |-> 0, failures |-> 2]
Replaced == [keys |-> <<1, 1>>, waits |-> {1}, reloads |-> 1, failures |-> 1]
NoWait   == [keys |-> <<1, 0>>, waits |-> {0, 1}, reloads |-> 0, failures |-> 2]
MCShapes == {TwoKeys, Replaced, NoWait}
SharedShapes == {Replaced}

\* Requests are interchangeable: nothing orders or names them.
RequestSymmetry == Permutations(Requests)
============================================================================
