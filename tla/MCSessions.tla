----------------------------- MODULE MCSessions -----------------------------
(***************************************************************************)
(* Small instances of Sessions for TLC.                                    *)
(***************************************************************************)
EXTENDS Sessions, TLC

CONSTANTS r1, r2, s1, p1, p2

\* Requests are interchangeable, and so are named sessions and providers.
NameSymmetry ==
    Permutations(Requests) \cup Permutations(Named) \cup Permutations(Providers)
=============================================================================
