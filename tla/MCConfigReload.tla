-------------------------- MODULE MCConfigReload --------------------------
(***************************************************************************)
(* Small instances of ConfigReload for TLC.                                *)
(***************************************************************************)
EXTENDS ConfigReload, TLC

CONSTANTS p1, p2, m1, m2, m3

MCProviders == {p1, p2}
MCCommands == {m1, m2, m3}

\* A gateway watches a file with three references, which a command and an
\* editor change.
Watched == [refs |-> 3, issued |-> 3, commands |-> {m1}, edits |-> 1, starts |-> 1]

\* Three commands and one reference to generate; two commands that set up
\* the first file, beside an editor.
Contended == [refs |-> 2, issued |-> 3, commands |-> {m1, m2, m3},
              edits |-> 0, starts |-> 0]
FirstUse == [refs |-> 0, issued |-> 0, commands |-> {m1, m2}, edits |-> 1, starts |-> 0]

MCShapes == {Watched, Contended, FirstUse}
WatchedShapes == {Watched}
=============================================================================
