----------------------------- MODULE MCUpdateSet -----------------------------
(* UpdateSet on small installations.                                       *)
EXTENDS UpdateSet

Installed(sibling, exe, single, locks) ==
    [installed |-> <<sibling, exe>>, single |-> single, locks |-> locks]

\* Without a sibling and with the running image locked; with a sibling; the
\* policy of the executable alone.
SmallInstallations == {Installed(0, 1, FALSE, TRUE), Installed(1, 1, FALSE, FALSE),
                       Installed(1, 1, TRUE, FALSE)}

\* Generation 2 brings the sibling, the others only the executable.
SiblingLater == <<{2}, {1, 2}, {2}>>
=============================================================================
