----------------------------- MODULE MCLoginGuard -----------------------------
EXTENDS LoginGuard, TLC

CONSTANTS c1, c2

MCClients == {c1, c2}

\* The clients are interchangeable; the run checks safety only.
Symmetry == Permutations(MCClients)
=============================================================================
