--------------------------- MODULE MC_KbMembership ---------------------------
\* Bounded instances of KbMembership; the .cfg files give the constants.
EXTENDS KbMembership, TLC

CONSTANTS o, x, y, l1, t1, t2

Users   == {o, x, y}
OneLink == {l1}
TwoTx   == {t1, t2}

\* Users but the owner and requests are interchangeable.
Symmetry == Permutations({x, y})
              \cup Permutations(TwoTx)

=============================================================================
