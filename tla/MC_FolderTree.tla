--------------------------- MODULE MC_FolderTree ---------------------------
\* Bounded instances of FolderTree; the .cfg file gives the constants.
EXTENDS FolderTree, TLC

CONSTANTS root, a, b, c, d, e, t1, t2, t3

SixFolders == {root, a, b, c, d, e}
ThreeTx    == {t1, t2, t3}

\* Folders but the root are interchangeable, and so are transactions.
Symmetry == Permutations(SixFolders \ {root}) \cup Permutations(ThreeTx)

=============================================================================
