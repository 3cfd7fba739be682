---------------------- MODULE MC_KnowledgeDocuments ----------------------
(* Instances of KnowledgeDocuments for TLC.                                *)
EXTENDS KnowledgeDocuments, TLC

Symmetry == Permutations(Tx)

\* A title whose folded form sorts after it, as a final sigma's, and one whose
\* folded form sorts before it, as a sharp s's
FoldedTitles == [key \in Key |-> IF key = 1 THEN 2 ELSE 1]

\* Creation times, and titles that fold to lower(title)
SameKeys == [key \in Key |-> key]
=============================================================================
