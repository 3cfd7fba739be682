------------------------- MODULE MC_ObjectLifecycle -------------------------
\* Bounded instances of ObjectLifecycle; the .cfg files give the constants.
EXTENDS ObjectLifecycle

CONSTANTS w1, w2

OneWorker  == {w1}
TwoWorkers == {w1, w2}

=============================================================================
