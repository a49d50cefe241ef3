--------------------------- MODULE MCBoundedStore ---------------------------
\* Instances of BoundedStore for TLC.
EXTENDS BoundedStore, TLC

\* A flag lives as long as a counter here, as a dead letter's snapshot does.
ItemTtl == [job |-> 1, universe |-> 1, flag |-> 2]

Symmetry == Permutations(Thread)
=============================================================================
