----------------------------- MODULE MCJobSystem -----------------------------
\* Instances of JobSystem for TLC: symmetry and bounds live in the .cfg files.
EXTENDS JobRefinement, TLC

Symmetry == Permutations(Job) \cup Permutations(Worker)
              \cup Permutations(Request)
=============================================================================
