---------------------------- MODULE MCPriceCache ----------------------------
\* Instances of PriceCache for TLC.
EXTENDS PriceCache, TLC

Symmetry == Permutations(Ticker) \cup Permutations(Caller)
=============================================================================
