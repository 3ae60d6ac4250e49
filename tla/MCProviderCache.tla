---------------------------- MODULE MCProviderCache ----------------------------
EXTENDS ProviderCache, TLC
CONSTANTS p, q, x, y, z, a, b

Symmetric == Permutations({p, q}) \cup Permutations({x, y, z}) \cup Permutations({a, b})
==============================================================================
