-------------------------- MODULE MCSchemaMigration --------------------------
EXTENDS SchemaMigration, TLC
CONSTANTS a, b, c

Openers == {a, b, c}
Symmetric == Permutations(Openers)
==============================================================================
