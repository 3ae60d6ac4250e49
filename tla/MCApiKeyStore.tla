---------------------------- MODULE MCApiKeyStore ----------------------------
EXTENDS ApiKeyStore, TLC
CONSTANTS openai, kimi, v1, v2, pass1, pass2, c1, c2

Alike == Permutations(Provider) \cup Permutations(Value) \cup Permutations(Pass)
         \cup Permutations(Caller)
==============================================================================
