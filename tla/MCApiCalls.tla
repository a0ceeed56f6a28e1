----------------------------- MODULE MCApiCalls -----------------------------
EXTENDS ApiCalls, TLC
CONSTANTS a, b, v1, r1, r2, c1
Symm == Permutations({a, b}) \cup Permutations({r1, r2})
=============================================================================
