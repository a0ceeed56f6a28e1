------------------------------ MODULE MCSignIn ------------------------------
EXTENDS SignIn, TLC
CONSTANTS a, b, v1, v2, r1, r2
Symm == Permutations({a, b}) \cup Permutations({v1, v2}) \cup Permutations({r1, r2})
=============================================================================
