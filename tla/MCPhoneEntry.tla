---------------------------- MODULE MCPhoneEntry ----------------------------
EXTENDS PhoneEntry, TLC
CONSTANTS a, b, v1, r1, d1, d2, x, y
Symm == Permutations({a, b}) \cup Permutations({d1, d2})
=============================================================================
