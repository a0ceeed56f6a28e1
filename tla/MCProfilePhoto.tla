--------------------------- MODULE MCProfilePhoto ---------------------------
EXTENDS ProfilePhoto, TLC
CONSTANTS a, v1, r1, r2, p, q
Symm == Permutations({r1, r2}) \cup Permutations({p, q})
=============================================================================
