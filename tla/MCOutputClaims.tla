--------------------------- MODULE MCOutputClaims ---------------------------
EXTENDS OutputClaims, TLC

CONSTANTS w1, w2, m1, m2

Sym == Permutations({w1, w2}) \cup Permutations({m1, m2})
=============================================================================
