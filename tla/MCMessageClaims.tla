-------------------------- MODULE MCMessageClaims --------------------------
EXTENDS MessageClaims, TLC

CONSTANTS w1, w2, m1, m2

Sym == Permutations(Workers) \cup Permutations(Messages)
=============================================================================
