----------------------------- MODULE MCWerewolf -----------------------------
EXTENDS Werewolf, TLC

CONSTANTS u1, u2, u3, u4, c1, c2, g1

Symmetry == Permutations(Users) \cup Permutations(Clicks)
=============================================================================
