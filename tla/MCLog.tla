------------------------------- MODULE MCLog -------------------------------
EXTENDS Log, TLC

Perms == Permutations(Ops) \cup Permutations(Blocks)
=============================================================================
