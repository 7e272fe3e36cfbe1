------------------------------ MODULE MCVirtio ------------------------------
EXTENDS Virtio, TLC

Perms == Permutations(Procs)
=============================================================================
