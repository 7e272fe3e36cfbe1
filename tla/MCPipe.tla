------------------------------- MODULE MCPipe -------------------------------
EXTENDS Pipe, TLC

Perms == Permutations(Procs)
=============================================================================
