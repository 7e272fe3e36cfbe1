------------------------------- MODULE MCProc -------------------------------
EXTENDS Proc, TLC

Perms == Permutations(CPUS)

\* Reduction for the search of a deep counterexample: slots are handed out in
\* order the first time, and only init ever has two children.
OneLineOfDescent ==
  /\ \A q \in Procs : pid[q] \in {0, q, NPROC + 1}
  /\ \A q, r \in Procs : q # r /\ parent[q] = parent[r] => parent[q] \in {NoProc, initproc}
=============================================================================
