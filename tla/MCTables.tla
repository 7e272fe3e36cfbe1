------------------------------ MODULE MCTables ------------------------------
(***************************************************************************)
(* The process table and the buffer cache.  They share no state here: a    *)
(* behaviour is of one of them, the other stays in an initial state.       *)
(***************************************************************************)
EXTENDS Proc, Bcache, TLC

VARIABLE part       \* the component that runs

\* The CPUs and the blocks other than Block0 are the same model values, so that each
\* component is symmetric under one group.
Perms == Permutations(Users) \cup Permutations(CPUS)
ASSUME SameValues == CPUS = Blocks \ {Block0}

MCInit ==
    /\ part \in {"processes", "buffers"}
    /\ Init
    /\ CacheInit
    /\ part = "processes" =>
         LET v == CHOOSE v \in Values : TRUE IN disk = [b \in Blocks |-> v] /\ data = [b \in Bufs |-> v]

MCNext ==
    \/ part = "processes" /\ Next /\ UNCHANGED <<part, cacheVars>>
    \/ part = "buffers" /\ CacheNext /\ UNCHANGED <<part, vars>>

MCSpec == MCInit /\ [][MCNext]_<<part, vars, cacheVars>>
=============================================================================
