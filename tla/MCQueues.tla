------------------------------ MODULE MCQueues ------------------------------
(* Instances of MemoryQueue and SqliteQueue for TLC: the tasks and the     *)
(* replay loops have one of the two stores from the beginning.             *)
EXTENDS SqliteQueue, TLC

CONSTANTS k1, k2, t1, t2, d1, d2

VARIABLE store

Symmetry == Permutations({k1, k2}) \cup Permutations({t1, t2})
            \cup Permutations({d1, d2})

Memory == INSTANCE MemoryQueue

StoresInit == store \in {"memory", "sqlite"} /\ Init

StoresNext ==
    \/ store = "memory" /\ Memory!Next /\ UNCHANGED store
    \/ store = "sqlite" /\ Next /\ UNCHANGED store

StoresSpec == StoresInit /\ [][StoresNext]_<<store, vars>>
=============================================================================
