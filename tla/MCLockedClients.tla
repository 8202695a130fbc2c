-------------------------- MODULE MCLockedClients ---------------------------
EXTENDS LockedClients, TLC
CONSTANTS c1, c2
Symmetry == Permutations({c1, c2})

Names == {"cpp", "cs", "kt", "rs", "py_threads", "py_tasks"}
Looked(names, tries, sets) == {[name |-> n, retries |-> tries, minted |-> sets] : n \in names}

\* Each of the six with a retry, and each over one token set more without.
MCLibraries == Looked(Names, 1, 2) \cup Looked(Names, 0, 3)
\* The two that retry what fresh() throws.
MCRetryingThrown == Looked({"kt", "rs"}, 1, 2)
=============================================================================
