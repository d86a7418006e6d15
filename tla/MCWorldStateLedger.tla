-------------------------- MODULE MCWorldStateLedger --------------------------
(* Small instances of WorldStateLedger for TLC. *)
EXTENDS WorldStateLedger, TLC

Set(path, old, kind, n) == [path |-> path, old |-> old, new |-> [kind |-> kind, n |-> n]]

\* A blind credit, a spend that is stale unless the credit came first and sends
\* its budget as a string, and an overdraft that writes its path twice with a
\* path that is no field in between.
MCMutationLists ==
    {<<Set("remaining", None, "int", 2)>>,
     <<Set("remaining", 2, "text", -1), Set("tasks", 0, "int", 1)>>,
     <<Set("remaining", None, "int", 3), Set("nofield", None, "int", 1), Set("remaining", None, "int", -1)>>}

\* A credit, a guarded spend, an overdraft and a value pydantic refuses.
MCOddLists ==
    {<<Set("remaining", None, "int", 2)>>,
     <<Set("remaining", 2, "int", 1), Set("tasks", 0, "int", 1)>>,
     <<Set("remaining", None, "int", -1)>>,
     <<Set("tasks", None, "bad", 0)>>}

WorkerSymmetry == Permutations(Workers)
ProposalSymmetry == Permutations(Proposals)
Symmetry == WorkerSymmetry \cup ProposalSymmetry
=============================================================================
