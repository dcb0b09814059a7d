-------------------------- MODULE MCPMEMAllocator --------------------------
(***************************************************************************)
(* Instances of PMEMAllocator: two threads, three segments of four blocks. *)
(***************************************************************************)
EXTENDS PMEMAllocator

CONSTANTS t1, t2

TwoThreads == {t1, t2}

\* Sizes of the two threads, then the bounds on allocations, merges and crashes.
Load(of1, of2, n, m, c) ==
  [sizes |-> (t1 :> of1) @@ (t2 :> of2), allocs |-> n, merges |-> m, crashes |-> c]

AllWorkloads ==
  { \* one thread frees small spaces while they are merged, the other wants a larger one
    Load({1}, {2}, 3, 1, 0),
    \* merges into a large space
    Load({1, 2}, {}, 3, 1, 0),
    \* a merge and a crash
    Load({1, 2}, {}, 2, 1, 1),
    \* small and large spaces in both caches
    Load({1, 3}, {2}, 3, 0, 0),
    \* two threads and a crash
    Load({1}, {3}, 2, 0, 1),
    \* whole segments until none is left
    Load({4}, {4}, 4, 0, 0) }

\* Segments run out while a thread has the rest of one.
Overflowing == {Load({2, 3}, {}, 5, 0, 0)}
=============================================================================
