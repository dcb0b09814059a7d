---------------------------- MODULE MCHashTable ----------------------------
(***************************************************************************)
(* Small instances of HashTable: two slots of two buckets, two entries in  *)
(* a HashBucket.                                                           *)
(***************************************************************************)
EXTENDS HashTable, TLC

CONSTANTS t1, t2, t3, k1, k2, k3, k4

Threads == {t1, t2, t3}
FourKeys == {k1, k2, k3, k4}

\* Three keys in the second bucket, one in the third; the others are empty.
Buckets == (k1 :> 1) @@ (k2 :> 1) @@ (k3 :> 1) @@ (k4 :> 2)

Zeros == {Zero}

Put(k) == [op |-> "Single", ops |-> k :> "Put"]
Delete(k) == [op |-> "Single", ops |-> k :> "Delete"]
Get(k) == [op |-> "Get", ops |-> k :> "Put"]
Clean == [op |-> "Clean", ops |-> NoOps]
Batch(k, o, j, p) == [op |-> "Batch", ops |-> (k :> o) @@ (j :> p)]

Load(first, n1, second, n2, third, n3) ==
  [calls |-> (t1 :> first) @@ (t2 :> second) @@ (t3 :> third),
   each |-> (t1 :> n1) @@ (t2 :> n2) @@ (t3 :> n3), full |-> FALSE]

\* A search while entries are added, erased and used again.
Searched == Load({Put(k1), Put(k2), Put(k3), Delete(k2)}, 3, {Get(k3)}, 1, {Clean}, 1)

\* Batches whose keys share a bucket, beside single writes and a search.
Batched ==
  [Load({Batch(k1, "Put", k2, "Put"), Batch(k2, "Delete", k4, "Put")}, 2,
        {Put(k3), Delete(k4)}, 2, {Get(k2)}, 1) EXCEPT !.full = TRUE]

\* Two iterations that erase, beside writers.
Iterated == Load({Put(k1), Delete(k1), Put(k4)}, 3, {Clean}, 2, {Put(k2), Put(k3)}, 2)

AllWorkloads == {Searched, Batched, Iterated}
=============================================================================
