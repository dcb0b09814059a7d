--------------------------- MODULE MCStringEngine ---------------------------
(***************************************************************************)
(* Small instances of StringEngine for TLC.                                *)
(***************************************************************************)
EXTENDS StringEngine, TLC

CONSTANTS t1, t2, c1

TwoThreads == {t1, t2}
OneCleaner == {c1}
OwnSlots == (t1 :> 0) @@ (t2 :> 1)
Nobody == {}

Plain(ops) ==
  [ops |-> ops, records |-> 2, snapshots |-> 1, cached |-> 0, ttl |-> FALSE, scan |-> FALSE]

\* Writers beside lockless readers.  In the last workload calls come to the
\* count at which they update the oldest local snapshot.
Readers ==
  {Plain((t1 :> {"Put"}) @@ (t2 :> {"Get"})),
   Plain((t1 :> {"Modify", "Get"}) @@ (t2 :> {"Delete"})),
   [Plain((t1 :> {"Put", "Expire"}) @@ (t2 :> {"GetTTL"})) EXCEPT !.scan = TRUE]}

\* Two writers, expiring records, and a cache that is taken when it is longer than 1.
Writers ==
  [Plain((t1 :> {"Put"}) @@ (t2 :> {"ModifyDelete"}))
     EXCEPT !.records = 3, !.cached = 1, !.ttl = TRUE]

\* Snapshots beside writes, deletes and the cleaner, and beside each other.
Snapshotted ==
  {[Plain((t1 :> {"Put", "Delete"}) @@ (t2 :> {"GetSnapshot"})) EXCEPT !.records = 3],
   [Plain((t1 :> {"Modify", "GetSnapshot"}) @@ (t2 :> {"GetSnapshot"}))
      EXCEPT !.snapshots = 2]}

\* A backup beside writes; no entry of the hash table is ever erased.
BackedUp == Plain((t1 :> {"Put"}) @@ (t2 :> {"GetSnapshot", "Backup"}))

AllWorkloads == Readers \cup Snapshotted \cup {Writers, BackedUp}

BackupAndDelete ==
  {Plain((t1 :> {"Put", "Delete"}) @@ (t2 :> {"GetSnapshot", "Backup"}))}

ExpireAndDelete ==
  {[Plain((t1 :> {"Put", "Expire"}) @@ (t2 :> {"Delete"})) EXCEPT !.records = 3]}
=============================================================================
