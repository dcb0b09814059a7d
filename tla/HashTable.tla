----------------------------- MODULE HashTable -----------------------------
(***************************************************************************)
(* The hash table of the engine (hash_table.hpp, hash_table.cpp): slots of *)
(* buckets, each with a lock and a cached position; buckets that are       *)
(* chains of HashBuckets of kNumEntryPerBucket entries; entries that are   *)
(* erased and taken again.  Writers hold the locks of the slots of their   *)
(* keys, iterators that of their slot, and Get searches without a lock.    *)
(*                                                                         *)
(* A key stands for its bytes and the types it is looked up with.  Strings *)
(* are put without a time to live.  The other modules see the entry of one *)
(* key only.                                                               *)
(***************************************************************************)
EXTENDS Integers, FiniteSets

CONSTANTS
  Thread, Key, None,
  num_hash_buckets_, num_buckets_per_slot_, kNumEntryPerBucket,
  BucketOf,     \* get_bucket_num of the hash of each key
  MaxEntries,   \* bound on the entries of a bucket; there is no memory for more
  Unwritten,    \* what the memory of a new HashBucket may hold
  Workloads

Bucket == 0 .. num_hash_buckets_ - 1
Index == 0 .. MaxEntries - 1
get_slot_num(b) == b \div num_buckets_per_slot_
Slot == {get_slot_num(b) : b \in Bucket}
SlotOf(k) == get_slot_num(BucketOf[k])

Status == {"Normal", "Outdated"}
Entry == [type : {"Invalid", "Empty", "Allocated", "Record"}, key : Key \union {None},
          by : Thread \union {None}, status : Status]

\* Memory of zeros.
Zero == [type |-> "Invalid", key |-> None, by |-> None, status |-> "Normal"]

\* What an entry says of its key, and what there is to say of a key without one.
Content(e) == [by |-> e.by, status |-> e.status]
Absent == [by |-> None, status |-> "Outdated"]

\* A call: Put or Delete of a string, a batch of them, a lockless Get, or an iteration
\* in which the cleaner erases what it may.
Ops == UNION {[S -> {"Put", "Delete"}] : S \in SUBSET Key}
Call == [op : {"Single", "Batch", "Get", "Clean"}, ops : Ops]

\* The calls of each thread, how many it may make, and whether PMem may be full.
Workload == [calls : [Thread -> SUBSET Call], each : [Thread -> Nat], full : BOOLEAN]

ASSUME HashTableAssumption ==
  /\ num_hash_buckets_ \in Nat \ {0} /\ num_buckets_per_slot_ \in Nat \ {0}
  /\ kNumEntryPerBucket \in Nat \ {0} /\ MaxEntries \in Nat \ {0}
  /\ MaxEntries % kNumEntryPerBucket = 0
  /\ BucketOf \in [Key -> Bucket]
  /\ None \notin Thread \union Key
  /\ Unwritten \subseteq Entry
  /\ Workloads \subseteq Workload

\* A Get has one key; None is no position on a chain.
ASSUME GetAssumption ==
  /\ None \notin Nat
  /\ \A w \in Workloads : \A t \in Thread : \A c \in w.calls[t] :
       c.op = "Get" => \E k \in Key : DOMAIN c.ops = {k}

VARIABLES
  entry,      \* hash_buckets_: the entries of each bucket, along its chain
  count,      \* hash_bucket_entries_
  chain,      \* the number of HashBuckets in the chain of a bucket
  cache,      \* Slot::hash_cache: <<bucket, index>> or None
  lock,       \* Slot::spin
  call, pc, calls,
  held,       \* the slots a thread has locked
  todo,       \* the keys it has not looked up yet
  key,        \* the key it looks up
  pos,        \* LookupResult::entry_ptr of each key
  publish,    \* the keys it will insert
  idx, ptr,   \* entry_idx_ and bucket_ptr_ of a HashBucketIterator
  bucket,     \* current_bucket_ of a HashSlotIterator
  got,        \* what Get returns
  workload,
  db,         \* what was inserted last for each key and not erased
  seen,       \* what db was during a Get
  stayed,     \* the keys that were in the table ever since an iteration began
  visited     \* how often the iteration came to each key

tableVars == <<entry, count, chain, cache>>
writeVars == <<held, todo, key, pos, publish>>
readVars == <<idx, ptr, got>>
iterVars == <<bucket, visited>>
ghostVars == <<db, seen, stayed>>
vars == <<tableVars, lock, call, pc, calls, writeVars, readVars, iterVars, workload, ghostVars>>

NoOps == [k \in {} |-> "Put"]
NoCall == [op |-> "Single", ops |-> NoOps]

At(t, p) == pc[t] = p
Goto(t, p) == pc' = [pc EXCEPT ![t] = p]
Keys(t) == DOMAIN call[t].ops

Init ==
  /\ workload \in Workloads
  /\ entry \in [Bucket -> {[i \in Index |-> IF i < kNumEntryPerBucket THEN Zero ELSE e] :
                             e \in Unwritten}]
  /\ count = [b \in Bucket |-> 0] /\ chain = [b \in Bucket |-> 1]
  /\ cache = [s \in Slot |-> None] /\ lock = [s \in Slot |-> None]
  /\ call = [t \in Thread |-> NoCall] /\ pc = [t \in Thread |-> "idle"]
  /\ calls = [t \in Thread |-> 0]
  /\ held = [t \in Thread |-> {}] /\ todo = [t \in Thread |-> {}]
  /\ key = [t \in Thread |-> None]
  /\ pos = [t \in Thread |-> [k \in Key |-> -1]] /\ publish = [t \in Thread |-> {}]
  /\ idx = [t \in Thread |-> 0] /\ ptr = [t \in Thread |-> 0]
  /\ bucket = [t \in Thread |-> 0]
  /\ got = [t \in Thread |-> Absent]
  /\ db = [k \in Key |-> Absent]
  /\ seen = [t \in Thread |-> {}] /\ stayed = [t \in Thread |-> {}]
  /\ visited = [t \in Thread |-> [k \in Key |-> 0]]

(***************************************************************************)
(* Match, for an entry that was loaded.                                    *)
(***************************************************************************)
Match(e, k) == e.type = "Record" /\ e.key = k

\* The entries of its bucket in which a key is found.
Matching(k) == {i \in Index : i < count[BucketOf[k]] /\ Match(entry[BucketOf[k]][i], k)}
Empties(b) == {i \in Index : i < count[b] /\ entry[b][i].type = "Empty"}

SetType(S, ty) ==
  [b \in Bucket |-> [i \in Index |->
     IF <<b, i>> \in S THEN [entry[b][i] EXCEPT !.type = ty] ELSE entry[b][i]]]

\* Whoever reads the key meanwhile may find the new content or the one before.
Becomes(k, c) ==
  /\ db' = [db EXCEPT ![k] = c]
  /\ seen' = [u \in Thread |-> IF call[u].op = "Get" /\ k \in Keys(u)
                               THEN seen[u] \union {c} ELSE seen[u]]
  /\ stayed' = [u \in Thread |-> IF c = Absent THEN stayed[u] \ {k} ELSE stayed[u]]

----------------------------------------------------------------------------
(***************************************************************************)
(* A call begins.                                                          *)
(***************************************************************************)
Start(t) ==
  /\ At(t, "idle") /\ calls[t] < workload.each[t]
  /\ \E c \in workload.calls[t] :
       /\ call' = [call EXCEPT ![t] = c]
       /\ Goto(t, CASE c.op = "Get" -> "cache" [] c.op = "Clean" -> "slot" [] OTHER -> "lock")
       /\ todo' = [todo EXCEPT ![t] = IF c.op \in {"Single", "Batch"} THEN DOMAIN c.ops ELSE {}]
       /\ seen' = [seen EXCEPT ![t] = IF c.op = "Get" THEN {db[k] : k \in DOMAIN c.ops} ELSE {}]
       /\ stayed' = [stayed EXCEPT ![t] = IF c.op = "Clean" THEN {k \in Key : db[k] # Absent}
                                         ELSE {}]
  /\ calls' = [calls EXCEPT ![t] = @ + 1]
  /\ UNCHANGED <<tableVars, lock, held, key, pos, publish, readVars, iterVars, workload, db>>

\* The end of a call: the guard of the locks is destroyed.
Return(t) ==
  /\ lock' = [s \in Slot |-> IF s \in held[t] THEN None ELSE lock[s]]
  /\ held' = [held EXCEPT ![t] = {}] /\ todo' = [todo EXCEPT ![t] = {}]
  /\ publish' = [publish EXCEPT ![t] = {}]
  /\ key' = [key EXCEPT ![t] = None] /\ pos' = [pos EXCEPT ![t] = [k \in Key |-> -1]]
  /\ idx' = [idx EXCEPT ![t] = 0] /\ ptr' = [ptr EXCEPT ![t] = 0]
  /\ got' = [got EXCEPT ![t] = Absent] /\ call' = [call EXCEPT ![t] = NoCall]
  /\ bucket' = [bucket EXCEPT ![t] = 0]
  /\ visited' = [visited EXCEPT ![t] = [k \in Key |-> 0]]
  /\ seen' = [seen EXCEPT ![t] = {}] /\ stayed' = [stayed EXCEPT ![t] = {}]
  /\ Goto(t, "idle")
  /\ UNCHANGED <<count, chain, cache, calls, workload, db>>

----------------------------------------------------------------------------
(***************************************************************************)
(* AcquireLock and RangeLock: the locks of all keys, in order.             *)
(***************************************************************************)
Lock(t) ==
  /\ At(t, "lock")
  /\ \E s \in {SlotOf(k) : k \in Keys(t)} \ held[t] :
       /\ \A k \in Keys(t) : SlotOf(k) < s => SlotOf(k) \in held[t]
       /\ lock[s] = None
       /\ lock' = [lock EXCEPT ![s] = t]
       /\ held' = [held EXCEPT ![t] = @ \union {s}]
       /\ Goto(t, IF \A k \in Keys(t) : SlotOf(k) \in held'[t] THEN "lookup" ELSE "lock")
  /\ UNCHANGED <<tableVars, call, calls, todo, key, pos, publish, readVars, iterVars,
                 workload, ghostVars>>

\* stringWritePrepare looks a key up that is to be deleted as if to insert it.
MayInsert(t, k) == call[t].op = "Batch" \/ call[t].ops[k] = "Put"

\* The search of Lookup, with the slot locked: the cached entry, else the first one.
IsFound(k, i) ==
  /\ i \in Matching(k)
  /\ \/ cache[SlotOf(k)] = <<BucketOf[k], i>>
     \/ \A j \in Matching(k) : cache[SlotOf(k)] # <<BucketOf[k], j>> /\ i <= j

\* The key is there: it is written unless it is to be deleted and already is.
LookupFinds(t, k) ==
  /\ \E i \in Index :
       /\ IsFound(k, i)
       /\ pos' = [pos EXCEPT ![t][k] = i]
       /\ cache' = [cache EXCEPT ![SlotOf(k)] = <<BucketOf[k], i>>]
       /\ publish' = IF call[t].ops[k] = "Put" \/ entry[BucketOf[k]][i].status = "Normal"
                     THEN [publish EXCEPT ![t] = @ \union {k}] ELSE publish
  /\ UNCHANGED <<entry, key, pc>>

\* mutant: the empty entry is not marked, and the next key of the batch takes it too
LookupReusesUnmarked(t, k) ==
  /\ Matching(k) = {} /\ MayInsert(t, k)
  /\ \E i \in Empties(BucketOf[k]) :
       /\ \A j \in Empties(BucketOf[k]) : j <= i
       /\ pos' = [pos EXCEPT ![t][k] = i]
  /\ publish' = IF call[t].ops[k] = "Put"
                THEN [publish EXCEPT ![t] = @ \union {k}] ELSE publish
  /\ UNCHANGED <<entry, cache, key, pc>>

\* It is not there, and an empty entry is taken: the last one of the bucket.
LookupReuses(t, k) ==
  /\ Matching(k) = {} /\ MayInsert(t, k)
  /\ \E i \in Empties(BucketOf[k]) :
       /\ \A j \in Empties(BucketOf[k]) : j <= i
       /\ entry' = SetType({<<BucketOf[k], i>>}, "Allocated")
       /\ pos' = [pos EXCEPT ![t][k] = i]
  /\ publish' = IF call[t].ops[k] = "Put"
                THEN [publish EXCEPT ![t] = @ \union {k}] ELSE publish
  /\ UNCHANGED <<cache, key, pc>>

LookupAllocates(t, k) ==
  /\ Matching(k) = {} /\ MayInsert(t, k) /\ Empties(BucketOf[k]) = {}
  /\ key' = [key EXCEPT ![t] = k]
  /\ Goto(t, "allocate")
  /\ UNCHANGED <<entry, cache, pos, publish>>

LookupFails(t, k) ==
  /\ Matching(k) = {} /\ ~MayInsert(t, k)
  /\ UNCHANGED <<entry, cache, key, pos, publish, pc>>

Lookup(t) ==
  /\ At(t, "lookup")
  /\ \E k \in todo[t] :
       /\ todo' = [todo EXCEPT ![t] = @ \ {k}]
       /\ \/ LookupFinds(t, k) \/ LookupReuses(t, k)
          \/ LookupAllocates(t, k) \/ LookupFails(t, k)
  /\ UNCHANGED <<count, chain, lock, call, calls, held, readVars, iterVars, workload, ghostVars>>

(***************************************************************************)
(* allocateEntry: a HashBucket for the chain if the last one is full, then *)
(* the count, then Clear and MarkAsAllocated.  Get does not wait.          *)
(***************************************************************************)
IsFull(b) == count[b] > 0 /\ count[b] % kNumEntryPerBucket = 0

Link(t) ==
  /\ At(t, "allocate")
  /\ LET b == BucketOf[key[t]] IN
     /\ IsFull(b) /\ count[b] < MaxEntries
     /\ chain' = [chain EXCEPT ![b] = @ + 1]
  /\ Goto(t, "count")
  /\ UNCHANGED <<entry, count, cache, lock, call, calls, writeVars, readVars, iterVars,
                 workload, ghostVars>>

CountEntry(t) ==
  /\ LET b == BucketOf[key[t]] IN
     /\ At(t, "count") \/ (At(t, "allocate") /\ ~IsFull(b))
     /\ count[b] < MaxEntries
     /\ count' = [count EXCEPT ![b] = @ + 1]
     /\ pos' = [pos EXCEPT ![t][key[t]] = count[b]]
  /\ Goto(t, "clear")
  /\ UNCHANGED <<entry, chain, cache, lock, call, calls, held, todo, key, publish, readVars,
                 iterVars, workload, ghostVars>>

MarkAsAllocated(t) ==
  /\ At(t, "clear")
  /\ entry' = SetType({<<BucketOf[key[t]], pos[t][key[t]]>>}, "Allocated")
  /\ publish' = IF call[t].ops[key[t]] = "Put"
                THEN [publish EXCEPT ![t] = @ \union {key[t]}] ELSE publish
  /\ Goto(t, "lookup")
  /\ UNCHANGED <<count, chain, cache, lock, call, calls, held, todo, key, pos, readVars,
                 iterVars, workload, ghostVars>>

(***************************************************************************)
(* The calls that fail.  A Put leaves its entry as it is; ReleaseResources *)
(* of a batch clears what is still marked (in MemoryOverflow the last      *)
(* entry of the bucket is entry_ptr).  If it comes to a key that was not   *)
(* looked up it uses a null pointer, and the process ends.                 *)
(***************************************************************************)
Fail(t, ptrs) ==
  /\ todo[t] = {}
  /\ entry' = IF call[t].op = "Batch"
              THEN SetType({p \in ptrs : entry[p[1]][p[2]].type = "Allocated"}, "Empty")
              ELSE entry
  /\ Return(t)

Pointers(t) == {<<BucketOf[k], pos[t][k]>> : k \in {j \in Keys(t) : pos[t][j] # -1}}

MemoryOverflow(t) ==
  /\ At(t, "allocate") /\ IsFull(BucketOf[key[t]])
  /\ workload.full \/ count[BucketOf[key[t]]] = MaxEntries
  /\ Fail(t, Pointers(t) \union {<<BucketOf[key[t]], count[BucketOf[key[t]]] - 1>>})

PmemOverflow(t) ==
  /\ At(t, "lookup") /\ publish[t] # {} /\ workload.full
  /\ Fail(t, Pointers(t))

(***************************************************************************)
(* Insert at the position that Lookup returned, by one store of 16 bytes.  *)
(***************************************************************************)
Inserted(t, k) ==
  [type |-> "Record", key |-> k, by |-> t,
   status |-> IF call[t].ops[k] = "Put" THEN "Normal" ELSE "Outdated"]

Insert(t) ==
  /\ pc[t] \in {"lookup", "insert"} /\ todo[t] = {}
  /\ \E k \in publish[t] :
       /\ entry' = [entry EXCEPT ![BucketOf[k]][pos[t][k]] = Inserted(t, k)]
       /\ publish' = [publish EXCEPT ![t] = @ \ {k}]
       /\ Becomes(k, Content(Inserted(t, k)))
  /\ Goto(t, "insert")
  /\ UNCHANGED <<count, chain, cache, lock, call, calls, held, todo, key, pos, readVars,
                 iterVars, workload>>

Finish(t) ==
  /\ pc[t] \in {"lookup", "insert"} /\ todo[t] = {} /\ publish[t] = {}
  /\ Return(t)
  /\ UNCHANGED entry

----------------------------------------------------------------------------
(***************************************************************************)
(* Lookup<false> without a lock, one access to shared memory at a time.    *)
(***************************************************************************)
GetUnchanged ==
  UNCHANGED <<entry, count, chain, lock, call, calls, writeVars, visited, workload, ghostVars>>

TheKey(t) == CHOOSE k \in Keys(t) : TRUE

\* entry_ptr of the cache, which may be in another bucket of the slot.
GetCache(t) ==
  /\ At(t, "cache")
  /\ LET cached == cache[SlotOf(TheKey(t))] IN
     IF cached = None
     THEN /\ Goto(t, "valid")
          /\ UNCHANGED <<bucket, idx>>
     ELSE /\ Goto(t, "cached")
          /\ bucket' = [bucket EXCEPT ![t] = cached[1]]
          /\ idx' = [idx EXCEPT ![t] = cached[2]]
  /\ UNCHANGED <<cache, ptr, got>> /\ GetUnchanged

GetCached(t) ==
  /\ At(t, "cached")
  /\ LET e == entry[bucket[t]][idx[t]] IN
     IF Match(e, TheKey(t))
     THEN /\ Goto(t, "return")
          /\ got' = [got EXCEPT ![t] = Content(e)]
          /\ UNCHANGED idx
     ELSE /\ Goto(t, "valid")
          /\ idx' = [idx EXCEPT ![t] = 0]
          /\ UNCHANGED got
  /\ UNCHANGED <<cache, ptr, bucket>> /\ GetUnchanged

\* iter.Valid()
GetValid(t) ==
  /\ At(t, "valid")
  /\ Goto(t, IF ptr[t] # None /\ idx[t] < count[BucketOf[TheKey(t)]] THEN "load" ELSE "return")
  /\ UNCHANGED <<cache, readVars, bucket>> /\ GetUnchanged

\* mutant: an empty entry ends the search
GetLoadToEmpty(t) ==
  /\ At(t, "load")
  /\ LET b == BucketOf[TheKey(t)]
         i == (ptr[t] * kNumEntryPerBucket) + (idx[t] % kNumEntryPerBucket)
     IN IF Match(entry[b][i], TheKey(t))
        THEN /\ cache' = [cache EXCEPT ![get_slot_num(b)] = <<b, i>>]
             /\ got' = [got EXCEPT ![t] = Content(entry[b][i])]
             /\ Goto(t, "return")
        ELSE /\ Goto(t, IF entry[b][i].type = "Empty" THEN "return" ELSE "next")
             /\ UNCHANGED <<cache, got>>
  /\ UNCHANGED <<idx, ptr, bucket>> /\ GetUnchanged

\* bucket_ptr_ and entry_idx_ may differ: another thread may have begun a HashBucket
\* after next() found the one before to be the last.
GetLoad(t) ==
  /\ At(t, "load")
  /\ LET b == BucketOf[TheKey(t)]
         i == (ptr[t] * kNumEntryPerBucket) + (idx[t] % kNumEntryPerBucket)
     IN IF Match(entry[b][i], TheKey(t))
        THEN /\ cache' = [cache EXCEPT ![get_slot_num(b)] = <<b, i>>]
             /\ got' = [got EXCEPT ![t] = Content(entry[b][i])]
             /\ Goto(t, "return")
        ELSE Goto(t, "next") /\ UNCHANGED <<cache, got>>
  /\ UNCHANGED <<idx, ptr, bucket>> /\ GetUnchanged

\* HashBucketIterator::next
GetNext(t) ==
  /\ At(t, "next")
  /\ LET b == BucketOf[TheKey(t)]
         i == idx[t] + 1
     IN /\ idx' = [idx EXCEPT ![t] = i]
        /\ ptr' = IF i % kNumEntryPerBucket = 0 /\ i < count[b]
                  THEN [ptr EXCEPT ![t] = IF @ + 1 < chain[b] THEN @ + 1 ELSE None]
                  ELSE ptr
  /\ Goto(t, "valid")
  /\ UNCHANGED <<cache, got, bucket>> /\ GetUnchanged

GetReturn(t) ==
  /\ At(t, "return") /\ call[t].op = "Get"
  /\ Return(t)
  /\ UNCHANGED entry

----------------------------------------------------------------------------
(***************************************************************************)
(* HashTableIterator and HashSlotIterator, as the cleaner uses them: slot  *)
(* after slot under its lock, from entry to entry.  The cleaner erases     *)
(* outdated entries that no snapshot needs.                                *)
(***************************************************************************)
InSlot(b, s) == b \in Bucket /\ get_slot_num(b) = s

\* getBucket: the first bucket with entries from b on, in the slot; else the first one
\* of the next slot, or the end.
FirstWithEntries(b, s, c) ==
  /\ InSlot(c, s) /\ count[c] > 0 /\ c >= b
  /\ \A d \in Bucket : InSlot(d, s) /\ count[d] > 0 /\ d >= b => c <= d

\* Slot() after AcquireSlotLock; an empty slot is left at once.
Move(t, b, s) ==
  \/ \E c \in Bucket : /\ FirstWithEntries(b, s, c)
                       /\ bucket' = [bucket EXCEPT ![t] = c]
                       /\ idx' = [idx EXCEPT ![t] = 0]
                       /\ Goto(t, "visit")
                       /\ lock' = [lock EXCEPT ![s] = t]
                       /\ held' = [held EXCEPT ![t] = {s}]
  \/ /\ \A c \in Bucket : InSlot(c, s) /\ c >= b => count[c] = 0
     /\ bucket' = [bucket EXCEPT ![t] = (s + 1) * num_buckets_per_slot_]
     /\ idx' = [idx EXCEPT ![t] = 0]
     /\ Goto(t, IF bucket'[t] \in Bucket THEN "slot" ELSE "return")
     /\ lock' = [lock EXCEPT ![s] = None]
     /\ held' = [held EXCEPT ![t] = {}]

SlotBegin(t) ==
  /\ At(t, "slot") /\ lock[get_slot_num(bucket[t])] = None
  /\ Move(t, bucket[t], get_slot_num(bucket[t]))
  /\ UNCHANGED <<tableVars, call, calls, todo, key, pos, publish, ptr, got, visited, workload,
                 ghostVars>>

Visit(t) ==
  /\ At(t, "visit")
  /\ LET b == bucket[t]
         e == entry[b][idx[t]]
     IN /\ visited' = IF e.type = "Record" THEN [visited EXCEPT ![t][e.key] = @ + 1] ELSE visited
        /\ \/ /\ e.type = "Record" /\ e.status = "Outdated"
              /\ entry' = SetType({<<b, idx[t]>>}, "Empty")
              /\ Becomes(e.key, Absent)
           \/ UNCHANGED <<entry, ghostVars>>
        /\ IF idx[t] + 1 < count[b]
           THEN /\ idx' = [idx EXCEPT ![t] = @ + 1]
                /\ UNCHANGED <<bucket, pc, lock, held>>
           ELSE Move(t, b + 1, get_slot_num(b))
  /\ UNCHANGED <<count, chain, cache, call, calls, todo, key, pos, publish, ptr, got, workload>>

IterationEnds(t) ==
  /\ At(t, "return") /\ call[t].op = "Clean"
  /\ Return(t)
  /\ UNCHANGED entry

----------------------------------------------------------------------------
Step(t) ==
  \/ Start(t) \/ Lock(t) \/ Lookup(t) \/ Link(t) \/ CountEntry(t) \/ MarkAsAllocated(t)
  \/ MemoryOverflow(t) \/ PmemOverflow(t) \/ Insert(t) \/ Finish(t)
  \/ GetCache(t) \/ GetCached(t) \/ GetValid(t) \/ GetLoad(t) \/ GetNext(t) \/ GetReturn(t)
  \/ SlotBegin(t) \/ Visit(t) \/ IterationEnds(t)

Next == \E t \in Thread : Step(t)

Spec == Init /\ [][Next]_vars

----------------------------------------------------------------------------
Location ==
  {"idle", "lock", "lookup", "allocate", "count", "clear", "insert", "cache", "cached", "valid",
   "load", "next", "slot", "visit", "return"}

TypeOK ==
  /\ entry \in [Bucket -> [Index -> Entry]]
  /\ count \in [Bucket -> 0 .. MaxEntries] /\ chain \in [Bucket -> Nat]
  /\ lock \in [Slot -> Thread \union {None}]
  /\ call \in [Thread -> Call] /\ workload \in Workloads
  /\ pc \in [Thread -> Location]
  /\ held \in [Thread -> SUBSET Slot] /\ todo \in [Thread -> SUBSET Key]
  /\ key \in [Thread -> Key \union {None}]
  /\ pos \in [Thread -> [Key -> Index \union {-1}]] /\ publish \in [Thread -> SUBSET Key]
  /\ db \in [Key -> [by : Thread \union {None}, status : Status]]

(***************************************************************************)
(* A key has one entry at most, and it is in its bucket: the entry in      *)
(* which the last Insert put it, unless it was erased.  So no Insert       *)
(* overwrites the entry of another key, and none is made beside one that   *)
(* is there, also within a batch whose keys share a bucket (Lookup<true>,  *)
(* allocateEntry, Insert, Erase).                                          *)
(***************************************************************************)
OneEntryPerKey ==
  /\ TypeOK
  /\ \A b \in Bucket : \A i, j \in Index :
       /\ i < count[b] /\ entry[b][i].type = "Record"
       /\ j < count[b] /\ entry[b][j].type = "Record"
       /\ entry[b][i].key = entry[b][j].key
       => i = j
  /\ \A b \in Bucket : \A i \in Index :
       i < count[b] /\ entry[b][i].type = "Record" =>
         /\ entry[b][i].key \in Key /\ BucketOf[entry[b][i].key] = b
         /\ db[entry[b][i].key] = Content(entry[b][i])
  /\ \A k \in Key : db[k] # Absent => Matching(k) # {}

(***************************************************************************)
(* Lookup<false> without the lock finds what its key had at some time      *)
(* during the search, and nothing only if there was nothing at some time;  *)
(* it stays on the chain of HashBuckets.  An iteration comes once to every *)
(* key that is there from its beginning to its end, and never twice to any *)
(* (HashBucketIterator, HashSlotIterator).                                 *)
(***************************************************************************)
SearchesAreCurrent ==
  \A t \in Thread :
    /\ ptr[t] # None
    /\ At(t, "return") /\ call[t].op = "Get" => got[t] \in seen[t]
    /\ \A k \in Key : visited[t][k] <= 1
    /\ At(t, "return") => \A k \in stayed[t] : visited[t][k] = 1

\* An entry that is marked as allocated belongs to a call in progress.
AllocatedIsOwned ==
  \A b \in Bucket : \A i \in Index :
    entry[b][i].type = "Allocated" => \E t \in Thread : <<b, i>> \in Pointers(t)

\* Lookup<false> loads no entry that was never written; "Value uninitialized
\* considered as Invalid" (PointerType).
LoadsWrittenEntries ==
  \A t \in Thread : At(t, "load") =>
    entry[BucketOf[TheKey(t)]]
      [(ptr[t] * kNumEntryPerBucket) + (idx[t] % kNumEntryPerBucket)].type # "Invalid"
=============================================================================
