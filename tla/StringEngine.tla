---------------------------- MODULE StringEngine ----------------------------
(***************************************************************************)
(* String keys of a KVDK instance, and the freeing of the versions that    *)
(* are no longer needed: engine/kv_engine_string.cpp, the string part of   *)
(* engine/kv_engine_cleaner.cpp, and from engine/kv_engine.cpp Expire,     *)
(* GetTTL, TypeOf, lookupKey, removeOutDatedVersion and the string part of *)
(* Backup.                                                                 *)
(*                                                                         *)
(* A record is a number, given in the order in which records are linked    *)
(* into the index and never reused; the memory of a record may be reused   *)
(* once it is in freed.  The versions of a key hang on its hash entry,     *)
(* newest first, so they are a set of numbers, the largest of which is the *)
(* one the entry points to.  Every key has a hash slot of its own.         *)
(***************************************************************************)
EXTENDS VersionController

CONSTANTS
  NumKeys,         \* the number of keys (and of hash slots)
  MaxRecords,      \* bound: records ever written, in any workload
  Workloads,       \* what the threads call; a behaviour has one of them
  TSO,             \* may the store of a local snapshot be delayed?
  None             \* nobody holds a lock

Key == 1 .. NumKeys
RecordId == 1 .. MaxRecords

WriteOps == {"Put", "Delete", "Modify", "ModifyDelete", "ExpireModify"}
Operation == (WriteOps \ {"ExpireModify"})
             \cup {"Get", "GetTTL", "TypeOf", "Expire", "Backup"}

\* Which functions hold an access thread, a slot lock, a local snapshot.
UsesAccess(o) == o \in WriteOps \cup {"Get", "Expire"}
UsesLock(o) == o \in WriteOps \cup {"GetTTL", "Expire", "Backup"}
UsesHolder(o) == o \in WriteOps \cup {"Get", "Expire"}

(***************************************************************************)
(* A workload: ops[t] are the functions t calls, records bounds the writes *)
(* of a behaviour, snapshots the snapshots made in it, cached is           *)
(* kMaxCachedOldRecords, ttl says whether records expire, scan whether the *)
(* calls of threads come to the count at which they update the oldest      *)
(* local snapshot.                                                         *)
(***************************************************************************)
Workload == [ops : [Thread -> SUBSET (Operation \cup {"GetSnapshot"})],
             records : 0 .. MaxRecords, snapshots : Nat, cached : Nat, ttl : BOOLEAN,
             scan : BOOLEAN]

ASSUME EngineAssumption ==
  /\ NumKeys \in Nat /\ MaxRecords \in Nat
  /\ Workloads \subseteq Workload
  /\ TSO \in BOOLEAN
  /\ Thread \cap Cleaner = {}
  /\ None \notin Proc

VARIABLES
  access,   \* access_thread_cv_[i].holder_id_
  lock,     \* the spin lock of the hash slot of each key
  nrec,     \* the number of records written
  nsnap,    \* the number of snapshots made
  rec,      \* the records in PMem
  index,    \* the pointer in the hash entry; it stays when it is erased
  chain,    \* the versions linked to the hash entry; {}: the entry is Empty
  freed,    \* the records returned to the allocator
  expired,  \* the records whose expire time has passed
  load,     \* one of Workloads
  view,     \* history: what each snapshot has to see
  late,     \* history: snapshots not registered when minTs was read
  spoiled,  \* history: snapshots that lost a value to such a process
  cache,    \* cleaner_thread_cache_[i].outdated_string_records
  pc, op, key,  \* control state of each process
  found,    \* the status lookupKey returned to a thread
  inhand,   \* the record a thread got from the index and still reads
  cut,      \* records a process unlinked and has not handed over yet
  minTs,    \* the GlobalOldestSnapshotTs() a process works with
  loc,      \* the LocalOldestSnapshotTS() tryCleanCached... works with
  pulled,   \* what a cleaner took from a thread's cache
  purge,    \* purge_string_records of a cleaner, a set of chains
  pend      \* pending_purge_strings of a cleaner

lockVars   == <<access, lock>>
dataVars   == <<nrec, rec, index, chain>>
viewVars   == <<view, late, spoiled, nsnap>>
memVars    == <<freed, expired, viewVars, load>>
ctlVars    == <<pc, op, key, found>>
handVars   == <<inhand, cut, minTs, loc>>
cleanVars  == <<pulled, purge, pend>>
vars == <<vcVars, lockVars, dataVars, memVars, cache, ctlVars, handVars,
          cleanVars>>

----------------------------------------------------------------------------
NoRecord == [key |-> 0, ts |-> 0, status |-> "Unwritten"]

Init ==
  /\ VCInit
  /\ load \in Workloads
  /\ access = [s \in Slot |-> None]
  /\ lock = [k \in Key |-> None]
  /\ nrec = 0
  /\ nsnap = 0
  /\ rec = [r \in RecordId |-> NoRecord]
  /\ index = [k \in Key |-> 0]
  /\ chain = [k \in Key |-> {}]
  /\ freed = {}
  /\ expired = {}
  /\ view = [ts \in Timestamp |-> [k \in Key |-> 0]]
  /\ late = [p \in Proc |-> {}]
  /\ spoiled = {}
  /\ cache = [s \in Slot |-> <<>>]
  /\ pc = [p \in Proc |-> "idle"]
  /\ op = [t \in Thread |-> "Get"]
  /\ key = [p \in Proc |-> 0]
  /\ found = [t \in Thread |-> "NotFound"]
  /\ inhand = [t \in Thread |-> 0]
  /\ cut = [p \in Proc |-> {}]
  /\ minTs = [p \in Proc |-> kMaxTimestamp]
  /\ loc = [t \in Thread |-> 0]
  /\ pulled = [c \in Cleaner |-> <<>>]
  /\ purge = [c \in Cleaner |-> {}]
  /\ pend = [c \in Cleaner |-> <<>>]

At(p, label) == pc[p] = label
GoTo(p, label) == pc' = [pc EXCEPT ![p] = label]

(***************************************************************************)
(* removeOutDatedVersion(record, min): walk from the newest version to the *)
(* first one that is not newer than min; what is older than that one is    *)
(* unlinked.                                                               *)
(***************************************************************************)
OutDatedForAll(versions, min) ==
  {r \in versions : \E s \in versions : s > r /\ min \in Timestamp}

OutDated(versions, min) ==
  {r \in versions : \E s \in versions : s > r /\ rec[s].ts <= min}

\* The version a snapshot reads: the newest one that is not newer than it.
VisibleAt(k, ts) ==
  LET seen == {r \in chain[k] : rec[r].ts <= ts}
  IN  IF seen = {} THEN 0
      ELSE CHOOSE r \in seen : \A s \in seen : s <= r

\* What a reader gets from a version: itself, or nothing.
Value(r) ==
  IF r = 0 THEN 0
  ELSE IF rec[r].status = "Normal" /\ r \notin expired THEN r ELSE 0

\* lookupKey(k): the status it returns.
LookupStatus(k) ==
  IF chain[k] = {} THEN "NotFound"
  ELSE IF rec[index[k]].status = "Outdated" \/ index[k] \in expired
       THEN "Outdated"
       ELSE "Ok"

----------------------------------------------------------------------------
(***************************************************************************)
(* A call of the engine by a thread.  AccessThreadCV::Acquire, the first   *)
(* thing most calls do, is re-entrant for the thread that holds the slot.  *)
(***************************************************************************)
AcquireAccessThread(t) ==
  /\ access[SlotOf[t]] \in {None, t}
  /\ access' = [access EXCEPT ![SlotOf[t]] = t]

Start(t) ==
  /\ At(t, "idle")
  /\ \E o \in load.ops[t] \ {"GetSnapshot"}, k \in Key :
       /\ o = "Backup" => Snapshots # {}
       /\ IF UsesAccess(o) THEN AcquireAccessThread(t) ELSE UNCHANGED access
       /\ op' = [op EXCEPT ![t] = o]
       /\ key' = [key EXCEPT ![t] = k]
       /\ GoTo(t, IF UsesLock(o) THEN "lock"
                  ELSE IF UsesHolder(o) THEN "hold" ELSE "lookup")
  /\ UNCHANGED <<vcVars, lock, dataVars, memVars, cache, found, handVars,
                 cleanVars>>

AcquireLock(t) ==
  /\ At(t, "lock")
  /\ lock[key[t]] = None
  /\ lock' = [lock EXCEPT ![key[t]] = t]
  /\ GoTo(t, IF UsesHolder(op[t]) THEN "hold" ELSE "lookup")
  /\ UNCHANGED <<vcVars, access, dataVars, memVars, cache, op, key, found, handVars,
                 cleanVars>>

\* A writer reads the clock under the slot lock, at least one tick after the
\* previous holder of the lock did.
GetLocalSnapshotHolder(t) ==
  /\ At(t, "hold")
  /\ \E ts \in Timestamp :
       HoldLocalSnapshot(t, ts, IF UsesLock(op[t]) THEN 1 ELSE 0)
  /\ GoTo(t, IF TSO THEN "lookup" ELSE "store")
  /\ UNCHANGED <<lockVars, dataVars, memVars, cache, op, key, found, handVars,
                 cleanVars>>

\* The store reaches the memory: at once, or under TSO at any later time.
SnapshotStored(t) ==
  /\ StoreLocalSnapshot(t)
  /\ IF At(t, "store") THEN GoTo(t, "lookup") ELSE UNCHANGED pc
  /\ UNCHANGED <<lockVars, dataVars, memVars, cache, op, key, found, handVars,
                 cleanVars>>

\* HashTable::Lookup copies the entry: the record is in the thread's hands.
LookupKey(t) ==
  /\ At(t, "lookup") /\ op[t] # "Backup"
  /\ inhand' = [inhand EXCEPT ![t] =
                  IF chain[key[t]] = {} THEN 0 ELSE index[key[t]]]
  /\ found' = [found EXCEPT ![t] = LookupStatus(key[t])]
  /\ GoTo(t, IF op[t] \in WriteOps THEN "write"
             ELSE IF op[t] = "Expire" THEN "check" ELSE "use")
  /\ UNCHANGED <<vcVars, lockVars, dataVars, memVars, cache, op, key, cut,
                 minTs, loc, cleanVars>>

\* Backup looks at the record type of the entry, not at whether the entry is
\* Empty, and walks to the version of the snapshot.
BackupLookup(t) ==
  /\ At(t, "lookup") /\ op[t] = "Backup"
  /\ \E ts \in Snapshots :
       inhand' = [inhand EXCEPT ![t] =
                    IF chain[key[t]] # {} THEN VisibleAt(key[t], ts)
                    ELSE index[key[t]]]
  /\ GoTo(t, "use")
  /\ UNCHANGED <<vcVars, lockVars, dataVars, memVars, cache, op, key, found, cut,
                 minTs, loc, cleanVars>>

\* The last access of a reader to the record.
UseRecord(t) ==
  /\ At(t, "use")
  /\ inhand' = [inhand EXCEPT ![t] = 0]
  /\ GoTo(t, IF UsesHolder(op[t]) THEN "release" ELSE "finish")
  /\ UNCHANGED <<vcVars, lockVars, dataVars, memVars, cache, op, key, found, cut,
                 minTs, loc, cleanVars>>

(***************************************************************************)
(* Expire of a string: if the key has a value, unlock, release the local   *)
(* snapshot and call Modify, which acquires everything again.              *)
(***************************************************************************)
ExpireCheck(t) ==
  /\ At(t, "check")
  /\ inhand' = [inhand EXCEPT ![t] = 0]
  /\ IF found[t] = "Ok"
     THEN /\ ReleaseLocalSnapshot(t)
          /\ lock' = [lock EXCEPT ![key[t]] = None]
          /\ op' = [op EXCEPT ![t] = "ExpireModify"]
          /\ GoTo(t, "modify")
     ELSE /\ GoTo(t, "release")
          /\ UNCHANGED <<vcVars, lock, op>>
  /\ UNCHANGED <<access, dataVars, memVars, cache, key, found, cut, minTs,
                 loc, cleanVars>>

ExpireModify(t) ==
  /\ At(t, "modify")
  /\ AcquireAccessThread(t)
  /\ GoTo(t, "lock")
  /\ UNCHANGED <<vcVars, lock, dataVars, memVars, cache, op, key, found,
                 handVars, cleanVars>>

(***************************************************************************)
(* A write: allocate, persist the record, publish it in the hash entry.    *)
(* Between the last two only this thread can touch the key.  Snapshots     *)
(* that are not older than the timestamp of the write see it, also those   *)
(* that were made before it is published.                                  *)
(***************************************************************************)
\* The snapshots that are being made.
Unregistered == {taking[u].ts : u \in {v \in Thread : taking[v] # Idle}}

Writes(t) == op[t] \in {"Put", "Modify"} \/ found[t] = "Ok"

NewStatus(o) == IF o \in {"Delete", "ModifyDelete"} THEN "Outdated" ELSE "Normal"

WriteRecord(t) ==
  /\ At(t, "write") /\ Writes(t)
  /\ nrec < load.records
  /\ nrec' = nrec + 1
  /\ rec' = [rec EXCEPT ![nrec + 1] = [key |-> key[t], ts |-> hold_ts[t],
                                       status |-> NewStatus(op[t])]]
  /\ index' = [index EXCEPT ![key[t]] = nrec + 1]
  /\ chain' = [chain EXCEPT ![key[t]] = @ \cup {nrec + 1}]
  /\ view' = [ts \in Timestamp |->
                IF ts < hold_ts[t] \/ ts \notin Snapshots \cup Unregistered THEN view[ts]
                ELSE [view[ts] EXCEPT ![key[t]] =
                        IF NewStatus(op[t]) = "Normal" THEN nrec + 1 ELSE 0]]
  /\ inhand' = [inhand EXCEPT ![t] = 0]
  /\ GoTo(t, IF op[t] \notin {"Put", "Delete"} THEN "release"
             ELSE IF inhand[t] # 0 THEN "remove" ELSE "tryClean")
  /\ UNCHANGED <<vcVars, lockVars, freed, expired, late, spoiled, nsnap, load, cache,
                 op, key, found, cut, minTs, loc, cleanVars>>

\* PmemOverflow: every operation returns at once.
WriteFails(t) ==
  /\ At(t, "write") /\ Writes(t)
  /\ nrec = load.records
  /\ inhand' = [inhand EXCEPT ![t] = 0]
  /\ GoTo(t, "release")
  /\ UNCHANGED <<vcVars, lockVars, dataVars, memVars, cache, op, key, found,
                 cut, minTs, loc, cleanVars>>

\* Nothing to delete.  The function Expire passes to Modify reads the value
\* through a null pointer if there is none any more.
WriteNothing(t) ==
  /\ At(t, "write") /\ ~Writes(t)
  /\ inhand' = [inhand EXCEPT ![t] = 0]
  /\ GoTo(t, CASE op[t] = "Delete" -> "tryClean"
               [] op[t] = "ModifyDelete" -> "release"
               [] OTHER -> "null")
  /\ UNCHANGED <<vcVars, lockVars, dataVars, memVars, cache, op, key, found,
                 cut, minTs, loc, cleanVars>>

(***************************************************************************)
(* removeAndCacheOutdatedVersion: read the oldest snapshot; unlink; mark   *)
(* what was unlinked Dirty and append it, with the time, to the cache of   *)
(* the slot.                                                               *)
(***************************************************************************)
GlobalOldestSnapshotTs(p) ==
  /\ minTs' = [minTs EXCEPT ![p] = global_oldest]
  /\ late' = [late EXCEPT ![p] = Unregistered]
  /\ UNCHANGED <<freed, expired, view, spoiled, nsnap, load>>

RemoveRead(t) ==
  /\ At(t, "remove")
  /\ GlobalOldestSnapshotTs(t)
  /\ GoTo(t, "detach")
  /\ UNCHANGED <<vcVars, lockVars, dataVars, cache, op, key, found,
                 inhand, cut, loc, cleanVars>>

Unlink(p, k, records) ==
  /\ chain' = [chain EXCEPT ![k] = @ \ records]
  /\ cut' = [cut EXCEPT ![p] = records]
  /\ spoiled' = spoiled \cup {ts \in late[p] : Value(VisibleAt(k, ts)) \in records}

\* The process does not use the oldest snapshot any more.
ForgetOldestSnapshot(p) ==
  /\ minTs' = [minTs EXCEPT ![p] = kMaxTimestamp]
  /\ late' = [late EXCEPT ![p] = {}]

RemoveOutDatedVersion(t) ==
  /\ At(t, "detach")
  /\ LET old == OutDated(chain[key[t]], minTs[t])
     IN  /\ Unlink(t, key[t], old)
         /\ GoTo(t, IF old = {} THEN "tryClean" ELSE "cache")
  /\ ForgetOldestSnapshot(t)
  /\ UNCHANGED <<vcVars, lockVars, nrec, rec, index, freed, expired, view, nsnap, load,
                 cache, op, key, found, inhand, loc, cleanVars>>

MarkNothing(records) == records \subseteq RecordId /\ rec' = rec

MarkDirty(records) ==
  rec' = [r \in RecordId |->
            IF r \in records /\ rec[r].status = "Normal"
            THEN [rec[r] EXCEPT !.status = "Dirty"] ELSE rec[r]]

CacheWithWriteTime(t) ==
  /\ At(t, "cache")
  /\ MarkDirty(cut[t])
  /\ cache' = [cache EXCEPT ![SlotOf[t]] =
                 Append(@, [recs |-> cut[t], rt |-> hold_ts[t]])]
  /\ cut' = [cut EXCEPT ![t] = {}]
  /\ GoTo(t, "tryClean")
  /\ UNCHANGED <<vcVars, lockVars, nrec, index, chain, memVars, op,
                 key, found, inhand, minTs, loc, cleanVars>>

CacheOutdatedVersion(t) ==
  /\ At(t, "cache")
  /\ MarkDirty(cut[t])
  /\ \E ts \in Timestamp :
       /\ GetCurrentTimestamp(ts, 0)
       /\ cache' = [cache EXCEPT ![SlotOf[t]] =
                      Append(@, [recs |-> cut[t], rt |-> ts])]
  /\ cut' = [cut EXCEPT ![t] = {}]
  /\ GoTo(t, "tryClean")
  /\ UNCHANGED <<localVars, scanVars, globalVars, batchVars, lockVars, nrec,
                 index, chain, memVars, op, key, found, inhand,
                 minTs, loc, cleanVars>>

(***************************************************************************)
(* tryCleanCachedOutdatedRecord: every kForegroundUpdateSnapshotInterval   *)
(* calls update the oldest local snapshot; then free the front of the      *)
(* cache if nobody can read it any more.                                   *)
(***************************************************************************)
TryCleanUpdate(t) ==
  /\ At(t, "tryClean") /\ load.scan
  /\ \E ts \in Timestamp : UpdateStart(t, ts)
  /\ GoTo(t, "scan")
  /\ UNCHANGED <<lockVars, dataVars, memVars, cache, op, key, found, handVars,
                 cleanVars>>

TryCleanRead(t) ==
  /\ pc[t] \in {"tryClean", "tryRead"}
  /\ loc' = [loc EXCEPT ![t] = local_oldest]
  /\ GoTo(t, "pop")
  /\ UNCHANGED <<vcVars, lockVars, dataVars, memVars, cache, op, key, found,
                 inhand, cut, minTs, cleanVars>>

\* Normal records are destroyed before their memory is freed.
Free(records) ==
  /\ freed' = freed \cup records
  /\ rec' = [r \in RecordId |->
               IF r \in records /\ rec[r].status = "Normal"
               THEN [rec[r] EXCEPT !.status = "Destroyed"] ELSE rec[r]]

TryCleanCachedOutdatedRecord(t) ==
  /\ At(t, "pop")
  /\ LET front == cache[SlotOf[t]]
     IN  IF front # <<>> /\ Head(front).rt < loc[t]
         THEN /\ cache' = [cache EXCEPT ![SlotOf[t]] = Tail(@)]
              /\ Free(Head(front).recs)
         ELSE UNCHANGED <<cache, freed, rec>>
  /\ loc' = [loc EXCEPT ![t] = 0]
  /\ GoTo(t, "release")
  /\ UNCHANGED <<vcVars, lockVars, nrec, index, chain, expired, viewVars,
                 load, op, key, found, inhand, cut, minTs, cleanVars>>

(***************************************************************************)
(* The destructors at the end of a call: local snapshot, slot lock, access *)
(* thread.  AccessThreadCV::Release does not look at who holds the slot.   *)
(***************************************************************************)
ReleaseHolder(t) ==
  /\ At(t, "release")
  /\ ReleaseLocalSnapshot(t)
  /\ GoTo(t, "finish")
  /\ UNCHANGED <<lockVars, dataVars, memVars, cache, op, key, found, handVars,
                 cleanVars>>

Finish(t) ==
  /\ At(t, "finish")
  /\ lock' = IF UsesLock(op[t]) THEN [lock EXCEPT ![key[t]] = None] ELSE lock
  /\ access' = IF UsesAccess(op[t])
               THEN [access EXCEPT ![SlotOf[t]] = None] ELSE access
  /\ GoTo(t, IF op[t] = "ExpireModify" THEN "tail" ELSE "idle")
  /\ key' = [key EXCEPT ![t] = 0]
  /\ op' = [op EXCEPT ![t] = "Get"]
  /\ found' = [found EXCEPT ![t] = "NotFound"]
  /\ UNCHANGED <<vcVars, dataVars, memVars, cache, handVars, cleanVars>>

\* Back in Expire, its own destructors run after those of Modify.
ExpireTail(t) ==
  /\ At(t, "tail")
  /\ ReleaseLocalSnapshot(t)
  /\ GoTo(t, "tailAccess")
  /\ UNCHANGED <<lockVars, dataVars, memVars, cache, op, key, found, handVars,
                 cleanVars>>

ExpireTailAccess(t) ==
  /\ At(t, "tailAccess")
  /\ access' = [access EXCEPT ![SlotOf[t]] = None]
  /\ GoTo(t, "idle")
  /\ UNCHANGED <<vcVars, lock, dataVars, memVars, cache, op, key, found,
                 handVars, cleanVars>>

(***************************************************************************)
(* GetSnapshot(false) and ReleaseSnapshot by a user.  view records what    *)
(* the snapshot sees at its timestamp; whoever works with the oldest       *)
(* snapshot at that time does not know of it.  There are no batches here,  *)
(* so it waits at no slot (VersionController and BatchWrite have the wait).*)
(***************************************************************************)
UsesOldest == {"detach", "cleanLock", "cleanDetach", "cleanErase"}

GetSnapshotRead(t) ==
  /\ At(t, "idle") /\ "GetSnapshot" \in load.ops[t] /\ nsnap < load.snapshots
  /\ \E ts \in Timestamp :
       /\ BeginSnapshot(t, ts, NumSlots)
       /\ view' = [view EXCEPT ![ts] = [k \in Key |-> Value(VisibleAt(k, ts))]]
       /\ nsnap' = nsnap + 1
       /\ late' = [p \in Proc |-> IF pc[p] \in UsesOldest THEN late[p] \cup {ts} ELSE {}]
  /\ GoTo(t, "snapshot")
  /\ UNCHANGED <<lockVars, dataVars, freed, expired, spoiled, load, cache, op, key,
                 found, handVars, cleanVars>>

GetSnapshotInsert(t) ==
  /\ At(t, "snapshot")
  /\ NewSnapshotInsert(t)
  /\ GoTo(t, "idle")
  /\ UNCHANGED <<lockVars, dataVars, memVars, cache, op, key, found, handVars,
                 cleanVars>>

UserReleaseSnapshot(i) ==
  /\ ReleaseSnapshot(i)
  /\ \A t \in Thread : op[t] # "Backup"
  /\ LET live == Snapshots' \cup Unregistered
     IN  /\ view' = [ts \in Timestamp |->
                       IF ts \in live THEN view[ts] ELSE [k \in Key |-> 0]]
         /\ spoiled' = spoiled \cap live
  /\ UNCHANGED <<lockVars, dataVars, freed, expired, late, nsnap, load, cache, ctlVars,
                 handVars, cleanVars>>

\* The expire time of a record passes.
Tick(r) ==
  /\ load.ttl
  /\ r \in 1 .. nrec \ expired /\ rec[r].status = "Normal"
  /\ expired' = expired \cup {r}
  /\ UNCHANGED <<vcVars, lockVars, dataVars, freed, viewVars, load, cache,
                 ctlVars, handVars, cleanVars>>

----------------------------------------------------------------------------
(***************************************************************************)
(* A cleaner in cleanWork: one cleanOutDated over all hash slots, then     *)
(* purgeAndFree until nothing is pending.                                  *)
(***************************************************************************)
\* UpdateLocalOldestSnapshot is called in three places, and by threads.
ScanLabels == {"scan", "scanStart", "scanFetched", "scanLoop"}

AfterScan(label) ==
  CASE label = "scan"        -> "tryRead"
    [] label = "scanStart"   -> "fetch"
    [] label = "scanFetched" -> "sort"
    [] label = "scanLoop"    -> "purgeLoop"

ScanSlot(p) ==
  /\ pc[p] \in ScanLabels
  /\ UpdateScan(p)
  /\ UNCHANGED <<lockVars, dataVars, memVars, cache, ctlVars, handVars,
                 cleanVars>>

ScanEnd(p) ==
  /\ pc[p] \in ScanLabels
  /\ UpdateStore(p)
  /\ GoTo(p, AfterScan(pc[p]))
  /\ UNCHANGED <<lockVars, dataVars, memVars, cache, op, key, found, handVars,
                 cleanVars>>

CleanUpdate(c) ==
  /\ \/ At(c, "idle") /\ GoTo(c, "scanStart")
     \/ At(c, "fetched") /\ GoTo(c, "scanFetched")
     \/ At(c, "loop") /\ GoTo(c, "scanLoop")
  /\ \E ts \in Timestamp : UpdateStart(c, ts)
  /\ UNCHANGED <<lockVars, dataVars, memVars, cache, op, key, found, handVars,
                 cleanVars>>

\* fetchCachedOutdatedVersion: take the cache of one slot if it is long.
\* (round_robin_id_ is shared by the cleaners, so each may see any slot.)
FetchCached(c) ==
  /\ At(c, "fetch")
  /\ \E s \in Slot :
       IF Len(cache[s]) > load.cached
       THEN /\ pulled' = [pulled EXCEPT ![c] = cache[s]]
            /\ cache' = [cache EXCEPT ![s] = <<>>]
            /\ GoTo(c, "fetched")
       ELSE /\ GoTo(c, "slot")
            /\ UNCHANGED <<pulled, cache>>
  /\ key' = [key EXCEPT ![c] = 1]
  /\ UNCHANGED <<vcVars, lockVars, dataVars, memVars, op, found, handVars,
                 purge, pend>>

\* What is old enough is put in front of the pending records, the rest joins
\* the records of this round.
PulledChains(c, old) ==
  {pulled[c][i].recs : i \in {j \in 1 .. Len(pulled[c]) :
                                (pulled[c][j].rt < local_oldest) = old}}

FetchSort(c) ==
  /\ At(c, "sort")
  /\ pend' = [pend EXCEPT ![c] =
       <<[recs |-> UNION PulledChains(c, TRUE), rt |-> local_oldest]>> \o @]
  /\ purge' = [purge EXCEPT ![c] = @ \cup PulledChains(c, FALSE)]
  /\ pulled' = [pulled EXCEPT ![c] = <<>>]
  /\ GoTo(c, "slot")
  /\ UNCHANGED <<vcVars, lockVars, dataVars, memVars, cache, op, key, found,
                 handVars>>

\* The oldest snapshot is read before the slot is locked.
CleanRead(c) ==
  /\ At(c, "slot") /\ key[c] \in Key
  /\ GlobalOldestSnapshotTs(c)
  /\ GoTo(c, "cleanLock")
  /\ UNCHANGED <<vcVars, lockVars, dataVars, cache, op, key, found,
                 inhand, cut, loc, cleanVars>>

CleanLock(c) ==
  /\ At(c, "cleanLock")
  /\ lock[key[c]] = None
  /\ lock' = [lock EXCEPT ![key[c]] = c]
  /\ GoTo(c, IF chain[key[c]] = {} THEN "cleanErase" ELSE "cleanDetach")
  /\ UNCHANGED <<vcVars, access, dataVars, memVars, cache, op, key, found,
                 handVars, cleanVars>>

CleanDetach(c) ==
  /\ At(c, "cleanDetach")
  /\ Unlink(c, key[c], OutDated(chain[key[c]], minTs[c]))
  /\ GoTo(c, "cleanErase")
  /\ UNCHANGED <<vcVars, lockVars, nrec, rec, index, freed, expired, view, late,
                 nsnap, load, cache, op, key, found, inhand, minTs, loc, cleanVars>>

\* The entry of a deleted or expired key is erased, unless a snapshot may
\* still read an older version; its record joins the unlinked ones.
Erasable(k, min) ==
  /\ chain[k] # {}
  /\ rec[index[k]].status = "Outdated" \/ index[k] \in expired
  /\ rec[index[k]].ts < min

CleanErase(c) ==
  /\ At(c, "cleanErase")
  /\ MarkDirty(cut[c])
  /\ LET k == key[c]
         erased == IF Erasable(k, minTs[c]) THEN {index[k]} ELSE {}
     IN  /\ chain' = [chain EXCEPT ![k] = @ \ erased]
         /\ purge' = [purge EXCEPT ![c] = @ \cup ({cut[c], erased} \ {{}})]
         /\ lock' = [lock EXCEPT ![k] = None]
  /\ cut' = [cut EXCEPT ![c] = {}]
  /\ ForgetOldestSnapshot(c)
  /\ GoTo(c, "push")
  /\ UNCHANGED <<vcVars, access, nrec, index, freed, expired, view, spoiled, nsnap,
                 load, cache, op, key, found, inhand, loc, pulled, pend>>

PushPendingAgain(c, least) ==
  /\ \E ts \in Timestamp :
       /\ GetCurrentTimestamp(ts, 0)
       /\ IF Cardinality(purge[c]) > least
          THEN pend' = [pend EXCEPT ![c] =
                          Append(@, [recs |-> UNION purge[c], rt |-> ts])]
          ELSE UNCHANGED pend
  /\ UNCHANGED <<localVars, scanVars, globalVars, batchVars, lockVars,
                 dataVars, memVars, cache, op, found, handVars, pulled, purge>>

\* After a slot, many records become pending at once; after the last slot
\* all of them.
PushPending(c, least) ==
  /\ \E ts \in Timestamp :
       /\ GetCurrentTimestamp(ts, 0)
       /\ IF Cardinality(purge[c]) > least
          THEN /\ pend' = [pend EXCEPT ![c] =
                             Append(@, [recs |-> UNION purge[c], rt |-> ts])]
               /\ purge' = [purge EXCEPT ![c] = {}]
          ELSE UNCHANGED <<pend, purge>>
  /\ UNCHANGED <<localVars, scanVars, globalVars, batchVars, lockVars,
                 dataVars, memVars, cache, op, found, handVars, pulled>>

CleanPush(c) ==
  /\ At(c, "push")
  /\ PushPending(c, load.cached)
  /\ GoTo(c, "purge")
  /\ UNCHANGED key

\* cleanWork ends, or goes on while something is pending.
LoopOrEnd(c) == GoTo(c, IF pend'[c] = <<>> THEN "idle" ELSE "loop")

CleanPushRest(c) ==
  /\ At(c, "slot") /\ key[c] \notin Key
  /\ PushPending(c, 0)
  /\ key' = [key EXCEPT ![c] = 0]
  /\ LoopOrEnd(c)

\* purgeAndFree looks at the front only; LocalOldestSnapshotTS() is read
\* anew for every entry.
PurgeAndFree(c) ==
  /\ pc[c] \in {"purge", "purgeLoop"}
  /\ pend[c] # <<>> /\ Head(pend[c]).rt < local_oldest
  /\ Free(Head(pend[c]).recs)
  /\ pend' = [pend EXCEPT ![c] = Tail(@)]
  /\ UNCHANGED <<vcVars, lockVars, nrec, index, chain, expired, viewVars,
                 load, cache, ctlVars, handVars, pulled, purge>>

PurgeEnd(c) ==
  /\ pc[c] \in {"purge", "purgeLoop"}
  /\ ~(pend[c] # <<>> /\ Head(pend[c]).rt < local_oldest)
  /\ UNCHANGED cleanVars
  /\ IF At(c, "purge")
     THEN GoTo(c, "slot") /\ key' = [key EXCEPT ![c] = @ + 1]
     ELSE LoopOrEnd(c) /\ UNCHANGED key
  /\ UNCHANGED <<vcVars, lockVars, dataVars, memVars, cache, op, found,
                 handVars>>

----------------------------------------------------------------------------
ThreadStep(t) ==
  \/ Start(t) \/ AcquireLock(t)
  \/ GetLocalSnapshotHolder(t) \/ SnapshotStored(t)
  \/ LookupKey(t) \/ BackupLookup(t) \/ UseRecord(t)
  \/ ExpireCheck(t) \/ ExpireModify(t)
  \/ WriteRecord(t) \/ WriteFails(t) \/ WriteNothing(t)
  \/ RemoveRead(t) \/ RemoveOutDatedVersion(t) \/ CacheOutdatedVersion(t)
  \/ TryCleanUpdate(t) \/ TryCleanRead(t) \/ TryCleanCachedOutdatedRecord(t)
  \/ ReleaseHolder(t) \/ Finish(t) \/ ExpireTail(t) \/ ExpireTailAccess(t)
  \/ GetSnapshotRead(t) \/ GetSnapshotInsert(t)

CleanerStep(c) ==
  \/ CleanUpdate(c) \/ FetchCached(c) \/ FetchSort(c)
  \/ CleanRead(c) \/ CleanLock(c) \/ CleanDetach(c) \/ CleanErase(c)
  \/ CleanPush(c) \/ CleanPushRest(c)
  \/ PurgeAndFree(c) \/ PurgeEnd(c)

Next ==
  \/ \E t \in Thread : ThreadStep(t)
  \/ \E c \in Cleaner : CleanerStep(c)
  \/ \E p \in Proc : ScanSlot(p) \/ ScanEnd(p)
  \/ \E i \in 1 .. Len(global_snapshots) : UserReleaseSnapshot(i)
  \/ \E r \in RecordId : Tick(r)

Spec == Init /\ [][Next]_vars

----------------------------------------------------------------------------
RecordSet == SUBSET RecordId
Entry == [recs : RecordSet, rt : Timestamp]
Record == [key : Key \cup {0}, ts : Timestamp,
           status : {"Unwritten", "Normal", "Outdated", "Dirty", "Destroyed"}]
ThreadLabel == {"idle", "modify", "lock", "hold", "store", "lookup", "use",
  "check", "write", "null", "remove", "detach", "cache", "tryClean", "scan",
  "tryRead", "pop", "release", "finish", "tail", "tailAccess", "snapshot"}
CleanerLabel == {"idle", "scanStart", "fetch", "fetched", "scanFetched",
  "sort", "slot", "cleanLock", "cleanDetach", "cleanErase", "push", "purge",
  "loop", "scanLoop", "purgeLoop"}

EngineTypeOK ==
  /\ access \in [Slot -> Thread \cup {None}]
  /\ lock \in [Key -> Proc \cup {None}]
  /\ nrec \in 0 .. MaxRecords /\ nsnap \in Nat
  /\ rec \in [RecordId -> Record]
  /\ index \in [Key -> RecordId \cup {0}]
  /\ chain \in [Key -> RecordSet]
  /\ freed \in RecordSet /\ expired \in RecordSet /\ load \in Workloads
  /\ view \in [Timestamp -> [Key -> RecordId \cup {0}]]
  /\ late \in [Proc -> SUBSET Timestamp] /\ spoiled \subseteq Timestamp
  /\ cache \in [Slot -> Seq(Entry)]
  /\ pc \in [Proc -> ThreadLabel \cup CleanerLabel]
  /\ op \in [Thread -> Operation \cup {"ExpireModify"}]
  /\ key \in [Proc -> 0 .. NumKeys + 1]
  /\ found \in [Thread -> {"Ok", "Outdated", "NotFound"}]
  /\ inhand \in [Thread -> RecordId \cup {0}]
  /\ cut \in [Proc -> RecordSet]
  /\ minTs \in [Proc -> Timestamp]
  /\ loc \in [Thread -> Timestamp]
  /\ pulled \in [Cleaner -> Seq(Entry)]
  /\ purge \in [Cleaner -> SUBSET RecordSet]
  /\ pend \in [Cleaner -> Seq(Entry)]

TypeOK == VCTypeOK /\ EngineTypeOK

(***************************************************************************)
(* "LocalSnapshotHolder ... to guarantee lockless reads will always read   *)
(* out valid data" (version_controller.hpp): the record a thread got from  *)
(* the index is not freed while the thread reads it, by whichever of the   *)
(* writers and cleaners.                                                   *)
(***************************************************************************)
NoUseAfterFree == \A t \in Thread : inhand[t] \notin freed

(***************************************************************************)
(* removeOutDatedVersion and the purge lists: a record is linked to its    *)
(* key, waits in exactly one place for being freed, or is freed.  So none  *)
(* is freed twice and none is lost.  Along the versions of a key the       *)
(* timestamps decrease: the assertion of stringPutImpl, "existing record   *)
(* has newer timestamp", does not fail.                                    *)
(***************************************************************************)
Places(r) ==
  Cardinality({p \in Proc : r \in cut[p]})
  + Cardinality({x \in Slot \X (1 .. MaxRecords) :
                   x[2] <= Len(cache[x[1]]) /\ r \in cache[x[1]][x[2]].recs})
  + Cardinality({x \in Cleaner \X (1 .. MaxRecords) :
                   x[2] <= Len(pulled[x[1]]) /\ r \in pulled[x[1]][x[2]].recs})
  + Cardinality({x \in Cleaner \X RecordSet :
                   x[2] \in purge[x[1]] /\ r \in x[2]})
  + Cardinality({x \in Cleaner \X (1 .. MaxRecords + 1) :
                   x[2] <= Len(pend[x[1]]) /\ r \in pend[x[1]][x[2]].recs})
  + (IF r \in freed THEN 1 ELSE 0)
  + Cardinality({k \in Key : r \in chain[k]})

OnePlace ==
  /\ TypeOK
  /\ \A r \in 1 .. nrec : Places(r) = 1
  /\ \A k \in Key : \A r, s \in chain[k] : r < s => rec[r].ts < rec[s].ts

(***************************************************************************)
(* What a restart recovers (restoreData, restoreStringRecord): of the      *)
(* records of a key whose timestamp is not after limit, the one with the   *)
(* largest.  Dirty and destroyed records are skipped; a freed record may   *)
(* have been overwritten or may be still there.                            *)
(***************************************************************************)
Persisted(k, limit) ==
  {r \in 1 .. nrec : /\ rec[r].key = k /\ rec[r].ts <= limit
                     /\ rec[r].status \in {"Normal", "Outdated"}}

Newest(records) ==
  IF records = {} THEN 0
  ELSE CHOOSE r \in records : \A s \in records : rec[s].ts <= rec[r].ts

Recovers(k, limit, value) ==
  LET all == Persisted(k, limit)
  IN  \A lost \in SUBSET (all \cap freed) : Value(Newest(all \ lost)) = value

(***************************************************************************)
(* A snapshot that is not released sees, of every key, the newest write    *)
(* whose timestamp is not after its own, unless that has expired, whatever *)
(* writers and cleaners unlink, erase and free.  Two cases in which the    *)
(* code does not keep this are left out by name: the snapshot was made     *)
(* beside another one and may stand in the wrong place of the list         *)
(* (version_controller.hpp, see GlobalOldestCovers), or a value was        *)
(* unlinked by a process that had read GlobalOldestSnapshotTs before the   *)
(* snapshot was registered (kv_engine_cleaner.cpp, kv_engine_string.cpp).  *)
(***************************************************************************)
Seen(ts, k) == IF view[ts][k] \in expired THEN 0 ELSE view[ts][k]

Sound == (Snapshots \cap apart) \ spoiled

SnapshotViewKept ==
  \A ts \in Sound, k \in Key : Value(VisibleAt(k, ts)) = Seen(ts, k)

(***************************************************************************)
(* "Get a snapshot of the instance at this moment" (engine.hpp): what a    *)
(* registered snapshot sees of a key does not change, but by expiry.       *)
(***************************************************************************)
SnapshotOfThisMoment ==
  [][\A ts \in Snapshots, k \in Key : ts \in Snapshots' =>
       \/ Value(VisibleAt(k, ts))' = Value(VisibleAt(k, ts))
       \/ Value(VisibleAt(k, ts)) \in expired']_vars

(***************************************************************************)
(* A crash at any point of any operation and of the cleaning loses no      *)
(* published value and brings back no old one: recovery finds the value    *)
(* readers see at that moment, and recovery to a checkpoint made on a      *)
(* snapshot that is not released finds what the snapshot has to see.       *)
(***************************************************************************)
CrashRecovers ==
  \A k \in Key :
    /\ Recovers(k, kMaxTimestamp, IF chain[k] = {} THEN 0 ELSE Value(index[k]))
    /\ \A ts \in Sound : Recovers(k, ts, Seen(ts, k))

(***************************************************************************)
(* Expire returns NotFound "if key does not exist" (engine.hpp): the       *)
(* function it passes to Modify is never called without a value.           *)
(***************************************************************************)
ExpireFindsValue == \A t \in Thread : ~At(t, "null")
=============================================================================
