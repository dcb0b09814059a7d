----------------------------- MODULE BatchWrite -----------------------------
(***************************************************************************)
(* String writes of a KVDK instance, crashes and recovery: batchWriteImpl, *)
(* batchWriteRollbackLogs, restoreExistingData and restoreData of          *)
(* engine/kv_engine.cpp, the batch log of engine/write_batch_impl.hpp, and *)
(* the single-key writes of engine/kv_engine_string.cpp they compete with. *)
(*                                                                         *)
(* A record lives at an offset of PMem and its space is reused.  pm and    *)
(* log survive a crash; everything else is DRAM.  The value of a record is *)
(* its timestamp, since no two writes of a key have the same one.  How     *)
(* long old versions are kept is up to the snapshots, which StringEngine   *)
(* models; here the oldest snapshot is any timestamp.                      *)
(***************************************************************************)
EXTENDS Integers, FiniteSets, FiniteSetsExt

CONSTANTS
  Thread,      \* the threads of the application
  NumSlots,    \* max_access_threads
  SlotOf,      \* ThreadID() % max_access_threads
  NumKeys,     \* the number of keys; every key has a hash slot of its own
  Offset,      \* the spaces of PMem, each with room for one record
  kNullPMemOffset,  \* no offset
  MaxTs,       \* bound: timestamps taken between two crashes
  MaxCrashes,  \* bound: crashes from outside
  CallsOf,     \* CallsOf[t]: the calls t makes
  None         \* nobody holds a lock

Slot == 1 .. NumSlots
Key == 1 .. NumKeys
Timestamp == 0 .. MaxTs

\* A batch holds one operation for each of its keys, in no order.
Batches == UNION {[K -> {"Put", "Delete"}] : K \in SUBSET Key \ {{}}}
Calls == {c \in [kind : {"single", "batch"}, ops : Batches] :
            c.kind = "single" => Cardinality(DOMAIN c.ops) = 1}

ASSUME BatchAssumption ==
  /\ {NumSlots, NumKeys, MaxTs, MaxCrashes} \subseteq Nat
  /\ SlotOf \in [Thread -> Slot]
  /\ CallsOf \in [Thread -> SUBSET Calls]
  /\ None \notin Thread
  /\ IsFiniteSet(Offset) /\ kNullPMemOffset \notin Offset

VARIABLES
  pm,       \* PMem: the record at each offset
  log,      \* PMem: the batch log of each slot
  index,    \* the hash entry of each key: an offset or none
  chain,    \* the versions of each key, the indexed one included
  free,     \* the free space of the allocator
  garbage,  \* unlinked records that are not freed yet
  lock,     \* the spin lock of the hash slot of each key
  access,   \* access_thread_cv_[i].holder_id_
  clock,    \* the last timestamp taken
  mode,     \* "up", or how far the recovery is
  scan,     \* recovery: the logs, then the offsets, still to be read
  newest,   \* recovery: the newest timestamp restored
  pc, kind, ops,  \* the call of each thread and how far it is
  todo,     \* keys the present loop of a call has not done
  ts,       \* the timestamp of a call
  space,    \* the offsets a call has allocated
  crashes   \* history: crashes from outside so far

pmemVars   == <<pm, log>>
storeVars  == <<index, chain, free, garbage>>
lockVars   == <<lock, access>>
recVars    == <<mode, scan, newest>>
threadVars == <<pc, kind, ops, todo, ts, space>>
vars == <<pmemVars, storeVars, lockVars, clock, recVars, threadVars, crashes>>

----------------------------------------------------------------------------
NoRecord == [key |-> 0, ts |-> 0, status |-> "Empty"]
EmptyLog == [stage |-> "Initializing", offs |-> {}]
NoOps == [k \in {} |-> "Put"]
NoSpace == [k \in {} |-> kNullPMemOffset]

\* A new instance: nothing on PMem, all of it free.
Init ==
  /\ pm = [o \in Offset |-> NoRecord]
  /\ log = [s \in Slot |-> EmptyLog]
  /\ index = [k \in Key |-> kNullPMemOffset]
  /\ chain = [k \in Key |-> {}]
  /\ free = Offset
  /\ garbage = {}
  /\ lock = [k \in Key |-> None]
  /\ access = [s \in Slot |-> None]
  /\ clock = 0
  /\ mode = "up" /\ scan = {} /\ newest = 0
  /\ pc = [t \in Thread |-> "idle"]
  /\ kind = [t \in Thread |-> "single"]
  /\ ops = [t \in Thread |-> NoOps]
  /\ todo = [t \in Thread |-> {}]
  /\ ts = [t \in Thread |-> 0]
  /\ space = [t \in Thread |-> NoSpace]
  /\ crashes = 0

At(t, label) == mode = "up" /\ pc[t] = label
GoTo(t, label) == pc' = [pc EXCEPT ![t] = label]
Keys(t) == DOMAIN ops[t]
Spaces(t) == {space[t][k] : k \in DOMAIN space[t]}

\* lookupKey(k) returns Ok: the entry points to a record with a value.
HasValue(k) == index[k] # kNullPMemOffset /\ pm[index[k]].status = "Normal"

\* removeOutDatedVersion(record, min): versions older than the newest one
\* that is not newer than min.
OutDated(k, min) ==
  {o \in chain[k] : \E n \in chain[k] : pm[o].ts < pm[n].ts /\ pm[n].ts <= min}

\* Unlink versions of k; those that were values are marked Dirty.
Unlink(k, offs) ==
  /\ chain' = [chain EXCEPT ![k] = @ \ offs]
  /\ garbage' = garbage \cup offs
  /\ pm' = [o \in Offset |->
              IF o \in offs /\ pm[o].status = "Normal"
              THEN [pm[o] EXCEPT !.status = "Dirty"] ELSE pm[o]]

Destroy(o) == pm' = [pm EXCEPT ![o].status = "Empty"]

----------------------------------------------------------------------------
(***************************************************************************)
(* A call.  It waits for the access thread of its slot, whose batch log no *)
(* other thread may use meanwhile.                                         *)
(***************************************************************************)
Unstamped == {t \in Thread : pc[t] \in {"lock", "stamp"}}

\* A call that does not wait for the access thread.
CallWithoutAccess(t) ==
  /\ At(t, "idle")
  /\ clock + Cardinality(Unstamped) < MaxTs
  /\ \E c \in CallsOf[t] :
       /\ kind' = [kind EXCEPT ![t] = c.kind]
       /\ ops' = [ops EXCEPT ![t] = c.ops]
       /\ todo' = [todo EXCEPT ![t] = DOMAIN c.ops]
  /\ GoTo(t, "lock")
  /\ UNCHANGED <<pmemVars, storeVars, lockVars, clock, recVars, ts, space,
                 crashes>>

Call(t) ==
  /\ At(t, "idle")
  /\ clock + Cardinality(Unstamped) < MaxTs
  /\ access[SlotOf[t]] = None
  /\ access' = [access EXCEPT ![SlotOf[t]] = t]
  /\ \E c \in CallsOf[t] :
       /\ kind' = [kind EXCEPT ![t] = c.kind]
       /\ ops' = [ops EXCEPT ![t] = c.ops]
       /\ todo' = [todo EXCEPT ![t] = DOMAIN c.ops]
  /\ GoTo(t, "lock")
  /\ UNCHANGED <<pmemVars, storeVars, lock, clock, recVars, ts, space, crashes>>

\* Locks taken in the order in which the batch names the keys.
LockAnyOrder(t) ==
  /\ At(t, "lock")
  /\ \E k \in todo[t] :
       /\ lock[k] = None
       /\ lock' = [lock EXCEPT ![k] = t]
       /\ todo' = [todo EXCEPT ![t] = @ \ {k}]
       /\ GoTo(t, IF todo[t] = {k} THEN "stamp" ELSE "lock")
  /\ UNCHANGED <<pmemVars, storeVars, access, clock, recVars, kind, ops, ts,
                 space, crashes>>

\* RangeLock: the slots are locked in the order of their addresses.
RangeLock(t) ==
  /\ At(t, "lock")
  /\ LET k == Min(todo[t])
     IN  /\ lock[k] = None
         /\ lock' = [lock EXCEPT ![k] = t]
         /\ todo' = [todo EXCEPT ![t] = @ \ {k}]
         /\ GoTo(t, IF todo[t] = {k} THEN "stamp" ELSE "lock")
  /\ UNCHANGED <<pmemVars, storeVars, access, clock, recVars, kind, ops, ts,
                 space, crashes>>

\* GetBatchWriteToken, GetLocalSnapshotHolder: the timestamp, under the locks.
GetTimestamp(t) ==
  /\ At(t, "stamp")
  /\ clock' = clock + 1
  /\ ts' = [ts EXCEPT ![t] = clock + 1]
  /\ todo' = [todo EXCEPT ![t] = Keys(t)]
  /\ GoTo(t, "prepare")
  /\ UNCHANGED <<pmemVars, storeVars, lockVars, recVars, kind, ops, space,
                 crashes>>

\* stringWritePrepare: there is nothing to write for a Delete of a key that
\* has no value.  stringDeleteImpl of such a key is done.
PrepareNothing(t) ==
  /\ At(t, "prepare")
  /\ \E k \in todo[t] :
       /\ ops[t][k] = "Delete" /\ ~HasValue(k)
       /\ todo' = [todo EXCEPT ![t] = @ \ {k}]
       /\ GoTo(t, IF kind[t] = "single" THEN "release"
                  ELSE IF todo[t] = {k} THEN "encode" ELSE "prepare")
  /\ UNCHANGED <<pmemVars, storeVars, lockVars, clock, recVars, kind, ops, ts,
                 space, crashes>>

Prepare(t) ==
  /\ At(t, "prepare")
  /\ \E k \in todo[t], o \in free :
       /\ ops[t][k] = "Put" \/ HasValue(k)
       /\ free' = free \ {o}
       /\ space' = [space EXCEPT ![t] =
                      [j \in DOMAIN @ \cup {k} |-> IF j = k THEN o ELSE @[j]]]
       /\ IF todo[t] = {k}
          THEN GoTo(t, IF kind[t] = "batch" THEN "encode" ELSE "write")
          ELSE UNCHANGED pc
       /\ todo' = [todo EXCEPT ![t] =
                     IF kind[t] = "batch" THEN @ \ {k} ELSE {k}]
  /\ UNCHANGED <<pmemVars, index, chain, garbage, lockVars, clock, recVars,
                 kind, ops, ts, crashes>>

\* A failed call that does not free the spaces of the keys before.
OverflowLeaks(t) ==
  /\ At(t, "prepare")
  /\ free = {}
  /\ \E k \in todo[t] :
       /\ todo[t] = {k}
       /\ ops[t][k] = "Put" \/ HasValue(k)
  /\ space' = [space EXCEPT ![t] = NoSpace]
  /\ GoTo(t, "fail")
  /\ UNCHANGED <<pmemVars, storeVars, lockVars, clock, recVars, kind, ops, todo,
                 ts, crashes>>

\* PmemOverflow on the last key: ReleaseResources frees what was allocated.
PrepareOverflow(t) ==
  /\ At(t, "prepare")
  /\ free = {}
  /\ \E k \in todo[t] :
       /\ todo[t] = {k}
       /\ ops[t][k] = "Put" \/ HasValue(k)
  /\ free' = Spaces(t)
  /\ space' = [space EXCEPT ![t] = NoSpace]
  /\ GoTo(t, "fail")
  /\ UNCHANGED <<pmemVars, index, chain, garbage, lockVars, clock, recVars,
                 kind, ops, todo, ts, crashes>>

----------------------------------------------------------------------------
(***************************************************************************)
(* The stages of a batch: the log is written, becomes valid, the records   *)
(* are written one by one, the log is committed, the records are published *)
(* one by one.                                                             *)
(***************************************************************************)
Persist(o, k, t) ==
  pm' = [pm EXCEPT ![o] =
           [key |-> k, ts |-> ts[t],
            status |-> IF ops[t][k] = "Put" THEN "Normal" ELSE "Outdated"]]

SetStage(s, stage) == log' = [log EXCEPT ![s].stage = stage]

EncodeTo(t) ==
  /\ At(t, "encode")
  /\ log' = [log EXCEPT ![SlotOf[t]] =
               [stage |-> "Initializing", offs |-> Spaces(t)]]
  /\ GoTo(t, "process")
  /\ UNCHANGED <<pm, storeVars, lockVars, clock, recVars, kind, ops, todo, ts,
                 space, crashes>>

MarkProcessing(t) ==
  /\ At(t, "process")
  /\ SetStage(SlotOf[t], "Processing")
  /\ todo' = [todo EXCEPT ![t] = DOMAIN space[t]]
  /\ GoTo(t, IF DOMAIN space[t] = {} THEN "commit" ELSE "write")
  /\ UNCHANGED <<pm, storeVars, lockVars, clock, recVars, kind, ops, ts, space,
                 crashes>>

\* stringWrite, one record of a batch after the other.
StringWrite(t) ==
  /\ At(t, "write") /\ kind[t] = "batch"
  /\ \E k \in todo[t] :
       /\ Persist(space[t][k], k, t)
       /\ todo' = [todo EXCEPT ![t] = @ \ {k}]
       /\ GoTo(t, IF todo[t] = {k} THEN "commit" ELSE "write")
  /\ UNCHANGED <<log, storeVars, lockVars, clock, recVars, kind, ops, ts,
                 space, crashes>>

MarkCommitted(t) ==
  /\ At(t, "commit")
  /\ SetStage(SlotOf[t], "Committed")
  /\ todo' = [todo EXCEPT ![t] = DOMAIN space[t]]
  /\ GoTo(t, IF DOMAIN space[t] = {} THEN "release" ELSE "publish")
  /\ UNCHANGED <<pm, storeVars, lockVars, clock, recVars, kind, ops, ts, space,
                 crashes>>

\* stringPutImpl and stringDeleteImpl: the record is durable at once.
PersistSingle(t) ==
  /\ At(t, "write") /\ kind[t] = "single"
  /\ \E k \in todo[t] : Persist(space[t][k], k, t)
  /\ GoTo(t, "publish")
  /\ UNCHANGED <<log, storeVars, lockVars, clock, recVars, kind, ops, todo, ts,
                 space, crashes>>

\* Records published while the log is not committed yet.
PublishBeforeCommit(t) ==
  /\ mode = "up" /\ pc[t] \in {"publish", "commit"}
  /\ \E k \in DOMAIN space[t] :
       /\ index' = [index EXCEPT ![k] = space[t][k]]
       /\ chain' = [chain EXCEPT ![k] = @ \cup {space[t][k]}]
       /\ todo' = [todo EXCEPT ![t] = @ \ {k}]
       /\ space' = [space EXCEPT ![t] = [j \in DOMAIN @ \ {k} |-> @[j]]]
       /\ GoTo(t, IF DOMAIN space[t] # {k} \/ pc[t] = "commit" THEN pc[t]
                  ELSE IF kind[t] = "batch" THEN "release" ELSE "remove")
  /\ UNCHANGED <<pmemVars, free, garbage, lockVars, clock, recVars, kind, ops,
                 ts, crashes>>

\* stringWritePublish and insertKeyOrElem: readers see the record.
Publish(t) ==
  /\ At(t, "publish")
  /\ \E k \in todo[t] :
       /\ index' = [index EXCEPT ![k] = space[t][k]]
       /\ chain' = [chain EXCEPT ![k] = @ \cup {space[t][k]}]
       /\ todo' = [todo EXCEPT ![t] = @ \ {k}]
       /\ space' = [space EXCEPT ![t] = [j \in DOMAIN @ \ {k} |-> @[j]]]
       /\ GoTo(t, IF todo[t] # {k} THEN "publish"
                  ELSE IF kind[t] = "batch" THEN "release" ELSE "remove")
  /\ UNCHANGED <<pmemVars, free, garbage, lockVars, clock, recVars, kind, ops,
                 ts, crashes>>

\* removeAndCacheOutdatedVersion of a single write.
RemoveOutDated(t) ==
  /\ At(t, "remove")
  /\ \E k \in Keys(t), min \in Timestamp : Unlink(k, OutDated(k, min))
  /\ GoTo(t, "release")
  /\ UNCHANGED <<log, index, free, lockVars, clock, recVars, kind, ops, todo,
                 ts, space, crashes>>

\* The call returns: its destructors unlock the keys and the access thread.
Return(t) ==
  /\ At(t, "release") \/ At(t, "fail")
  /\ lock' = [k \in Key |-> IF lock[k] = t THEN None ELSE lock[k]]
  /\ access' = [s \in Slot |-> IF access[s] = t THEN None ELSE access[s]]
  /\ ops' = [ops EXCEPT ![t] = NoOps]
  /\ todo' = [todo EXCEPT ![t] = {}]
  /\ ts' = [ts EXCEPT ![t] = 0]
  /\ GoTo(t, "idle")
  /\ UNCHANGED <<pmemVars, storeVars, clock, recVars, kind, space, crashes>>

----------------------------------------------------------------------------
(***************************************************************************)
(* The cleaner: it unlinks old versions of a key and erases the entry of a *)
(* deleted one; space is free once no reader can be left.  A record that   *)
(* marks a deletion is not destroyed when its space is freed.              *)
(***************************************************************************)
CleanOutDated(k) ==
  /\ mode = "up" /\ lock[k] = None /\ index[k] # kNullPMemOffset
  /\ \E min \in 1 .. MaxTs + 1 :
       LET erase == pm[index[k]].status = "Outdated" /\ pm[index[k]].ts < min
       IN  /\ Unlink(k, OutDated(k, min) \cup (IF erase THEN {index[k]} ELSE {}))
           /\ index' = [index EXCEPT ![k] = IF erase THEN kNullPMemOffset ELSE @]
  /\ UNCHANGED <<log, free, lockVars, clock, recVars, threadVars, crashes>>

PurgeAndFree(o) ==
  /\ mode = "up" /\ o \in garbage
  /\ IF pm[o].status = "Normal" THEN Destroy(o) ELSE UNCHANGED pm
  /\ garbage' = garbage \ {o}
  /\ free' = free \cup {o}
  /\ UNCHANGED <<log, index, chain, lockVars, clock, recVars, threadVars, crashes>>

----------------------------------------------------------------------------
(***************************************************************************)
(* A crash takes the DRAM.  A record that was being written may be torn:   *)
(* its checksum is wrong, and it counts as empty.                          *)
(***************************************************************************)
BeingWritten ==
  UNION {{space[t][k] : k \in todo[t]} : t \in {u \in Thread : pc[u] = "write"}}

LoseDram(torn) ==
  /\ pm' = [o \in Offset |-> IF o \in torn THEN NoRecord ELSE pm[o]]
  /\ index' = [k \in Key |-> kNullPMemOffset]
  /\ chain' = [k \in Key |-> {}]
  /\ free' = {} /\ garbage' = {}
  /\ lock' = [k \in Key |-> None]
  /\ access' = [s \in Slot |-> None]
  /\ clock' = 0
  /\ mode' = "rollback" /\ scan' = Slot /\ newest' = 0
  /\ pc' = [t \in Thread |-> "idle"]
  /\ kind' = [t \in Thread |-> "single"]
  /\ ops' = [t \in Thread |-> NoOps]
  /\ todo' = [t \in Thread |-> {}]
  /\ ts' = [t \in Thread |-> 0]
  /\ space' = [t \in Thread |-> NoSpace]
  /\ UNCHANGED log

Crash ==
  /\ crashes < MaxCrashes
  /\ crashes' = crashes + 1
  /\ \E torn \in SUBSET BeingWritten : LoseDram(torn)

\* PmemOverflow with keys left that are not prepared: ReleaseResources looks
\* at their hash entries through null pointers.
NullEntry(t) ==
  /\ At(t, "prepare")
  /\ free = {}
  /\ Cardinality(todo[t]) > 1
  /\ \E k \in todo[t] : ops[t][k] = "Put" \/ HasValue(k)
  /\ \E torn \in SUBSET BeingWritten : LoseDram(torn)
  /\ UNCHANGED crashes

\* batchWriteRollbackLogs: the records of a batch that was being processed
\* are destroyed, one by one.
RollbackRecord(s) ==
  /\ mode = "rollback" /\ s \in scan
  /\ log[s].stage = "Processing"
  /\ \E o \in log[s].offs : pm[o].status # "Empty" /\ Destroy(o)
  /\ UNCHANGED <<log, storeVars, lockVars, clock, recVars, threadVars, crashes>>

\* A log that is marked before all of its records are destroyed.
RollbackEarly(s) ==
  /\ mode = "rollback" /\ s \in scan
  /\ SetStage(s, "Initializing")
  /\ scan' = scan \ {s}
  /\ UNCHANGED <<pm, storeVars, lockVars, clock, mode, newest, threadVars, crashes>>

RollbackLog(s) ==
  /\ mode = "rollback" /\ s \in scan
  /\ log[s].stage = "Processing" => \A o \in log[s].offs : pm[o].status = "Empty"
  /\ SetStage(s, "Initializing")
  /\ scan' = scan \ {s}
  /\ UNCHANGED <<pm, storeVars, lockVars, clock, mode, newest, threadVars, crashes>>

\* The logs are removed, and the scan of PMem begins.
RemoveLogs ==
  /\ mode = "rollback" /\ scan = {}
  /\ log' = [s \in Slot |-> EmptyLog]
  /\ mode' = "restore" /\ scan' = Offset
  /\ UNCHANGED <<pm, storeVars, lockVars, clock, newest, threadVars, crashes>>

(***************************************************************************)
(* restoreData and restoreStringRecord, for the record at o.  The threads  *)
(* of the recovery take the segments in any order.                         *)
(***************************************************************************)
RestoreFree(o) ==
  /\ mode = "restore" /\ o \in scan
  /\ pm[o].status \in {"Empty", "Dirty"}
  /\ free' = free \cup {o}
  /\ scan' = scan \ {o}
  /\ UNCHANGED <<pmemVars, index, chain, garbage, lockVars, clock, mode, newest,
                 threadVars, crashes>>

RestoreRecord(o) ==
  /\ mode = "restore" /\ o \in scan
  /\ pm[o].status \notin {"Empty", "Dirty"}
  /\ LET k == pm[o].key
         known == index[k] # kNullPMemOffset /\ pm[index[k]].ts >= pm[o].ts
         loser == IF known THEN o ELSE index[k]
     IN  /\ index' = [index EXCEPT ![k] = IF known THEN @ ELSE o]
         /\ chain' = [chain EXCEPT ![k] = IF known THEN @ ELSE {o}]
         /\ IF loser = kNullPMemOffset THEN UNCHANGED <<pm, free>>
            ELSE Destroy(loser) /\ free' = free \cup {loser}
  /\ newest' = Max({newest, pm[o].ts})
  /\ scan' = scan \ {o}
  /\ UNCHANGED <<log, garbage, lockVars, clock, mode, threadVars, crashes>>

\* VersionController::Init continues with the newest timestamp restored.
RestoreDone ==
  /\ mode = "restore" /\ scan = {}
  /\ mode' = "up"
  /\ clock' = newest
  /\ UNCHANGED <<pmemVars, storeVars, lockVars, scan, newest, threadVars, crashes>>

----------------------------------------------------------------------------
CallStep(t) ==
  \/ RangeLock(t) \/ GetTimestamp(t)
  \/ PrepareNothing(t) \/ Prepare(t) \/ PrepareOverflow(t) \/ NullEntry(t)
  \/ EncodeTo(t) \/ MarkProcessing(t) \/ StringWrite(t) \/ MarkCommitted(t)
  \/ PersistSingle(t) \/ Publish(t) \/ RemoveOutDated(t) \/ Return(t)

Recovery ==
  \/ \E s \in Slot : RollbackRecord(s) \/ RollbackLog(s)
  \/ RemoveLogs
  \/ \E o \in Offset : RestoreFree(o) \/ RestoreRecord(o)
  \/ RestoreDone

Next ==
  \/ \E t \in Thread : Call(t) \/ CallStep(t)
  \/ \E k \in Key : CleanOutDated(k)
  \/ \E o \in Offset : PurgeAndFree(o)
  \/ Crash
  \/ Recovery

\* A thread inside a call keeps running, and so does the recovery.  Nothing
\* is assumed of the cleaner, nor that anybody calls.
Fairness ==
  /\ \A t \in Thread : WF_vars(CallStep(t))
  /\ WF_vars(Recovery)

Spec == Init /\ [][Next]_vars /\ Fairness

----------------------------------------------------------------------------
TypeOK ==
  /\ pm \in [Offset -> [key : Key \cup {0}, ts : Timestamp,
                        status : {"Empty", "Normal", "Outdated", "Dirty"}]]
  /\ log \in [Slot -> [stage : {"Initializing", "Processing", "Committed"},
                       offs : SUBSET Offset]]
  /\ index \in [Key -> Offset \cup {kNullPMemOffset}]
  /\ chain \in [Key -> SUBSET Offset]
  /\ free \subseteq Offset /\ garbage \subseteq Offset
  /\ lock \in [Key -> Thread \cup {None}]
  /\ access \in [Slot -> Thread \cup {None}]
  /\ clock \in Timestamp /\ newest \in Timestamp
  /\ mode \in {"up", "rollback", "restore"}
  /\ scan \subseteq Slot \cup Offset
  /\ pc \in [Thread -> {"idle", "lock", "stamp", "prepare", "encode", "process",
                        "write", "commit", "publish", "remove", "release", "fail"}]
  /\ kind \in [Thread -> {"single", "batch"}]
  /\ ops \in [Thread -> Batches \cup {NoOps}]
  /\ todo \in [Thread -> SUBSET Key]
  /\ ts \in [Thread -> Timestamp]
  /\ space \in [Thread -> UNION {[K -> Offset] : K \in SUBSET Key}]
  /\ \A t \in Thread : DOMAIN space[t] \subseteq Keys(t)
  /\ crashes \in 0 .. MaxCrashes

(***************************************************************************)
(* What a recovery that started now would find: the newest record of each  *)
(* key that is valid and not rolled back.                                  *)
(***************************************************************************)
Undone == UNION {log[s].offs : s \in {r \in Slot : log[r].stage = "Processing"}}

Valid(k) == {o \in Offset \ Undone : pm[o].key = k
                                     /\ pm[o].status \in {"Normal", "Outdated"}}

Durable(k) ==
  LET found == Valid(k)
      value == {o \in found : pm[o].status = "Normal"
                              /\ \A n \in found : pm[n].ts <= pm[o].ts}
  IN  IF value = {} THEN 0 ELSE pm[CHOOSE o \in value : TRUE].ts

(***************************************************************************)
(* The writes implement AtomicStore.  The store is what a recovery would   *)
(* find; a batch takes effect when its log is committed, a single write    *)
(* when its record is persisted.  The recovery itself changes nothing.     *)
(***************************************************************************)
CallState(t) ==
  CASE pc[t] = "idle" -> "none"
    [] pc[t] = "fail" -> "failed"
    [] pc[t] \in {"publish", "remove", "release"} -> "done"
    [] OTHER -> "pending"

Store == INSTANCE AtomicStore WITH
  Caller <- Thread,
  StoreKey <- Key,
  StoreValue <- 1 .. MaxTs,
  db <- [k \in Key |-> Durable(k)],
  call <- [t \in Thread |->
             [state |-> CallState(t),
              ops |-> IF pc[t] = "idle" THEN <<>> ELSE ops[t]]]

\* Every behaviour of the engine, with crashes at any point of a call and of
\* the recovery, is one of the atomic store: no batch is applied in part,
\* none that returned Ok is lost, none that failed shows up.
ImplementsAtomicStore == Store!AtomicStoreSpec

\* What a lockless read sees has been made durable: the value in the index is
\* the durable one, or the call that holds the key has committed a newer one
\* and is about to publish it.  "otherwise dirty read may occur".
Visible(k) == IF HasValue(k) THEN pm[index[k]].ts ELSE 0

NoDirtyRead ==
  mode = "up" =>
    \A k \in Key :
      \/ Visible(k) = Durable(k)
      \/ lock[k] # None /\ pc[lock[k]] = "publish" /\ k \in todo[lock[k]]

\* Every space of PMem is in one place: free, waiting to be freed, allocated
\* by one call for one key, or a version of one key.  Nothing is lost by failed
\* calls, by commits or by the recovery, and nothing is used twice.
Linked == UNION {chain[k] : k \in Key}
Allocated == UNION {Spaces(t) : t \in Thread}

SpaceInOnePlace == TypeOK /\
  (mode = "up" =>
    /\ free \cup garbage \cup Linked \cup Allocated = Offset
    /\ free \cap garbage = {} /\ Linked \cap Allocated = {}
    /\ (free \cup garbage) \cap (Linked \cup Allocated) = {}
    /\ \A j, k \in Key : j # k => chain[j] \cap chain[k] = {}
    /\ \A t, u \in Thread : \A j \in DOMAIN space[t], k \in DOMAIN space[u] :
         space[t][j] = space[u][k] => t = u /\ j = k)

\* A call that has its access slot returns, or the engine crashes: RangeLock does
\* not deadlock.  A recovery ends, crashes during it included.  A thread that waits
\* for its slot is idle here; that it gets it is not claimed, as a spin lock may
\* starve it.
CallReturns ==
  /\ \A t \in Thread : pc[t] # "idle" ~> pc[t] = "idle"
  /\ mode # "up" ~> mode = "up"
=============================================================================
