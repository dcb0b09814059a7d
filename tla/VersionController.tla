------------------------- MODULE VersionController -------------------------
(***************************************************************************)
(* engine/version/version_controller.hpp: the timestamps and snapshots of  *)
(* a KVDK instance.                                                        *)
(*                                                                         *)
(* A thread protects what it reads without a lock by a local snapshot, a   *)
(* timestamp it publishes in its slot of version_thread_cache_.  Whoever   *)
(* frees memory computes from these slots the oldest local snapshot.  A    *)
(* user protects versions of the data by a global snapshot, kept in a      *)
(* list.  A batch write publishes its timestamp, so that no snapshot falls *)
(* in the middle of the batch.                                             *)
(*                                                                         *)
(* Every access to shared memory is a step of its own: reading the clock,  *)
(* storing a slot, reading one slot of a scan, updating the list under its *)
(* lock.                                                                   *)
(***************************************************************************)
EXTENDS Integers, Sequences, FiniteSets

CONSTANTS
  Thread,         \* the threads that access the instance
  Cleaner,        \* the background threads that free records
  NumSlots,       \* max_access_threads, the size of version_thread_cache_
  SlotOf,         \* SlotOf[t] is ThreadManager::ThreadID() % NumSlots
  Batcher,        \* the threads that call BatchWrite
  Snapshotter,    \* the threads that call GetSnapshot
  MaxSnapshots,   \* bound: global snapshots at one time
  MaxAdvance,     \* the clock advances by at most this between two reads
  kMaxTimestamp   \* larger than any timestamp; it also bounds the clock

Slot == 0 .. NumSlots - 1
Proc == Thread \cup Cleaner

ASSUME NumSlotsAssumption == NumSlots \in Nat \ {0}
ASSUME SlotOfAssumption == SlotOf \in [Thread -> Slot]
ASSUME RoleAssumption == Batcher \subseteq Thread /\ Snapshotter \subseteq Thread
ASSUME ClockAssumption == MaxAdvance \in Nat /\ kMaxTimestamp \in Nat \ {0}

VARIABLES
  clock,            \* rdtsc() - tsc_on_startup_ + base_timestamp_
  holding,          \* version_thread_cache_[i].holding_snapshot.timestamp
  batch_write_ts,   \* version_thread_cache_[i].batch_write_ts
  local_oldest,     \* local_oldest_snapshot_.timestamp
  global_snapshots, \* the list, in insertion order: head_.prev is the first
  global_oldest,    \* global_oldest_snapshot_ts_
  hold_ts,          \* LocalSnapshotHolder::ts_ of each thread
  stored,           \* has the store of hold_ts[t] reached the slot?
  since,            \* history: the clock when it reached the slot
  scan,             \* progress of UpdateLocalOldestSnapshot in each process
  token,            \* BatchWriteToken::ts_ of each thread
  taking,           \* progress of NewGlobalSnapshot in each thread
  barrier,          \* history: the batches seen open when it read the clock
  crowded,          \* history: has another NewGlobalSnapshot run beside it?
  apart             \* history: snapshots made while no other one was

localVars  == <<holding, hold_ts, stored, since>>
scanVars   == <<local_oldest, scan>>
globalVars == <<global_snapshots, global_oldest, taking, barrier, crowded, apart>>
batchVars  == <<batch_write_ts, token>>
vcVars     == <<clock, localVars, scanVars, globalVars, batchVars>>

Timestamp == 0 .. kMaxTimestamp

MinTs(a, b) == IF a < b THEN a ELSE b

\* No scan, or no snapshot being created, in a thread.
Idle == [at |-> -1, ts |-> kMaxTimestamp]

\* The token of a batch whose local snapshot is not released yet is gone.
Ended == -1

\* The members of the list of global snapshots.
Snapshots == {global_snapshots[i] : i \in 1 .. Len(global_snapshots)}

----------------------------------------------------------------------------
(***************************************************************************)
(* The constructor and Init(base_timestamp): no snapshot is held, and the  *)
(* first UpdateLocalOldestSnapshot() stores the base timestamp.            *)
(***************************************************************************)
VCInit ==
  /\ clock = 0
  /\ holding = [s \in Slot |-> kMaxTimestamp]
  /\ batch_write_ts = [s \in Slot |-> kMaxTimestamp]
  /\ local_oldest = 0
  /\ global_snapshots = <<>>
  /\ global_oldest = kMaxTimestamp
  /\ hold_ts = [t \in Thread |-> kMaxTimestamp]
  /\ stored = [t \in Thread |-> FALSE]
  /\ since = [t \in Thread |-> 0]
  /\ scan = [p \in Proc |-> Idle]
  /\ token = [t \in Thread |-> kMaxTimestamp]
  /\ taking = [t \in Thread |-> Idle]
  /\ barrier = [t \in Thread |-> {}]
  /\ crowded = [t \in Thread |-> FALSE]
  /\ apart = {}

(***************************************************************************)
(* The call of GetCurrentTimestamp returns ts, at least least ticks after  *)
(* the previous reading of the clock by any thread.                        *)
(***************************************************************************)
GetCurrentTimestamp(ts, least) ==
  /\ ts \in clock + least .. clock + MaxAdvance
  /\ ts < kMaxTimestamp
  /\ clock' = ts

(***************************************************************************)
(* HoldLocalSnapshot reads the clock and stores the timestamp in the slot. *)
(* The store is plain: it becomes visible to other threads in a later step *)
(* and the thread itself goes on with ts_.                                 *)
(***************************************************************************)
HoldLocalSnapshot(t, ts, least) ==
  /\ hold_ts[t] = kMaxTimestamp
  /\ GetCurrentTimestamp(ts, least)
  /\ hold_ts' = [hold_ts EXCEPT ![t] = ts]
  /\ UNCHANGED <<holding, stored, since, scanVars, globalVars, batchVars>>

StoreLocalSnapshot(t) ==
  /\ hold_ts[t] # kMaxTimestamp /\ ~stored[t]
  /\ holding' = [holding EXCEPT ![SlotOf[t]] = hold_ts[t]]
  /\ stored' = [stored EXCEPT ![t] = TRUE]
  /\ since' = [since EXCEPT ![t] = clock]
  /\ UNCHANGED <<clock, hold_ts, scanVars, globalVars, batchVars>>

ReleaseLocalSnapshot(t) ==
  /\ holding' = [holding EXCEPT ![SlotOf[t]] = kMaxTimestamp]
  /\ hold_ts' = [hold_ts EXCEPT ![t] = kMaxTimestamp]
  /\ stored' = [stored EXCEPT ![t] = FALSE]
  /\ since' = [since EXCEPT ![t] = 0]
  /\ token' = [token EXCEPT ![t] = kMaxTimestamp]
  /\ UNCHANGED <<clock, scanVars, globalVars, batch_write_ts>>

(***************************************************************************)
(* UpdateLocalOldestSnapshot reads the clock first, then every slot, one   *)
(* after the other, and stores the minimum.                                *)
(***************************************************************************)
UpdateStartWithoutClock(p, ts) ==
  /\ scan[p] = Idle
  /\ GetCurrentTimestamp(ts, 0)
  /\ scan' = [scan EXCEPT ![p] = [at |-> 0, ts |-> kMaxTimestamp]]
  /\ UNCHANGED <<local_oldest, localVars, globalVars, batchVars>>

UpdateStart(p, ts) ==
  /\ scan[p] = Idle
  /\ GetCurrentTimestamp(ts, 0)
  /\ scan' = [scan EXCEPT ![p] = [at |-> 0, ts |-> ts]]
  /\ UNCHANGED <<local_oldest, localVars, globalVars, batchVars>>

UpdateScan(p) ==
  /\ scan[p].at \in Slot
  /\ scan' = [scan EXCEPT ![p] =
                [at |-> @.at + 1, ts |-> MinTs(holding[@.at], @.ts)]]
  /\ UNCHANGED <<clock, local_oldest, localVars, globalVars, batchVars>>

UpdateStore(p) ==
  /\ scan[p].at = NumSlots
  /\ local_oldest' = scan[p].ts
  /\ scan' = [scan EXCEPT ![p] = Idle]
  /\ UNCHANGED <<clock, localVars, globalVars, batchVars>>

----------------------------------------------------------------------------
(***************************************************************************)
(* BatchWriteToken: the constructor reads the clock, then stores the       *)
(* timestamp in the slot; the destructor resets the slot.  batchWriteImpl  *)
(* holds its local snapshot before it takes the token, and the clock of    *)
(* one thread is strictly increasing.                                      *)
(***************************************************************************)
TokenRead(t, ts) ==
  /\ token[t] = kMaxTimestamp
  /\ hold_ts[t] < ts
  /\ GetCurrentTimestamp(ts, 0)
  /\ token' = [token EXCEPT ![t] = ts]
  /\ UNCHANGED <<batch_write_ts, localVars, scanVars, globalVars>>

TokenStore(t) ==
  /\ token[t] \notin {kMaxTimestamp, Ended}
  /\ batch_write_ts[SlotOf[t]] = kMaxTimestamp
  /\ batch_write_ts' = [batch_write_ts EXCEPT ![SlotOf[t]] = token[t]]
  /\ UNCHANGED <<clock, token, localVars, scanVars, globalVars>>

\* The batch has a token and its store is visible.
InBatch(t) ==
  token[t] # kMaxTimestamp /\ batch_write_ts[SlotOf[t]] = token[t]

TokenReleaseWithoutReset(t) ==
  /\ InBatch(t)
  /\ token' = [token EXCEPT ![t] = Ended]
  /\ barrier' = [p \in Thread |-> barrier[p] \ {t}]
  /\ UNCHANGED <<clock, batch_write_ts, localVars, scanVars,
                 global_snapshots, global_oldest, taking, crowded, apart>>

TokenRelease(t) ==
  /\ InBatch(t)
  /\ token' = [token EXCEPT ![t] = Ended]
  /\ batch_write_ts' = [batch_write_ts EXCEPT ![SlotOf[t]] = kMaxTimestamp]
  /\ barrier' = [p \in Thread |-> barrier[p] \ {t}]
  /\ UNCHANGED <<clock, localVars, scanVars,
                 global_snapshots, global_oldest, taking, crowded, apart>>

----------------------------------------------------------------------------
(***************************************************************************)
(* NewGlobalSnapshot(true): read the clock, spin at every slot while the   *)
(* timestamp is not older than a batch, then insert into the list and      *)
(* store the oldest under global_snapshots_lock_.  (No caller passes       *)
(* may_block = false.)                                                     *)
(***************************************************************************)
OldestSnapshotTS(list) == IF list = <<>> THEN kMaxTimestamp ELSE list[1]

\* The other threads that are creating a snapshot.
OthersTaking(t) == {u \in Thread \ {t} : taking[u] # Idle}

\* The first at slots have been looked at.
BeginSnapshot(t, ts, at) ==
  /\ taking[t] = Idle
  /\ Len(global_snapshots) < MaxSnapshots
  /\ GetCurrentTimestamp(ts, 0)
  /\ taking' = [taking EXCEPT ![t] = [at |-> at, ts |-> ts]]
  /\ barrier' = [barrier EXCEPT ![t] = {b \in Thread : InBatch(b)}]
  /\ crowded' = [u \in Thread |->
       IF u = t THEN OthersTaking(t) # {} ELSE crowded[u] \/ u \in OthersTaking(t)]
  /\ UNCHANGED <<global_snapshots, global_oldest, apart, localVars, scanVars,
                 batchVars>>

NewSnapshotRead(t, ts) == BeginSnapshot(t, ts, 0)

NewSnapshotStrictWait(t) ==
  /\ taking[t].at \in Slot
  /\ ~(taking[t].ts > batch_write_ts[taking[t].at])
  /\ taking' = [taking EXCEPT ![t].at = @ + 1]
  /\ UNCHANGED <<clock, global_snapshots, global_oldest, barrier, crowded, apart,
                 localVars, scanVars, batchVars>>

NewSnapshotWait(t) ==
  /\ taking[t].at \in Slot
  /\ ~(taking[t].ts >= batch_write_ts[taking[t].at])
  /\ taking' = [taking EXCEPT ![t].at = @ + 1]
  /\ UNCHANGED <<clock, global_snapshots, global_oldest, barrier, crowded, apart,
                 localVars, scanVars, batchVars>>

NewSnapshotInsert(t) ==
  /\ taking[t].at = NumSlots
  /\ global_snapshots' = Append(global_snapshots, taking[t].ts)
  /\ global_oldest' = OldestSnapshotTS(global_snapshots')
  /\ taking' = [taking EXCEPT ![t] = Idle]
  /\ barrier' = [barrier EXCEPT ![t] = {}]
  /\ crowded' = [crowded EXCEPT ![t] = FALSE]
  /\ apart' = IF crowded[t] THEN apart \ {taking[t].ts} ELSE apart \cup {taking[t].ts}
  /\ UNCHANGED <<clock, localVars, scanVars, batchVars>>

\* SnapshotList::Delete of the i-th snapshot.
DeleteAt(list, i) == SubSeq(list, 1, i - 1) \o SubSeq(list, i + 1, Len(list))

ReleaseSnapshotStale(i) ==
  /\ i \in 1 .. Len(global_snapshots)
  /\ global_snapshots' = DeleteAt(global_snapshots, i)
  /\ global_oldest' = OldestSnapshotTS(SubSeq(global_snapshots, i + 1,
                                              Len(global_snapshots)))
  /\ UNCHANGED <<clock, taking, barrier, crowded, apart, localVars, scanVars, batchVars>>

ReleaseSnapshot(i) ==
  /\ i \in 1 .. Len(global_snapshots)
  /\ global_snapshots' = DeleteAt(global_snapshots, i)
  /\ global_oldest' = OldestSnapshotTS(global_snapshots')
  /\ UNCHANGED <<clock, taking, barrier, crowded, apart, localVars, scanVars, batchVars>>

----------------------------------------------------------------------------
(***************************************************************************)
(* The controller by itself, used by threads in the way the engine does:   *)
(* a thread is in one call at a time, and a batch is written under a local *)
(* snapshot.                                                               *)
(***************************************************************************)
InCall(t) ==
  \/ hold_ts[t] # kMaxTimestamp /\ ~stored[t]
  \/ token[t] \notin {kMaxTimestamp, Ended, batch_write_ts[SlotOf[t]]}
  \/ taking[t] # Idle

StartCall(t) ==
  /\ ~InCall(t)
  /\ \/ \E ts \in Timestamp : HoldLocalSnapshot(t, ts, 0)
     \/ stored[t] /\ ~InBatch(t) /\ ReleaseLocalSnapshot(t)
     \/ t \in Batcher /\ stored[t] /\ \E ts \in Timestamp : TokenRead(t, ts)
     \/ /\ t \in Snapshotter /\ ~stored[t]
        /\ \E ts \in Timestamp : NewSnapshotRead(t, ts)

ContinueCall(t) ==
  \/ StoreLocalSnapshot(t)
  \/ TokenStore(t)
  \/ NewSnapshotWait(t)
  \/ NewSnapshotInsert(t)

EndBatch(t) == ~InCall(t) /\ TokenRelease(t)

\* In the engine threads scan too, from tryCleanCachedOutdatedRecord.
UpdateLocalOldestSnapshot(p) ==
  \/ \E ts \in Timestamp : UpdateStart(p, ts)
  \/ UpdateScan(p)
  \/ UpdateStore(p)

VCNext ==
  \/ \E t \in Thread : StartCall(t) \/ ContinueCall(t) \/ EndBatch(t)
  \/ \E c \in Cleaner : UpdateLocalOldestSnapshot(c)
  \/ \E i \in 1 .. Len(global_snapshots) : ReleaseSnapshot(i)

VCSafety == VCInit /\ [][VCNext]_vcVars

\* A thread that is in a call, or that writes a batch, is scheduled.
VCSpec ==
  /\ VCSafety
  /\ \A t \in Thread : WF_vcVars(ContinueCall(t)) /\ WF_vcVars(EndBatch(t))

----------------------------------------------------------------------------
VCTypeOK ==
  /\ clock \in Timestamp
  /\ holding \in [Slot -> Timestamp]
  /\ batch_write_ts \in [Slot -> Timestamp]
  /\ local_oldest \in Timestamp
  /\ global_snapshots \in Seq(Timestamp)
  /\ global_oldest \in Timestamp
  /\ hold_ts \in [Thread -> Timestamp]
  /\ stored \in [Thread -> BOOLEAN]
  /\ since \in [Thread -> Timestamp]
  /\ scan \in [Proc -> [at : -1 .. NumSlots, ts : Timestamp]]
  /\ token \in [Thread -> Timestamp \cup {Ended}]
  /\ taking \in [Thread -> [at : -1 .. NumSlots, ts : Timestamp]]
  /\ barrier \in [Thread -> SUBSET Thread]
  /\ crowded \in [Thread -> BOOLEAN]
  /\ apart \subseteq Timestamp

(***************************************************************************)
(* What LocalSnapshotHolder gives a lockless reader: from the moment its   *)
(* timestamp is in the slot until it is released, the oldest local         *)
(* snapshot that UpdateLocalOldestSnapshot publishes is not newer than     *)
(* that moment, whichever scans of the slots were under way.               *)
(***************************************************************************)
LocalOldestPromise ==
  \A t \in Thread : stored[t] => local_oldest <= since[t]

(***************************************************************************)
(* NewGlobalSnapshot does not register a snapshot while a batch whose      *)
(* token was visible when the snapshot took its timestamp is still being   *)
(* written: such a snapshot sees all of that batch.                        *)
(***************************************************************************)
SnapshotWaitsForBatch ==
  \A t \in Thread : taking[t].at = NumSlots => barrier[t] = {}

(***************************************************************************)
(* global_oldest_snapshot_ts_, behind which removeOutDatedVersion cuts the *)
(* version chains, is not newer than a registered snapshot that was made   *)
(* while no other one was being made; whoever else creates and releases    *)
(* snapshots, at once and in any order.  Two that are made at once may be  *)
(* linked in the wrong order, and the newer one then hides the older one   *)
(* (OldestCoversAll) and no other.                                         *)
(***************************************************************************)
GlobalOldestCovers == \A ts \in Snapshots \cap apart : global_oldest <= ts

(***************************************************************************)
(* What its name says of global_oldest_snapshot_ts_, and what the cleaner  *)
(* relies on: it is not newer than any registered snapshot.                *)
(***************************************************************************)
OldestCoversAll == \A ts \in Snapshots : global_oldest <= ts

(***************************************************************************)
(* NewGlobalSnapshot returns: batches that keep coming carry newer         *)
(* timestamps and do not hold it back.                                     *)
(***************************************************************************)
SnapshotCreated == \A t \in Thread : taking[t] # Idle ~> taking[t] = Idle
=============================================================================
