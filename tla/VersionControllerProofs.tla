---------------------- MODULE VersionControllerProofs ----------------------
(***************************************************************************)
(* Proofs about VersionController, for any number of threads and slots.    *)
(*                                                                         *)
(* LocalOldestPromise is not inductive: a scan that is under way may have  *)
(* passed the slot of a thread before the thread stored its snapshot.      *)
(* LocalInv adds what such a scan carries: a value that is not newer than  *)
(* the clock when the scan began, hence not newer than any store that came *)
(* after the scan had passed the slot.                                     *)
(***************************************************************************)
EXTENDS VersionController, SequenceTheorems, TLAPS

USE Zenon

LocalType ==
  /\ clock \in Timestamp /\ clock < kMaxTimestamp
  /\ holding \in [Slot -> Timestamp]
  /\ local_oldest \in Timestamp
  /\ hold_ts \in [Thread -> Timestamp]
  /\ stored \in [Thread -> BOOLEAN]
  /\ since \in [Thread -> Timestamp]
  /\ scan \in [Proc -> [at : -1 .. NumSlots, ts : Timestamp]]

\* A snapshot that is stored is in its slot and was read before the store.
StoredInv ==
  \A t \in Thread :
    stored[t] => /\ holding[SlotOf[t]] = hold_ts[t]
                 /\ hold_ts[t] <= since[t]
                 /\ since[t] <= clock

HoldInv == \A t \in Thread : hold_ts[t] # kMaxTimestamp => hold_ts[t] <= clock

\* A scan carries no value from the future, ...
ScanClock ==
  /\ local_oldest <= clock
  /\ \A p \in Proc : scan[p].at # -1 => scan[p].ts <= clock

\* ... nor one newer than a store into a slot that it has passed.
ScanStored ==
  \A p \in Proc, t \in Thread :
    stored[t] /\ SlotOf[t] < scan[p].at => scan[p].ts <= since[t]

LocalInv ==
  /\ LocalType /\ StoredInv /\ HoldInv /\ ScanClock /\ ScanStored
  /\ LocalOldestPromise

\* t is the only thread that has a snapshot in its slot.
Alone(t) == \A u \in Thread : u # t /\ SlotOf[u] = SlotOf[t] => ~stored[u]

USE DEF Timestamp, Slot

----------------------------------------------------------------------------
\* LocalInv holds initially.
LEMMA LocalInvInit == VCInit => LocalInv
  BY SMT, NumSlotsAssumption, SlotOfAssumption, ClockAssumption
  DEF VCInit, LocalInv, LocalType, StoredInv, HoldInv, ScanClock, ScanStored,
      LocalOldestPromise, Idle, Proc

\* LocalInv does not depend on the variables of batches and of global
\* snapshots, and the clock may only grow.
LEMMA LocalInvClock ==
  ASSUME LocalInv, clock' \in clock .. kMaxTimestamp - 1,
         UNCHANGED <<localVars, scanVars>>
  PROVE  LocalInv'
  BY SMT, NumSlotsAssumption, SlotOfAssumption, ClockAssumption
  DEF LocalInv, LocalType, StoredInv, HoldInv, ScanClock, ScanStored,
      LocalOldestPromise, localVars, scanVars

\* A reading of the clock is not older than the readings before it.
LEMMA ClockStep ==
  ASSUME NEW ts, NEW least \in Nat, clock \in Timestamp,
         GetCurrentTimestamp(ts, least)
  PROVE  /\ clock' = ts
         /\ ts \in clock .. kMaxTimestamp - 1
         /\ least \in Nat \ {0} => clock < ts
  BY SMT, ClockAssumption DEF GetCurrentTimestamp

\* HoldLocalSnapshot only reads the clock.
LEMMA HoldPreserves ==
  ASSUME NEW t \in Thread, NEW ts, NEW least \in Nat, LocalInv,
         HoldLocalSnapshot(t, ts, least)
  PROVE  LocalInv' /\ ~stored[t]
<1>1. clock' = ts /\ ts \in clock .. kMaxTimestamp - 1
  BY ClockStep DEF HoldLocalSnapshot, LocalInv, LocalType
<1>2. ~stored[t]
  BY SMT, ClockAssumption DEF HoldLocalSnapshot, LocalInv, LocalType, StoredInv
<1>3. /\ hold_ts' = [hold_ts EXCEPT ![t] = ts]
      /\ UNCHANGED <<holding, stored, since, local_oldest, scan>>
  BY DEF HoldLocalSnapshot, scanVars
<1>4. LocalType'
  BY SMT, <1>1, <1>3, ClockAssumption DEF LocalInv, LocalType
<1>5. StoredInv' /\ HoldInv'
  BY SMT, <1>1, <1>2, <1>3, SlotOfAssumption, ClockAssumption
  DEF LocalInv, LocalType, StoredInv, HoldInv
<1>6. ScanClock' /\ ScanStored' /\ LocalOldestPromise'
  BY SMT, <1>1, <1>3, ClockAssumption, NumSlotsAssumption
  DEF LocalInv, LocalType, ScanClock, ScanStored, LocalOldestPromise
<1> QED
  BY <1>2, <1>4, <1>5, <1>6 DEF LocalInv

\* The store of a local snapshot: every scan under way, and the oldest
\* snapshot published so far, carry values of the past.
LEMMA StorePreserves ==
  ASSUME NEW t \in Thread, LocalInv, Alone(t), StoreLocalSnapshot(t)
  PROVE  LocalInv'
<1>1. /\ holding' = [holding EXCEPT ![SlotOf[t]] = hold_ts[t]]
      /\ stored' = [stored EXCEPT ![t] = TRUE]
      /\ since' = [since EXCEPT ![t] = clock]
      /\ hold_ts[t] # kMaxTimestamp
      /\ UNCHANGED <<clock, hold_ts, local_oldest, scan>>
  BY DEF StoreLocalSnapshot, scanVars
<1>2. LocalType'
  BY <1>1, SlotOfAssumption DEF LocalInv, LocalType
<1>3. StoredInv'
  <2> SUFFICES ASSUME NEW u \in Thread, stored'[u]
               PROVE  /\ holding'[SlotOf[u]] = hold_ts'[u]
                      /\ hold_ts'[u] <= since'[u]
                      /\ since'[u] <= clock'
    BY DEF StoredInv
  <2>1. CASE u = t
    <3>1. hold_ts[t] <= clock
      BY <1>1 DEF LocalInv, HoldInv
    <3>2. SlotOf[t] \in Slot
      BY SlotOfAssumption
    <3>3. clock <= clock
      BY SMT DEF LocalInv, LocalType
    <3> QED
      BY <1>1, <2>1, <3>1, <3>2, <3>3 DEF LocalInv, LocalType
  <2>2. CASE u # t
    BY <1>1, <2>2, SlotOfAssumption DEF LocalInv, LocalType, StoredInv, Alone
  <2> QED
    BY <2>1, <2>2
<1>4. ScanClock' /\ HoldInv'
  BY <1>1 DEF LocalInv, ScanClock, HoldInv
<1>5. ScanStored' /\ LocalOldestPromise'
  <2>1. ASSUME NEW p \in Proc, NEW u \in Thread,
               stored'[u], SlotOf[u] < scan[p].at
        PROVE  scan[p].ts <= since'[u]
    <3>1. CASE u = t
      <4>1. scan[p].at # -1
        BY SMT, <2>1, SlotOfAssumption, NumSlotsAssumption DEF LocalInv, LocalType
      <4> QED
        BY <1>1, <3>1, <4>1 DEF LocalInv, LocalType, ScanClock
    <3>2. CASE u # t
      BY <1>1, <2>1, <3>2 DEF LocalInv, LocalType, ScanStored
    <3> QED
      BY <3>1, <3>2
  <2>2. ASSUME NEW u \in Thread, stored'[u]
        PROVE  local_oldest <= since'[u]
    BY <1>1, <2>2 DEF LocalInv, LocalType, ScanClock, LocalOldestPromise
  <2> QED
    BY <1>1, <2>1, <2>2 DEF ScanStored, LocalOldestPromise
<1> QED
  BY <1>2, <1>3, <1>4, <1>5 DEF LocalInv

\* ReleaseLocalSnapshot frees a slot that no other thread uses.
LEMMA ReleasePreserves ==
  ASSUME NEW t \in Thread, LocalInv, Alone(t), ReleaseLocalSnapshot(t)
  PROVE  LocalInv'
<1>1. /\ holding' = [holding EXCEPT ![SlotOf[t]] = kMaxTimestamp]
      /\ hold_ts' = [hold_ts EXCEPT ![t] = kMaxTimestamp]
      /\ stored' = [stored EXCEPT ![t] = FALSE]
      /\ since' = [since EXCEPT ![t] = 0]
      /\ UNCHANGED <<clock, local_oldest, scan>>
  BY DEF ReleaseLocalSnapshot, scanVars
<1>2. LocalType'
  <2>1. SlotOf[t] \in Slot /\ kMaxTimestamp \in Timestamp /\ 0 \in Timestamp
    BY SMT, SlotOfAssumption, ClockAssumption
  <2> QED
    BY <1>1, <2>1 DEF LocalInv, LocalType
<1>3. StoredInv'
  <2> SUFFICES ASSUME NEW u \in Thread, stored'[u]
               PROVE  /\ holding'[SlotOf[u]] = hold_ts'[u]
                      /\ hold_ts'[u] <= since'[u]
                      /\ since'[u] <= clock'
    BY DEF StoredInv
  <2>1. u # t /\ stored[u]
    BY <1>1 DEF LocalInv, LocalType
  <2> QED
    BY <1>1, <2>1, SlotOfAssumption DEF LocalInv, LocalType, StoredInv, Alone
<1>4. ScanClock' /\ HoldInv'
  BY <1>1 DEF LocalInv, LocalType, ScanClock, HoldInv
<1>5. ScanStored' /\ LocalOldestPromise'
  BY <1>1, SlotOfAssumption, NumSlotsAssumption
  DEF LocalInv, LocalType, ScanStored, LocalOldestPromise
<1> QED
  BY <1>2, <1>3, <1>4, <1>5 DEF LocalInv

\* A scan begins with the clock.
LEMMA UpdateStartPreserves ==
  ASSUME NEW p \in Proc, NEW ts, LocalInv, UpdateStart(p, ts)
  PROVE  LocalInv'
<1>1. clock' = ts /\ ts \in clock .. kMaxTimestamp - 1
  BY ClockStep DEF UpdateStart, LocalInv, LocalType
<1>2. /\ scan' = [scan EXCEPT ![p] = [at |-> 0, ts |-> ts]]
      /\ UNCHANGED <<holding, hold_ts, stored, since, local_oldest>>
  BY DEF UpdateStart, localVars
<1>3. LocalType'
  BY SMT, <1>1, <1>2, NumSlotsAssumption, ClockAssumption DEF LocalInv, LocalType
<1>4. StoredInv' /\ HoldInv' /\ LocalOldestPromise'
  BY SMT, <1>1, <1>2, SlotOfAssumption, ClockAssumption
  DEF LocalInv, LocalType, StoredInv, HoldInv, LocalOldestPromise
<1>5. ScanClock'
  BY SMT, <1>1, <1>2, ClockAssumption, NumSlotsAssumption
  DEF LocalInv, LocalType, ScanClock
<1>6. ScanStored'
  BY SMT, <1>1, <1>2, SlotOfAssumption, NumSlotsAssumption
  DEF LocalInv, LocalType, ScanStored
<1> QED
  BY <1>3, <1>4, <1>5, <1>6 DEF LocalInv

\* A scan reads one slot: the value there is not newer than its store.
LEMMA UpdateScanPreserves ==
  ASSUME NEW p \in Proc, LocalInv, UpdateScan(p)
  PROVE  LocalInv'
<1> DEFINE i == scan[p].at
           m == MinTs(holding[i], scan[p].ts)
<1>1. /\ i \in Slot
      /\ scan' = [scan EXCEPT ![p] = [at |-> i + 1, ts |-> m]]
      /\ UNCHANGED <<clock, holding, hold_ts, stored, since, local_oldest>>
  BY DEF UpdateScan, localVars, LocalInv, LocalType
<1>2. /\ m \in Timestamp /\ m <= holding[i] /\ m <= scan[p].ts
      /\ i + 1 \in -1 .. NumSlots
  BY SMT, <1>1, ClockAssumption, NumSlotsAssumption
  DEF MinTs, LocalInv, LocalType
<1> HIDE DEF m
<1>3. LocalType'
  BY <1>1, <1>2 DEF LocalInv, LocalType
<1>4. StoredInv' /\ HoldInv' /\ LocalOldestPromise'
  BY <1>1 DEF LocalInv, StoredInv, HoldInv, LocalOldestPromise
<1>5. ScanClock'
  BY SMT, <1>1, <1>2, ClockAssumption, NumSlotsAssumption
  DEF LocalInv, LocalType, ScanClock
<1>6. ScanStored'
  <2> SUFFICES ASSUME NEW q \in Proc, NEW t \in Thread,
                      stored[t], SlotOf[t] < scan'[q].at
               PROVE  scan'[q].ts <= since[t]
    BY <1>1 DEF ScanStored
  <2>1. CASE q # p
    BY <1>1, <2>1 DEF LocalInv, LocalType, ScanStored
  <2>2. CASE q = p /\ SlotOf[t] = i
    BY SMT, <1>1, <1>2, <2>2, ClockAssumption
    DEF LocalInv, LocalType, StoredInv
  <2>3. CASE q = p /\ SlotOf[t] # i
    <3>1. SlotOf[t] < i
      BY SMT, <1>1, <2>3, SlotOfAssumption, NumSlotsAssumption
      DEF LocalInv, LocalType
    <3> QED
      BY SMT, <1>1, <1>2, <2>3, <3>1, ClockAssumption
      DEF LocalInv, LocalType, ScanStored
  <2> QED
    BY <2>1, <2>2, <2>3
<1> QED
  BY <1>3, <1>4, <1>5, <1>6 DEF LocalInv

\* A scan that has passed every slot publishes a value that keeps the
\* promise to every thread.
LEMMA UpdateStorePreserves ==
  ASSUME NEW p \in Proc, LocalInv, UpdateStore(p)
  PROVE  LocalInv'
<1>1. /\ scan[p].at = NumSlots
      /\ local_oldest' = scan[p].ts
      /\ scan' = [scan EXCEPT ![p] = Idle]
      /\ UNCHANGED <<clock, holding, hold_ts, stored, since>>
  BY DEF UpdateStore, localVars
<1>2. LocalType'
  BY SMT, <1>1, ClockAssumption, NumSlotsAssumption DEF LocalInv, LocalType, Idle
<1>3. StoredInv' /\ HoldInv'
  BY <1>1 DEF LocalInv, StoredInv, HoldInv
<1>4. ScanClock'
  BY SMT, <1>1, ClockAssumption, NumSlotsAssumption
  DEF LocalInv, LocalType, ScanClock, Idle
<1>5. ScanStored'
  BY SMT, <1>1, SlotOfAssumption, NumSlotsAssumption
  DEF LocalInv, LocalType, ScanStored, Idle
<1>6. LocalOldestPromise'
  BY SMT, <1>1, SlotOfAssumption, NumSlotsAssumption
  DEF LocalInv, LocalType, ScanStored, LocalOldestPromise
<1> QED
  BY <1>2, <1>3, <1>4, <1>5, <1>6 DEF LocalInv

----------------------------------------------------------------------------
(***************************************************************************)
(* The controller by itself: batches and global snapshots.                 *)
(***************************************************************************)
\* Every thread has a slot of its own: there are at most max_access_threads
\* of them.
InjectiveSlots == \A t, u \in Thread : SlotOf[t] = SlotOf[u] => t = u

GlobalType ==
  /\ batch_write_ts \in [Slot -> Timestamp]
  /\ global_snapshots \in Seq(Timestamp)
  /\ global_oldest \in Timestamp
  /\ token \in [Thread -> Timestamp \cup {Ended}]
  /\ taking \in [Thread -> [at : -1 .. NumSlots, ts : Timestamp]]
  /\ barrier \in [Thread -> SUBSET Thread]
  /\ crowded \in [Thread -> BOOLEAN]
  /\ apart \subseteq Timestamp

TokenInv == \A t \in Thread : token[t] # kMaxTimestamp => token[t] <= clock

\* A snapshot being created has not passed the slot of a batch it saw.
BarrierInv ==
  \A t \in Thread : \A b \in barrier[t] :
    /\ InBatch(b)
    /\ token[b] <= taking[t].ts
    /\ taking[t].at \in 0 .. SlotOf[b]

GlobalInv == GlobalType /\ TokenInv /\ BarrierInv

\* The type invariant is what the two inductive invariants say of types.
LEMMA TypeFromInv == LocalInv /\ GlobalInv => VCTypeOK
  BY DEF LocalInv, LocalType, GlobalInv, GlobalType, VCTypeOK

LEMMA TokenInt == GlobalInv => \A t \in Thread : token[t] \in Int
  BY SMT, ClockAssumption DEF GlobalInv, GlobalType, Ended

\* GlobalInv holds initially.
LEMMA GlobalInvInit == VCInit => GlobalInv
  BY SMT, NumSlotsAssumption, ClockAssumption
  DEF VCInit, GlobalInv, GlobalType, TokenInv, BarrierInv, Idle, Ended

\* GlobalInv only needs the clock to grow.
LEMMA GlobalInvClock ==
  ASSUME GlobalInv, clock \in Timestamp, clock' \in clock .. kMaxTimestamp - 1,
         UNCHANGED <<globalVars, batchVars>>
  PROVE  GlobalInv'
<1>1. GlobalType'
  BY DEF GlobalInv, GlobalType, globalVars, batchVars
<1>2. TokenInv'
  BY SMT, ClockAssumption DEF GlobalInv, GlobalType, TokenInv, batchVars, Ended
<1>3. BarrierInv'
  BY DEF GlobalInv, BarrierInv, InBatch, globalVars, batchVars
<1> QED
  BY <1>1, <1>2, <1>3 DEF GlobalInv

\* Releasing a local snapshot forgets a token that has been released.
LEMMA ReleaseGlobal ==
  ASSUME NEW t \in Thread, GlobalInv, ~InBatch(t), ReleaseLocalSnapshot(t)
  PROVE  GlobalInv'
<1>1. /\ token' = [token EXCEPT ![t] = kMaxTimestamp]
      /\ UNCHANGED <<clock, batch_write_ts, global_snapshots, global_oldest,
                     taking, barrier, crowded, apart>>
  BY DEF ReleaseLocalSnapshot, globalVars
<1>2. GlobalType'
  BY SMT, <1>1, ClockAssumption DEF GlobalInv, GlobalType
<1>3. TokenInv'
  BY <1>1 DEF GlobalInv, GlobalType, TokenInv
<1>4. BarrierInv'
  BY <1>1 DEF GlobalInv, GlobalType, BarrierInv, InBatch
<1> QED
  BY <1>2, <1>3, <1>4 DEF GlobalInv

\* A batch that reads its timestamp is in no barrier.
LEMMA TokenReadGlobal ==
  ASSUME NEW t \in Thread, NEW ts, GlobalInv, clock \in Timestamp,
         TokenRead(t, ts)
  PROVE  GlobalInv'
<1>1. clock' = ts /\ ts \in clock .. kMaxTimestamp - 1
  BY ClockStep DEF TokenRead
<1>2. /\ token[t] = kMaxTimestamp
      /\ token' = [token EXCEPT ![t] = ts]
      /\ UNCHANGED <<batch_write_ts, global_snapshots, global_oldest, taking,
                     barrier, crowded, apart>>
  BY DEF TokenRead, globalVars
<1>3. GlobalType'
  <2>1. ts \in Timestamp
    BY SMT, <1>1, ClockAssumption
  <2>2. token' \in [Thread -> Timestamp \cup {Ended}]
    BY <1>2, <2>1 DEF GlobalInv, GlobalType
  <2> QED
    BY <1>2, <2>2 DEF GlobalInv, GlobalType
<1>4. TokenInv'
  <2>1. token \in [Thread -> Timestamp \cup {Ended}] /\ TokenInv
    BY DEF GlobalInv, GlobalType
  <2> QED
    BY SMT, <1>1, <1>2, <2>1, ClockAssumption DEF TokenInv, Ended
<1>5. BarrierInv'
  BY <1>1, <1>2 DEF GlobalInv, GlobalType, BarrierInv, InBatch
<1> QED
  BY <1>3, <1>4, <1>5 DEF GlobalInv

\* The store of a token changes a slot in which there is none.
LEMMA TokenStoreGlobal ==
  ASSUME NEW t \in Thread, InjectiveSlots, GlobalInv, TokenStore(t)
  PROVE  GlobalInv'
<1>1. /\ token[t] \in Timestamp
      /\ batch_write_ts[SlotOf[t]] = kMaxTimestamp
      /\ batch_write_ts' = [batch_write_ts EXCEPT ![SlotOf[t]] = token[t]]
      /\ UNCHANGED <<clock, token, global_snapshots, global_oldest, taking,
                     barrier, crowded, apart>>
  BY DEF TokenStore, globalVars, GlobalInv, GlobalType
<1>2. GlobalType'
  BY <1>1, SlotOfAssumption DEF GlobalInv, GlobalType
<1>3. TokenInv'
  BY <1>1 DEF GlobalInv, TokenInv
<1>4. BarrierInv'
  <2> SUFFICES ASSUME NEW u \in Thread, NEW b \in barrier[u]
               PROVE  /\ batch_write_ts'[SlotOf[b]] = batch_write_ts[SlotOf[b]]
                      /\ b \in Thread
    BY <1>1 DEF GlobalInv, GlobalType, BarrierInv, InBatch
  <2>1. b \in Thread /\ SlotOf[b] # SlotOf[t]
    BY <1>1 DEF GlobalInv, GlobalType, BarrierInv, InBatch, InjectiveSlots
  <2> QED
    BY <1>1, <2>1, SlotOfAssumption DEF GlobalInv, GlobalType
<1> QED
  BY <1>2, <1>3, <1>4 DEF GlobalInv

\* The end of a batch leaves every barrier.
LEMMA TokenReleaseGlobal ==
  ASSUME NEW t \in Thread, InjectiveSlots, GlobalInv, clock \in Timestamp,
         TokenRelease(t)
  PROVE  GlobalInv'
<1>1. /\ token' = [token EXCEPT ![t] = Ended]
      /\ batch_write_ts' = [batch_write_ts EXCEPT ![SlotOf[t]] = kMaxTimestamp]
      /\ barrier' = [p \in Thread |-> barrier[p] \ {t}]
      /\ UNCHANGED <<clock, global_snapshots, global_oldest, taking, crowded, apart>>
  BY DEF TokenRelease
<1>2. GlobalType'
  <2>1. batch_write_ts' \in [Slot -> Timestamp]
    <3>1. kMaxTimestamp \in Timestamp
      BY SMT, ClockAssumption
    <3> QED
      BY <1>1, <3>1 DEF GlobalInv, GlobalType
  <2>2. token' \in [Thread -> Timestamp \cup {Ended}]
    BY <1>1 DEF GlobalInv, GlobalType
  <2>3. barrier' \in [Thread -> SUBSET Thread]
    BY <1>1 DEF GlobalInv, GlobalType
  <2> QED
    BY <1>1, <2>1, <2>2, <2>3 DEF GlobalInv, GlobalType
<1>3. TokenInv'
  BY SMT, <1>1 DEF GlobalInv, GlobalType, TokenInv, Ended
<1>4. BarrierInv'
  <2> SUFFICES ASSUME NEW u \in Thread, NEW b \in barrier'[u]
               PROVE  /\ batch_write_ts'[SlotOf[b]] = batch_write_ts[SlotOf[b]]
                      /\ b \in barrier[u] /\ token'[b] = token[b]
    BY SMT, <1>1 DEF GlobalInv, GlobalType, BarrierInv, InBatch
  <2>1. b \in barrier[u] /\ b \in Thread /\ b # t
    BY <1>1 DEF GlobalInv, GlobalType
  <2>2. SlotOf[b] # SlotOf[t]
    BY <2>1 DEF InjectiveSlots
  <2> QED
    BY <1>1, <2>1, <2>2, SlotOfAssumption DEF GlobalInv, GlobalType
<1> QED
  BY <1>2, <1>3, <1>4 DEF GlobalInv

\* A snapshot takes its timestamp: it is not older than any open batch.
LEMMA SnapshotReadGlobal ==
  ASSUME NEW t \in Thread, NEW ts, GlobalInv, clock \in Timestamp,
         NewSnapshotRead(t, ts)
  PROVE  GlobalInv'
<1>1. clock' = ts /\ ts \in clock .. kMaxTimestamp - 1
  BY ClockStep DEF NewSnapshotRead, BeginSnapshot
<1>2. /\ taking' = [taking EXCEPT ![t] = [at |-> 0, ts |-> ts]]
      /\ barrier' = [barrier EXCEPT ![t] = {b \in Thread : InBatch(b)}]
      /\ crowded' = [u \in Thread |->
           IF u = t THEN OthersTaking(t) # {} ELSE crowded[u] \/ u \in OthersTaking(t)]
      /\ UNCHANGED <<batch_write_ts, token, global_snapshots, global_oldest, apart>>
  BY DEF NewSnapshotRead, BeginSnapshot, batchVars
<1>3. GlobalType'
  <2>1. [at |-> 0, ts |-> ts] \in [at : -1 .. NumSlots, ts : Timestamp]
    BY SMT, <1>1, NumSlotsAssumption, ClockAssumption
  <2>2. {b \in Thread : InBatch(b)} \in SUBSET Thread
    OBVIOUS
  <2>3. crowded' \in [Thread -> BOOLEAN]
    BY <1>2 DEF GlobalInv, GlobalType
  <2> QED
    BY <1>2, <2>1, <2>2, <2>3 DEF GlobalInv, GlobalType
<1>4. TokenInv'
  BY SMT, <1>1, <1>2, TokenInt, ClockAssumption DEF GlobalInv, TokenInv
<1>5. BarrierInv'
  <2> SUFFICES ASSUME NEW u \in Thread, NEW b \in barrier'[u]
               PROVE  /\ InBatch(b)
                      /\ token[b] <= taking'[u].ts
                      /\ taking'[u].at \in 0 .. SlotOf[b]
    BY <1>2 DEF BarrierInv, InBatch
  <2>1. CASE u # t
    BY <1>2, <2>1 DEF GlobalInv, GlobalType, BarrierInv
  <2>2. CASE u = t
    <3>1. b \in Thread /\ InBatch(b)
      BY <1>2, <2>2 DEF GlobalInv, GlobalType
    <3>2. token[b] <= clock
      BY <3>1 DEF InBatch, GlobalInv, TokenInv
    <3>3. token[b] <= ts
      BY SMT, <1>1, <3>1, <3>2, TokenInt, ClockAssumption
    <3>4. SlotOf[b] \in Nat
      BY SMT, <3>1, SlotOfAssumption
    <3>5. taking'[u] = [at |-> 0, ts |-> ts]
      BY <1>2, <2>2 DEF GlobalInv, GlobalType
    <3> QED
      BY SMT, <3>1, <3>3, <3>4, <3>5
  <2> QED
    BY <2>1, <2>2
<1> QED
  BY <1>3, <1>4, <1>5 DEF GlobalInv

\* It passes a slot only if there is no batch of its barrier in it.
LEMMA SnapshotWaitGlobal ==
  ASSUME NEW t \in Thread, GlobalInv, NewSnapshotWait(t)
  PROVE  GlobalInv'
<1>1. /\ taking[t].at \in Slot
      /\ ~(taking[t].ts >= batch_write_ts[taking[t].at])
      /\ taking' = [taking EXCEPT ![t].at = @ + 1]
      /\ UNCHANGED <<clock, batch_write_ts, token, barrier, global_snapshots,
                     global_oldest, crowded, apart>>
  BY DEF NewSnapshotWait, batchVars
<1>2. /\ taking'[t].at = taking[t].at + 1
      /\ taking'[t].ts = taking[t].ts
      /\ \A u \in Thread : u # t => taking'[u] = taking[u]
      /\ taking' \in [Thread -> [at : -1 .. NumSlots, ts : Timestamp]]
  BY SMT, <1>1, NumSlotsAssumption DEF GlobalInv, GlobalType
<1>3. GlobalType' /\ TokenInv'
  BY <1>1, <1>2 DEF GlobalInv, GlobalType, TokenInv
<1>4. BarrierInv'
  <2> SUFFICES ASSUME NEW u \in Thread, NEW b \in barrier[u]
               PROVE  /\ InBatch(b)
                      /\ token[b] <= taking'[u].ts
                      /\ taking'[u].at \in 0 .. SlotOf[b]
    BY <1>1 DEF BarrierInv, InBatch
  <2>1. CASE u # t
    BY <1>2, <2>1 DEF GlobalInv, BarrierInv
  <2>2. CASE u = t
    <3>1. /\ b \in Thread /\ InBatch(b) /\ token[b] <= taking[t].ts
          /\ taking[t].at \in 0 .. SlotOf[b]
      BY <2>2 DEF GlobalInv, GlobalType, BarrierInv
    <3>2. taking[t].at # SlotOf[b]
      BY <1>1, <3>1, ClockAssumption
      DEF InBatch, GlobalInv, GlobalType, Ended
    <3> QED
      BY SMT, <1>2, <2>2, <3>1, <3>2, SlotOfAssumption, NumSlotsAssumption
  <2> QED
    BY <2>1, <2>2
<1> QED
  BY <1>3, <1>4 DEF GlobalInv

\* The list of snapshots keeps its type.
LEMMA OldestType ==
  ASSUME NEW list \in Seq(Timestamp)
  PROVE  OldestSnapshotTS(list) \in Timestamp
  BY SMT, ClockAssumption DEF OldestSnapshotTS

LEMMA SnapshotInsertGlobal ==
  ASSUME NEW t \in Thread, GlobalInv, NewSnapshotInsert(t)
  PROVE  GlobalInv'
<1>1. /\ global_snapshots' = Append(global_snapshots, taking[t].ts)
      /\ global_oldest' = OldestSnapshotTS(global_snapshots')
      /\ taking' = [taking EXCEPT ![t] = Idle]
      /\ barrier' = [barrier EXCEPT ![t] = {}]
      /\ crowded' = [crowded EXCEPT ![t] = FALSE]
      /\ apart' = IF crowded[t] THEN apart \ {taking[t].ts} ELSE apart \cup {taking[t].ts}
      /\ UNCHANGED <<clock, batch_write_ts, token>>
  BY DEF NewSnapshotInsert, batchVars
<1>2. global_snapshots' \in Seq(Timestamp)
  BY SMT, <1>1 DEF GlobalInv, GlobalType
<1>3. global_oldest' \in Timestamp
  BY <1>1, <1>2, OldestType
<1>4. Idle \in [at : -1 .. NumSlots, ts : Timestamp]
  BY SMT, NumSlotsAssumption, ClockAssumption DEF Idle
<1>5. GlobalType'
  <2>1. taking[t].ts \in Timestamp
    BY DEF GlobalInv, GlobalType
  <2>2. apart' \subseteq Timestamp /\ crowded' \in [Thread -> BOOLEAN]
    BY <1>1, <2>1 DEF GlobalInv, GlobalType
  <2> QED
    BY <1>1, <1>2, <1>3, <1>4, <2>2 DEF GlobalInv, GlobalType
<1>6. TokenInv' /\ BarrierInv'
  BY <1>1 DEF GlobalInv, GlobalType, TokenInv, BarrierInv, InBatch
<1> QED
  BY <1>5, <1>6 DEF GlobalInv

LEMMA ReleaseSnapshotGlobal ==
  ASSUME NEW i, GlobalInv, ReleaseSnapshot(i)
  PROVE  GlobalInv'
<1>1. /\ i \in 1 .. Len(global_snapshots)
      /\ global_snapshots' = DeleteAt(global_snapshots, i)
      /\ global_oldest' = OldestSnapshotTS(global_snapshots')
      /\ UNCHANGED <<clock, batch_write_ts, token, taking, barrier, crowded, apart>>
  BY DEF ReleaseSnapshot, batchVars
<1>2. global_snapshots' \in Seq(Timestamp)
  <2> DEFINE n == Len(global_snapshots)
  <2>1. n \in Nat /\ global_snapshots \in Seq(Timestamp) /\ i \in 1 .. n
    BY SMT, <1>1 DEF GlobalInv, GlobalType
  <2> HIDE DEF n
  <2>2. \A j \in 1 .. n : global_snapshots[j] \in Timestamp
    BY <2>1, ElementOfSeq DEF n
  <2>3. i - 1 \in Int /\ i + 1 \in Int /\ 1 \in Int /\ n \in Int
    BY SMT, <2>1
  <2>4. /\ \A j \in 1 .. i - 1 : global_snapshots[j] \in Timestamp
        /\ \A j \in i + 1 .. n : global_snapshots[j] \in Timestamp
    BY SMT, <2>1, <2>2
  <2>5. SubSeq(global_snapshots, 1, i - 1) \in Seq(Timestamp)
    BY <2>3, <2>4, SubSeqProperties
  <2>6. SubSeq(global_snapshots, i + 1, n) \in Seq(Timestamp)
    BY <2>3, <2>4, SubSeqProperties
  <2> QED
    BY <1>1, <2>5, <2>6, ConcatProperties DEF DeleteAt, n
<1>3. global_oldest' \in Timestamp
  BY <1>1, <1>2, OldestType
<1>4. GlobalType' /\ TokenInv' /\ BarrierInv'
  BY <1>1, <1>2, <1>3
  DEF GlobalInv, GlobalType, TokenInv, BarrierInv, InBatch
<1> QED
  BY <1>4 DEF GlobalInv

----------------------------------------------------------------------------
VCInv == LocalInv /\ GlobalInv

\* Every step of the controller preserves the invariant.
LEMMA VCInvStep ==
  ASSUME InjectiveSlots, VCInv, [VCNext]_vcVars
  PROVE  VCInv'
<1> USE DEF VCInv
<1>0. /\ clock \in Timestamp /\ clock \in clock .. kMaxTimestamp - 1
      /\ 0 \in Nat
  BY SMT, ClockAssumption DEF LocalInv, LocalType
<1>a. ASSUME NEW t \in Thread PROVE Alone(t)
  BY DEF Alone, InjectiveSlots
<1>1. CASE UNCHANGED vcVars
  <2>1. clock' = clock /\ UNCHANGED <<localVars, scanVars, globalVars, batchVars>>
    BY <1>1 DEF vcVars
  <2> QED
    BY <1>0, <2>1, LocalInvClock, GlobalInvClock
<1>2. ASSUME NEW t \in Thread, StartCall(t) PROVE VCInv'
  <2>1. ASSUME NEW ts \in Timestamp, HoldLocalSnapshot(t, ts, 0) PROVE VCInv'
    <3>1. clock' \in clock .. kMaxTimestamp - 1
      BY <1>0, <2>1, ClockStep DEF HoldLocalSnapshot
    <3>2. UNCHANGED <<globalVars, batchVars>>
      BY <2>1 DEF HoldLocalSnapshot
    <3> QED
      BY <1>0, <2>1, <3>1, <3>2, HoldPreserves, GlobalInvClock
  <2>2. CASE ~InBatch(t) /\ ReleaseLocalSnapshot(t)
    BY <1>a, <2>2, ReleasePreserves, ReleaseGlobal
  <2>3. ASSUME NEW ts \in Timestamp, TokenRead(t, ts) PROVE VCInv'
    <3>1. clock' \in clock .. kMaxTimestamp - 1
      BY <1>0, <2>3, ClockStep DEF TokenRead
    <3>2. UNCHANGED <<localVars, scanVars>>
      BY <2>3 DEF TokenRead
    <3> QED
      BY <1>0, <2>3, <3>1, <3>2, LocalInvClock, TokenReadGlobal
  <2>4. ASSUME NEW ts \in Timestamp, NewSnapshotRead(t, ts) PROVE VCInv'
    <3>1. clock' \in clock .. kMaxTimestamp - 1
      BY <1>0, <2>4, ClockStep DEF NewSnapshotRead, BeginSnapshot
    <3>2. UNCHANGED <<localVars, scanVars>>
      BY <2>4 DEF NewSnapshotRead, BeginSnapshot
    <3> QED
      BY <1>0, <2>4, <3>1, <3>2, LocalInvClock, SnapshotReadGlobal
  <2> QED
    BY <1>2, <2>1, <2>2, <2>3, <2>4 DEF StartCall
<1>3. ASSUME NEW t \in Thread, ContinueCall(t) PROVE VCInv'
  <2>1. CASE StoreLocalSnapshot(t)
    <3>1. clock' = clock /\ UNCHANGED <<globalVars, batchVars>>
      BY <2>1 DEF StoreLocalSnapshot
    <3> QED
      BY <1>0, <1>a, <2>1, <3>1, StorePreserves, GlobalInvClock
  <2>2. CASE TokenStore(t)
    <3>1. clock' = clock /\ UNCHANGED <<localVars, scanVars>>
      BY <2>2 DEF TokenStore
    <3> QED
      BY <1>0, <2>2, <3>1, LocalInvClock, TokenStoreGlobal
  <2>3. CASE NewSnapshotWait(t)
    <3>1. clock' = clock /\ UNCHANGED <<localVars, scanVars>>
      BY <2>3 DEF NewSnapshotWait
    <3> QED
      BY <1>0, <2>3, <3>1, LocalInvClock, SnapshotWaitGlobal
  <2>4. CASE NewSnapshotInsert(t)
    <3>1. clock' = clock /\ UNCHANGED <<localVars, scanVars>>
      BY <2>4 DEF NewSnapshotInsert
    <3> QED
      BY <1>0, <2>4, <3>1, LocalInvClock, SnapshotInsertGlobal
  <2> QED
    BY <1>3, <2>1, <2>2, <2>3, <2>4 DEF ContinueCall
<1>4. ASSUME NEW t \in Thread, EndBatch(t) PROVE VCInv'
  <2>1. TokenRelease(t) /\ clock' = clock /\ UNCHANGED <<localVars, scanVars>>
    BY <1>4 DEF EndBatch, TokenRelease
  <2> QED
    BY <1>0, <2>1, LocalInvClock, TokenReleaseGlobal
<1>5. ASSUME NEW c \in Cleaner, UpdateLocalOldestSnapshot(c) PROVE VCInv'
  <2>0. c \in Proc
    BY DEF Proc
  <2>1. ASSUME NEW ts \in Timestamp, UpdateStart(c, ts) PROVE VCInv'
    <3>1. clock' \in clock .. kMaxTimestamp - 1
      BY <1>0, <2>1, ClockStep DEF UpdateStart
    <3>2. UNCHANGED <<globalVars, batchVars>>
      BY <2>1 DEF UpdateStart
    <3> QED
      BY <1>0, <2>0, <2>1, <3>1, <3>2, UpdateStartPreserves, GlobalInvClock
  <2>2. CASE UpdateScan(c)
    <3>1. clock' = clock /\ UNCHANGED <<globalVars, batchVars>>
      BY <2>2 DEF UpdateScan
    <3> QED
      BY <1>0, <2>0, <2>2, <3>1, UpdateScanPreserves, GlobalInvClock
  <2>3. CASE UpdateStore(c)
    <3>1. clock' = clock /\ UNCHANGED <<globalVars, batchVars>>
      BY <2>3 DEF UpdateStore
    <3> QED
      BY <1>0, <2>0, <2>3, <3>1, UpdateStorePreserves, GlobalInvClock
  <2> QED
    BY <1>5, <2>1, <2>2, <2>3 DEF UpdateLocalOldestSnapshot
<1>6. ASSUME NEW i, ReleaseSnapshot(i) PROVE VCInv'
  <2>1. clock' = clock /\ UNCHANGED <<localVars, scanVars>>
    BY <1>6 DEF ReleaseSnapshot
  <2> QED
    BY <1>0, <1>6, <2>1, LocalInvClock, ReleaseSnapshotGlobal
<1> QED
  BY <1>1, <1>2, <1>3, <1>4, <1>5, <1>6 DEF VCNext

\* A snapshot that has passed every slot waits for no batch any more.
LEMMA BarrierEmpty == VCInv => SnapshotWaitsForBatch
<1> SUFFICES ASSUME VCInv, NEW t \in Thread, taking[t].at = NumSlots,
                    NEW b \in barrier[t]
             PROVE  FALSE
  BY DEF SnapshotWaitsForBatch, VCInv, GlobalInv, GlobalType
<1>1. b \in Thread /\ taking[t].at \in 0 .. SlotOf[b]
  BY DEF VCInv, GlobalInv, GlobalType, BarrierInv
<1> QED
  BY SMT, <1>1, SlotOfAssumption, NumSlotsAssumption

(***************************************************************************)
(* The type invariant of the controller.                                   *)
(***************************************************************************)
THEOREM VCTypeCorrect == ASSUME InjectiveSlots PROVE VCSafety => []VCTypeOK
<1>1. VCInit => VCInv
  BY LocalInvInit, GlobalInvInit DEF VCInv
<1>2. VCInv /\ [VCNext]_vcVars => VCInv'
  BY VCInvStep
<1>3. VCInv => VCTypeOK
  BY TypeFromInv DEF VCInv
<1> QED
  BY <1>1, <1>2, <1>3, PTL DEF VCSafety

(***************************************************************************)
(* UpdateLocalOldestSnapshot never publishes a timestamp that is newer     *)
(* than the moment at which a thread stored the local snapshot it holds,   *)
(* however its scan and the stores interleave.                             *)
(***************************************************************************)
THEOREM LocalOldestTheorem ==
  ASSUME InjectiveSlots PROVE VCSafety => []LocalOldestPromise
<1>1. VCInit => VCInv
  BY LocalInvInit, GlobalInvInit DEF VCInv
<1>2. VCInv /\ [VCNext]_vcVars => VCInv'
  BY VCInvStep
<1>3. VCInv => LocalOldestPromise
  BY DEF VCInv, LocalInv
<1> QED
  BY <1>1, <1>2, <1>3, PTL DEF VCSafety

(***************************************************************************)
(* NewGlobalSnapshot registers a snapshot only after every batch has ended *)
(* whose token was visible when the snapshot took its timestamp.           *)
(***************************************************************************)
THEOREM SnapshotBatchTheorem ==
  ASSUME InjectiveSlots PROVE VCSafety => []SnapshotWaitsForBatch
<1>1. VCInit => VCInv
  BY LocalInvInit, GlobalInvInit DEF VCInv
<1>2. VCInv /\ [VCNext]_vcVars => VCInv'
  BY VCInvStep
<1>3. VCInv => SnapshotWaitsForBatch
  BY BarrierEmpty
<1> QED
  BY <1>1, <1>2, <1>3, PTL DEF VCSafety
----------------------------------------------------------------------------
(***************************************************************************)
(* The list of global snapshots.  NewGlobalSnapshot reads its timestamp    *)
(* before it takes the lock of the list, so that the list need not be in   *)
(* the order of time.  A snapshot that was made apart from all others is   *)
(* not older than what stands before it, and stays so whatever is released *)
(* and however others are made beside each other.  GlobalOldestCovers      *)
(* alone is not inductive: it does not say what is left when the first     *)
(* snapshot is released, nor that a snapshot that is being made apart is   *)
(* not older than those in the list.                                       *)
(***************************************************************************)
ListOrder ==
  /\ global_snapshots \in Seq(Timestamp)
  /\ global_oldest = OldestSnapshotTS(global_snapshots)
  /\ \A i, j \in 1 .. Len(global_snapshots) :
       i <= j /\ global_snapshots[j] \in apart => global_snapshots[i] <= global_snapshots[j]

TakingOrder ==
  /\ clock \in Timestamp
  /\ taking \in [Thread -> [at : -1 .. NumSlots, ts : Timestamp]]
  /\ crowded \in [Thread -> BOOLEAN]
  /\ \A i \in 1 .. Len(global_snapshots) : global_snapshots[i] <= clock
  /\ \A t \in Thread : taking[t] # Idle => taking[t].ts <= clock
  /\ \A t \in Thread : taking[t] # Idle /\ ~crowded[t] =>
       /\ \A u \in Thread : u # t => taking[u] = Idle
       /\ \A i \in 1 .. Len(global_snapshots) : global_snapshots[i] <= taking[t].ts

SnapshotOrder == ListOrder /\ TakingOrder

LEMMA IdleProperties ==
  Idle \in [at : -1 .. NumSlots, ts : Timestamp] /\ Idle.at = -1
  BY SMT, NumSlotsAssumption, ClockAssumption DEF Idle, Timestamp

\* What SnapshotList::Delete leaves.
LEMMA DeleteAtElements ==
  ASSUME NEW S, NEW s \in Seq(S), NEW i \in 1 .. Len(s)
  PROVE  /\ DeleteAt(s, i) \in Seq(S)
         /\ Len(DeleteAt(s, i)) = Len(s) - 1
         /\ \A j \in 1 .. Len(s) - 1 :
              DeleteAt(s, i)[j] = IF j < i THEN s[j] ELSE s[j + 1]
<1>1. PICK n \in Nat : n = Len(s)
  BY LenProperties
<1>2. /\ i - 1 \in Int /\ i + 1 \in Int /\ 1 \in Int /\ n \in Int
      /\ \A j \in 1 .. n : s[j] \in S
  BY SMT, <1>1, ElementOfSeq
<1>3. /\ \A j \in 1 .. i - 1 : s[j] \in S
      /\ \A j \in i + 1 .. n : s[j] \in S
  BY SMT, <1>1, <1>2
<1>4. PICK a : a = SubSeq(s, 1, i - 1)
  OBVIOUS
<1>5. PICK b : b = SubSeq(s, i + 1, n)
  OBVIOUS
<1>6. /\ a \in Seq(S) /\ Len(a) = i - 1
      /\ \A j \in 1 .. i - 1 : a[j] = s[j]
  BY SMT, <1>1, <1>2, <1>3, <1>4, SubSeqProperties
<1>7. /\ b \in Seq(S) /\ Len(b) = n - i
      /\ \A j \in 1 .. n - i : b[j] = s[i + j]
  BY SMT, <1>1, <1>2, <1>3, <1>5, SubSeqProperties
<1>8. DeleteAt(s, i) = a \o b
  BY <1>1, <1>4, <1>5 DEF DeleteAt
<1>9. /\ a \o b \in Seq(S) /\ Len(a \o b) = n - 1
      /\ \A j \in 1 .. n - 1 : (a \o b)[j] = IF j <= i - 1 THEN a[j] ELSE b[j - (i - 1)]
  BY SMT, <1>1, <1>6, <1>7, ConcatProperties
<1>10. ASSUME NEW j \in 1 .. n - 1
       PROVE  (a \o b)[j] = IF j < i THEN s[j] ELSE s[j + 1]
  <2>1. CASE j < i
    BY SMT, <1>1, <1>6, <1>9, <2>1
  <2>2. CASE ~(j < i)
    <3>1. j - (i - 1) \in 1 .. n - i /\ i + (j - (i - 1)) = j + 1
      BY SMT, <1>1, <2>2
    <3> QED
      BY SMT, <1>1, <1>7, <1>9, <2>2, <3>1
  <2> QED
    BY <2>1, <2>2
<1> QED
  BY <1>1, <1>8, <1>9, <1>10

\* A step that does not touch the list, while the clock may advance.
LEMMA OrderClock ==
  ASSUME SnapshotOrder, clock' \in Timestamp, clock <= clock',
         UNCHANGED <<global_snapshots, global_oldest, taking, crowded, apart>>
  PROVE  SnapshotOrder'
<1>1. /\ global_snapshots' = global_snapshots /\ global_oldest' = global_oldest
      /\ taking' = taking /\ crowded' = crowded /\ apart' = apart
  OBVIOUS
<1>2. ListOrder'
  BY <1>1 DEF SnapshotOrder, ListOrder
<1>3. \A i \in 1 .. Len(global_snapshots) : global_snapshots[i] \in Timestamp
  BY ElementOfSeq DEF SnapshotOrder, ListOrder
<1>4. \A i \in 1 .. Len(global_snapshots) : global_snapshots[i] <= clock'
  BY SMT, <1>3 DEF SnapshotOrder, TakingOrder, Timestamp
<1>5. ASSUME NEW t \in Thread, taking[t] # Idle PROVE taking[t].ts <= clock'
  <2>1. taking[t].ts \in Timestamp /\ taking[t].ts <= clock /\ clock \in Timestamp
    BY <1>5 DEF SnapshotOrder, TakingOrder
  <2> QED
    BY SMT, <2>1 DEF Timestamp
<1>6. TakingOrder'
  BY <1>1, <1>4, <1>5 DEF SnapshotOrder, TakingOrder
<1> QED
  BY <1>2, <1>6 DEF SnapshotOrder

\* The steps of NewGlobalSnapshot and ReleaseSnapshot.  Whoever reads the clock
\* while another snapshot is being made makes both of them crowded.
LEMMA OrderRead ==
  ASSUME SnapshotOrder, NEW t \in Thread, NEW ts \in Timestamp, clock <= ts,
         NewSnapshotRead(t, ts), clock' = ts
  PROVE  SnapshotOrder'
<1>1. /\ global_snapshots' = global_snapshots /\ global_oldest' = global_oldest
      /\ apart' = apart
      /\ taking' = [taking EXCEPT ![t] = [at |-> 0, ts |-> ts]]
      /\ crowded' = [u \in Thread |->
           IF u = t THEN OthersTaking(t) # {} ELSE crowded[u] \/ u \in OthersTaking(t)]
  BY DEF NewSnapshotRead, BeginSnapshot
<1>2. ListOrder'
  BY <1>1 DEF SnapshotOrder, ListOrder
<1>3. \A i \in 1 .. Len(global_snapshots) : global_snapshots[i] \in Timestamp
  BY ElementOfSeq DEF SnapshotOrder, ListOrder
<1>4. \A i \in 1 .. Len(global_snapshots) : global_snapshots[i] <= ts
  BY SMT, <1>3 DEF SnapshotOrder, TakingOrder, Timestamp
<1>5. [at |-> 0, ts |-> ts] \in [at : -1 .. NumSlots, ts : Timestamp]
  BY SMT, NumSlotsAssumption
<1>6. /\ taking' \in [Thread -> [at : -1 .. NumSlots, ts : Timestamp]]
      /\ taking'[t].ts = ts
      /\ \A u \in Thread : u # t => taking'[u] = taking[u]
  BY <1>1, <1>5 DEF SnapshotOrder, TakingOrder
<1>7. crowded' \in [Thread -> BOOLEAN]
  BY <1>1 DEF SnapshotOrder, TakingOrder
<1>8. ASSUME NEW u \in Thread, taking'[u] # Idle PROVE taking'[u].ts <= ts
  <2>1. CASE u = t
    BY SMT, <1>6, <2>1 DEF Timestamp
  <2>2. CASE u # t
    <3>1. /\ taking'[u] = taking[u] /\ taking[u].ts \in Timestamp
          /\ taking[u].ts <= clock /\ clock \in Timestamp
      BY <1>6, <1>8, <2>2 DEF SnapshotOrder, TakingOrder
    <3> QED
      BY SMT, <3>1 DEF Timestamp
  <2> QED
    BY <2>1, <2>2
<1>9. ASSUME NEW u \in Thread, taking'[u] # Idle, ~crowded'[u]
      PROVE  /\ \A v \in Thread : v # u => taking'[v] = Idle
             /\ \A i \in 1 .. Len(global_snapshots) : global_snapshots[i] <= taking'[u].ts
  <2>1. u = t
    BY <1>1, <1>6, <1>9 DEF OthersTaking
  <2>2. OthersTaking(t) = {}
    BY <1>1, <1>9, <2>1
  <2>3. \A v \in Thread : v # t => taking'[v] = Idle
    BY <1>6, <2>2 DEF OthersTaking
  <2> QED
    BY <1>4, <1>6, <2>1, <2>3
<1>10. TakingOrder'
  BY <1>1, <1>4, <1>6, <1>7, <1>8, <1>9 DEF TakingOrder
<1> QED
  BY <1>2, <1>10 DEF SnapshotOrder

LEMMA OrderWait ==
  ASSUME SnapshotOrder, NEW t \in Thread, NewSnapshotWait(t)
  PROVE  SnapshotOrder'
<1>1. /\ global_snapshots' = global_snapshots /\ global_oldest' = global_oldest
      /\ crowded' = crowded /\ apart' = apart
      /\ clock' = clock /\ taking' = [taking EXCEPT ![t].at = @ + 1]
      /\ taking[t].at \in Slot
  BY DEF NewSnapshotWait
<1>2. ListOrder'
  BY <1>1 DEF SnapshotOrder, ListOrder
<1>3. /\ taking[t].at # -1
      /\ taking'[t].ts = taking[t].ts
      /\ \A u \in Thread : u # t => taking'[u] = taking[u]
      /\ taking' \in [Thread -> [at : -1 .. NumSlots, ts : Timestamp]]
  BY SMT, <1>1, NumSlotsAssumption DEF SnapshotOrder, TakingOrder, Slot
<1>4. taking[t] # Idle
  BY <1>3, IdleProperties
<1>5. ASSUME NEW u \in Thread, taking'[u] # Idle
      PROVE  taking[u] # Idle /\ taking'[u].ts = taking[u].ts
  BY <1>3, <1>4, <1>5
<1>6. ASSUME NEW u \in Thread, taking'[u] # Idle, ~crowded[u]
      PROVE  \A v \in Thread : v # u => taking'[v] = Idle
  <2>1. \A v \in Thread : v # u => taking[v] = Idle
    BY <1>5, <1>6 DEF SnapshotOrder, TakingOrder
  <2>2. u = t
    BY <1>4, <2>1
  <2> QED
    BY <1>3, <2>1, <2>2
<1>7. TakingOrder'
  BY <1>1, <1>3, <1>5, <1>6 DEF SnapshotOrder, TakingOrder
<1> QED
  BY <1>2, <1>7 DEF SnapshotOrder

LEMMA OrderInsert ==
  ASSUME SnapshotOrder, NEW t \in Thread, NewSnapshotInsert(t)
  PROVE  SnapshotOrder'
<1>1. /\ global_snapshots' = Append(global_snapshots, taking[t].ts)
      /\ global_oldest' = OldestSnapshotTS(global_snapshots')
      /\ taking' = [taking EXCEPT ![t] = Idle]
      /\ crowded' = [crowded EXCEPT ![t] = FALSE]
      /\ apart' = IF crowded[t] THEN apart \ {taking[t].ts} ELSE apart \cup {taking[t].ts}
      /\ clock' = clock /\ taking[t].at = NumSlots
  BY DEF NewSnapshotInsert
<1>2. PICK n \in Nat : n = Len(global_snapshots)
  BY LenProperties DEF SnapshotOrder, ListOrder
<1>3. PICK ts \in Timestamp : ts = taking[t].ts
  BY DEF SnapshotOrder, TakingOrder
<1>4. taking[t] # Idle
  BY SMT, <1>1, IdleProperties, NumSlotsAssumption
<1>5. ts <= clock
  BY <1>3, <1>4 DEF SnapshotOrder, TakingOrder
<1>6. /\ global_snapshots' \in Seq(Timestamp) /\ Len(global_snapshots') = n + 1
      /\ \A i \in 1 .. n : global_snapshots'[i] = global_snapshots[i]
      /\ global_snapshots'[n + 1] = ts
  BY SMT, <1>1, <1>2, <1>3, AppendProperties DEF SnapshotOrder, ListOrder
<1>7. ASSUME NEW i \in 1 .. n + 1, NEW j \in 1 .. n + 1, i <= j,
             global_snapshots'[j] \in apart'
      PROVE  global_snapshots'[i] <= global_snapshots'[j]
  <2>1. CASE j \in 1 .. n /\ global_snapshots[j] \in apart
    <3>1. i \in 1 .. n
      BY SMT, <1>2, <1>7, <2>1
    <3> QED
      BY <1>2, <1>6, <1>7, <2>1, <3>1 DEF SnapshotOrder, ListOrder
  <2>2. CASE ~(j \in 1 .. n /\ global_snapshots[j] \in apart)
    <3>1. global_snapshots'[j] = ts /\ ~crowded[t]
      <4>1. CASE j \in 1 .. n
        BY <1>1, <1>3, <1>6, <1>7, <2>2, <4>1
      <4>2. CASE j = n + 1
        BY <1>1, <1>3, <1>6, <1>7, <4>2
      <4> QED
        BY SMT, <1>2, <4>1, <4>2
    <3>2. \A k \in 1 .. n : global_snapshots[k] <= ts
      BY <1>2, <1>3, <1>4, <3>1 DEF SnapshotOrder, TakingOrder
    <3>3. ts <= ts
      BY SMT DEF Timestamp
    <3>4. i \in 1 .. n \/ i = n + 1
      BY SMT, <1>2
    <3> QED
      BY <1>6, <3>1, <3>2, <3>3, <3>4
  <2> QED
    BY <2>1, <2>2
<1>8. ListOrder'
  BY <1>1, <1>6, <1>7 DEF ListOrder
<1>9. /\ taking' \in [Thread -> [at : -1 .. NumSlots, ts : Timestamp]]
      /\ crowded' \in [Thread -> BOOLEAN]
      /\ taking'[t] = Idle
      /\ \A u \in Thread : u # t => taking'[u] = taking[u] /\ crowded'[u] = crowded[u]
  BY <1>1, IdleProperties DEF SnapshotOrder, TakingOrder
<1>10. ASSUME NEW i \in 1 .. n + 1 PROVE global_snapshots'[i] <= clock
  <2>1. CASE i \in 1 .. n
    BY <1>2, <1>6, <2>1 DEF SnapshotOrder, TakingOrder
  <2>2. CASE i = n + 1
    BY <1>5, <1>6, <2>2
  <2> QED
    BY SMT, <1>2, <2>1, <2>2
<1>11. \A u \in Thread : taking'[u] # Idle => taking'[u].ts <= clock
  BY <1>9 DEF SnapshotOrder, TakingOrder
<1>12. \A u \in Thread : ~(taking'[u] # Idle /\ ~crowded'[u])
  BY <1>4, <1>9 DEF SnapshotOrder, TakingOrder
<1>13. clock' = clock /\ clock \in Timestamp
  BY <1>1 DEF SnapshotOrder, TakingOrder
<1>14. TakingOrder'
  BY <1>6, <1>9, <1>10, <1>11, <1>12, <1>13 DEF TakingOrder
<1> QED
  BY <1>8, <1>14 DEF SnapshotOrder

LEMMA OrderRelease ==
  ASSUME SnapshotOrder, NEW i, ReleaseSnapshot(i)
  PROVE  SnapshotOrder'
<1>1. /\ i \in 1 .. Len(global_snapshots)
      /\ global_snapshots' = DeleteAt(global_snapshots, i)
      /\ global_oldest' = OldestSnapshotTS(global_snapshots')
      /\ clock' = clock /\ taking' = taking /\ crowded' = crowded /\ apart' = apart
  BY DEF ReleaseSnapshot
<1>2. PICK n \in Nat : n = Len(global_snapshots)
  BY LenProperties DEF SnapshotOrder, ListOrder
<1>3. /\ global_snapshots' \in Seq(Timestamp) /\ Len(global_snapshots') = n - 1
      /\ \A j \in 1 .. n - 1 : global_snapshots'[j] =
           IF j < i THEN global_snapshots[j] ELSE global_snapshots[j + 1]
  BY <1>1, <1>2, DeleteAtElements DEF SnapshotOrder, ListOrder
<1>4. i \in 1 .. n
  BY <1>1, <1>2
<1>5. ASSUME NEW j \in 1 .. n - 1
      PROVE  \E k \in 1 .. n : /\ global_snapshots'[j] = global_snapshots[k]
                               /\ k = IF j < i THEN j ELSE j + 1
  BY SMT, <1>2, <1>3, <1>4
<1>6. ListOrder'
  <2>1. ASSUME NEW j \in 1 .. n - 1, NEW l \in 1 .. n - 1, j <= l,
               global_snapshots'[l] \in apart
        PROVE  global_snapshots'[j] <= global_snapshots'[l]
    <3>1. PICK k \in 1 .. n : /\ global_snapshots'[j] = global_snapshots[k]
                              /\ k = IF j < i THEN j ELSE j + 1
      BY <1>5
    <3>2. PICK m \in 1 .. n : /\ global_snapshots'[l] = global_snapshots[m]
                              /\ m = IF l < i THEN l ELSE l + 1
      BY <1>5
    <3>3. k <= m
      BY SMT, <1>4, <2>1, <3>1, <3>2
    <3> QED
      BY <1>2, <2>1, <3>1, <3>2, <3>3 DEF SnapshotOrder, ListOrder
  <2> QED
    BY <1>1, <1>3, <2>1 DEF ListOrder
<1>7. TakingOrder'
  <2>1. ASSUME NEW j \in 1 .. n - 1
        PROVE  /\ global_snapshots'[j] <= clock
               /\ \A t \in Thread : taking[t] # Idle /\ ~crowded[t] =>
                    global_snapshots'[j] <= taking[t].ts
    <3>1. PICK k \in 1 .. n : global_snapshots'[j] = global_snapshots[k]
      BY <1>5
    <3> QED
      BY <1>2, <3>1 DEF SnapshotOrder, TakingOrder
  <2> QED
    BY <1>1, <1>3, <2>1 DEF SnapshotOrder, TakingOrder
<1> QED
  BY <1>6, <1>7 DEF SnapshotOrder

\* Every step keeps the order of the list.
LEMMA OrderStep ==
  ASSUME SnapshotOrder, [VCNext]_vcVars
  PROVE  SnapshotOrder'
<1>0. clock \in Timestamp /\ clock \in Nat
  BY SMT DEF SnapshotOrder, TakingOrder, Timestamp
<1>a. ASSUME NEW ts \in Timestamp, GetCurrentTimestamp(ts, 0)
      PROVE  clock' = ts /\ clock' \in Timestamp /\ clock <= clock' /\ clock <= ts
  BY SMT, <1>0, <1>a, ClockAssumption DEF GetCurrentTimestamp, Timestamp
<1>b. ASSUME clock' \in Timestamp, clock <= clock', UNCHANGED globalVars
      PROVE  SnapshotOrder'
  BY <1>b, OrderClock DEF globalVars
<1>c. ASSUME clock' = clock, UNCHANGED globalVars PROVE SnapshotOrder'
  BY SMT, <1>0, <1>c, <1>b
<1>1. CASE UNCHANGED vcVars
  BY <1>1, <1>c DEF vcVars
<1>2. ASSUME NEW t \in Thread, StartCall(t) PROVE SnapshotOrder'
  <2>1. ASSUME NEW ts \in Timestamp, HoldLocalSnapshot(t, ts, 0) PROVE SnapshotOrder'
    <3>1. GetCurrentTimestamp(ts, 0) /\ UNCHANGED globalVars
      BY <2>1 DEF HoldLocalSnapshot
    <3> QED
      BY <1>a, <1>b, <3>1
  <2>2. CASE ReleaseLocalSnapshot(t)
    BY <2>2, <1>c DEF ReleaseLocalSnapshot
  <2>3. ASSUME NEW ts \in Timestamp, TokenRead(t, ts) PROVE SnapshotOrder'
    <3>1. GetCurrentTimestamp(ts, 0) /\ UNCHANGED globalVars
      BY <2>3 DEF TokenRead
    <3> QED
      BY <1>a, <1>b, <3>1
  <2>4. ASSUME NEW ts \in Timestamp, NewSnapshotRead(t, ts)
        PROVE  SnapshotOrder'
    <3>1. GetCurrentTimestamp(ts, 0)
      BY <2>4 DEF NewSnapshotRead, BeginSnapshot
    <3> QED
      BY <1>a, <2>4, <3>1, OrderRead
  <2> QED
    BY <1>2, <2>1, <2>2, <2>3, <2>4 DEF StartCall
<1>3. ASSUME NEW t \in Thread, ContinueCall(t) PROVE SnapshotOrder'
  <2>1. CASE StoreLocalSnapshot(t)
    BY <2>1, <1>c DEF StoreLocalSnapshot
  <2>2. CASE TokenStore(t)
    BY <2>2, <1>c DEF TokenStore
  <2> QED
    BY <1>3, <2>1, <2>2, OrderWait, OrderInsert DEF ContinueCall
<1>4. ASSUME NEW t \in Thread, EndBatch(t) PROVE SnapshotOrder'
  <2>1. /\ clock' = clock
        /\ UNCHANGED <<global_snapshots, global_oldest, taking, crowded, apart>>
    BY <1>4 DEF EndBatch, TokenRelease
  <2>2. clock <= clock' /\ clock' \in Timestamp
    BY SMT, <1>0, <2>1
  <2> QED
    BY <2>1, <2>2, OrderClock
<1>5. ASSUME NEW c \in Cleaner, UpdateLocalOldestSnapshot(c) PROVE SnapshotOrder'
  <2>1. ASSUME NEW ts \in Timestamp, UpdateStart(c, ts) PROVE SnapshotOrder'
    <3>1. GetCurrentTimestamp(ts, 0) /\ UNCHANGED globalVars
      BY <2>1 DEF UpdateStart
    <3> QED
      BY <1>a, <1>b, <3>1
  <2>2. CASE UpdateScan(c) \/ UpdateStore(c)
    BY <2>2, <1>c DEF UpdateScan, UpdateStore
  <2> QED
    BY <1>5, <2>1, <2>2 DEF UpdateLocalOldestSnapshot
<1> QED
  BY <1>1, <1>2, <1>3, <1>4, <1>5, OrderRelease DEF VCNext

(***************************************************************************)
(* GlobalOldestSnapshotTs, behind which the cleaner cuts version chains,   *)
(* is not newer than any registered snapshot that was made while no other  *)
(* one was being made, for any number of threads that create snapshots,    *)
(* also beside each other, and release them in any order; slots may be     *)
(* shared.                                                                 *)
(***************************************************************************)
THEOREM GlobalOldestTheorem == VCSafety => []GlobalOldestCovers
<1>1. VCInit => SnapshotOrder
  <2> SUFFICES ASSUME VCInit PROVE SnapshotOrder
    OBVIOUS
  <2>1. global_snapshots = <<>> /\ Len(global_snapshots) = 0
    BY EmptySeq DEF VCInit
  <2>2. ListOrder
    BY SMT, <2>1, EmptySeq DEF VCInit, ListOrder, OldestSnapshotTS
  <2>3. /\ taking \in [Thread -> [at : -1 .. NumSlots, ts : Timestamp]]
        /\ crowded \in [Thread -> BOOLEAN]
        /\ \A t \in Thread : taking[t] = Idle
    BY IdleProperties DEF VCInit
  <2>4. clock \in Timestamp /\ \A i \in 1 .. Len(global_snapshots) : FALSE
    BY SMT, <2>1, ClockAssumption DEF VCInit, Timestamp
  <2>5. TakingOrder
    BY <2>3, <2>4 DEF TakingOrder
  <2> QED
    BY <2>2, <2>5 DEF SnapshotOrder
<1>2. SnapshotOrder /\ [VCNext]_vcVars => SnapshotOrder'
  BY OrderStep
<1>3. SnapshotOrder => GlobalOldestCovers
  <2> SUFFICES ASSUME SnapshotOrder, NEW i \in 1 .. Len(global_snapshots),
                      global_snapshots[i] \in apart
               PROVE  global_oldest <= global_snapshots[i]
    BY DEF GlobalOldestCovers, Snapshots
  <2>1. 1 \in 1 .. Len(global_snapshots) /\ global_snapshots # <<>>
    BY SMT, LenProperties, EmptySeq DEF SnapshotOrder, ListOrder
  <2>2. 1 <= i
    BY SMT, LenProperties DEF SnapshotOrder, ListOrder
  <2> QED
    BY <2>1, <2>2 DEF SnapshotOrder, ListOrder, OldestSnapshotTS
<1> QED
  BY <1>1, <1>2, <1>3, PTL DEF VCSafety
=============================================================================
