---------------------------- MODULE Transaction ----------------------------
(***************************************************************************)
(* Transactions of a KVDK instance: engine/transaction_impl.cpp, the       *)
(* condition variable between transactions and the creation or destruction *)
(* of collections (engine/transaction_impl.hpp), the access slots          *)
(* (AccessThreadCV of engine/kv_engine.hpp), HashCreate and HashDestroy,   *)
(* and the locks of batchWriteImpl, which single writes take in the same   *)
(* order.                                                                  *)
(*                                                                         *)
(* There is one collection name.  The key of an element is locked together *)
(* with the id of its collection, and a collection that is created again   *)
(* has a new id.  Sorted and hash collections go through the same code     *)
(* here.  A thread that sleeps on a condition variable goes on only when   *)
(* it is notified.                                                         *)
(***************************************************************************)
EXTENDS Integers, FiniteSets

CONSTANTS
  Thread,
  NumSlots,    \* max_access_threads
  SlotOf,      \* ThreadID() % max_access_threads
  StringKey, ElemKey,
  MaxId,       \* bound: collections created under the name
  LockOf,      \* the lock of the hash slot of a string, an element, the name
  Workloads,   \* what the threads call; a behaviour has one of them
  None         \* nobody holds a lock

UserKey == StringKey \union ElemKey
Id == 1 .. MaxId
Place == ({0} \X StringKey) \union (Id \X ElemKey)
Name == <<0, None>>              \* the name of the collection
Slot == 1 .. NumSlots
Lock == {LockOf[p] : p \in Place \union {Name}}

(***************************************************************************)
(* A workload: calls[t] are the calls of t, kinds and keys the operations  *)
(* of transactions, batches the keys a BatchWrite or a single write is     *)
(* for; maxCalls and maxSteps bound the calls of a behaviour and the       *)
(* operations of a transaction.  The collection may expire or not, and the *)
(* PMem may be full or not.                                                *)
(***************************************************************************)
Workload ==
  [calls : [Thread -> SUBSET {"Transaction", "Batch", "Create", "Destroy"}],
   kinds : SUBSET {"Put", "Delete", "Get"}, keys : SUBSET UserKey,
   batches : SUBSET (SUBSET UserKey), maxCalls : Nat, maxSteps : Nat,
   expires : BOOLEAN, full : BOOLEAN]

ASSUME TransactionAssumption ==
  /\ IsFiniteSet(Thread) /\ NumSlots \in Nat /\ MaxId \in Nat \ {0}
  /\ SlotOf \in [Thread -> Slot]
  /\ StringKey \cap ElemKey = {} /\ None \notin Thread \union UserKey
  /\ LockOf \in [Place \union {Name} -> Nat]
  /\ Workloads \subseteq Workload

VARIABLES
  lock,       \* the holder of each spin lock of the hash table
  access,     \* access_thread_cv_[i].holder_id_
  processing_transaction, processing_collection,
  asleep,     \* the threads that wait on the cv_ of CollectionTransactionCV
  dozing,     \* the threads that wait on the cv_ of their access slot
  coll,       \* the hash entry of the name: the id, and the status or "None"
  collection_id,  \* the id the next collection gets
  store,      \* the value readers see at each place; 0: none
  pc, call, op, key,   \* the call of each thread, the operation and its key
  num,        \* the number of the call, and the value it writes
  batch,      \* batch_ of a transaction, or the batch
  locked,     \* locked_ of a transaction, or the guard of the batch
  token,      \* is ct_token_ set?
  cid,        \* the collection the thread looked up
  todo,       \* the keys that batchWriteImpl has not published
  result,     \* what became of the batch of the call
  reads,      \* history: what the transaction read from the store
  workload, calls, steps

cvVars    == <<processing_transaction, processing_collection, asleep, token>>
accVars   == <<access, dozing>>
collVars  == <<coll, collection_id>>
lockVars  == <<lock, locked>>
dataVars  == <<store, batch, todo, result, reads>>
callVars  == <<call, op, key, num, cid>>
loadVars  == <<workload, calls, steps>>
vars == <<cvVars, accVars, collVars, lockVars, dataVars, pc, callVars, loadVars>>

NoBatch == [k \in {} |-> 0]
PlaceOf(t, k) == IF k \in StringKey THEN <<0, k>> ELSE <<cid[t], k>>
At(t, label) == pc[t] = label
GoTo(t, label) == pc' = [pc EXCEPT ![t] = label]

Init ==
  /\ workload \in Workloads
  /\ lock = [l \in Lock |-> None]
  /\ access = [s \in Slot |-> None]
  /\ processing_transaction = 0 /\ processing_collection = 0
  /\ asleep = {} /\ dozing = {}
  /\ coll = [id |-> 1, status |-> "Normal"] /\ collection_id = 2
  /\ store = [p \in Place |-> 0]
  /\ pc = [t \in Thread |-> "idle"]
  /\ call = [t \in Thread |-> "Transaction"]
  /\ op = [t \in Thread |-> "Get"]
  /\ key = [t \in Thread |-> None]
  /\ num = [t \in Thread |-> 0]
  /\ batch = [t \in Thread |-> NoBatch]
  /\ locked = [t \in Thread |-> {}]
  /\ token = [t \in Thread |-> FALSE]
  /\ cid = [t \in Thread |-> 1]
  /\ todo = [t \in Thread |-> {}]
  /\ result = [t \in Thread |-> "open"]
  /\ reads = [t \in Thread |-> {}]
  /\ calls = 0 /\ steps = [t \in Thread |-> 0]

----------------------------------------------------------------------------
(***************************************************************************)
(* The access slots.  A thread that finds its slot taken sleeps; Release   *)
(* wakes one of the sleepers of the slot.                                  *)
(***************************************************************************)
Doze(t) ==
  /\ t \notin dozing
  /\ access[SlotOf[t]] \notin {t, None}
  /\ dozing' = dozing \union {t}
  /\ UNCHANGED <<access, pc>>

TakeAccess(t) ==
  /\ t \notin dozing
  /\ access[SlotOf[t]] \in {t, None}
  /\ access' = [access EXCEPT ![SlotOf[t]] = t]
  /\ UNCHANGED dozing

ReleaseAccess(t) ==
  /\ access' = [access EXCEPT ![SlotOf[t]] = None]
  /\ LET waiting == {u \in dozing : SlotOf[u] = SlotOf[t]} IN
     IF waiting = {} THEN UNCHANGED dozing
     ELSE \E u \in waiting : dozing' = dozing \ {u}

(***************************************************************************)
(* CollectionTransactionCV.                                                *)
(***************************************************************************)
AcquireTransactionAtOnce(t) ==
  /\ At(t, "acquire")
  /\ processing_transaction' = processing_transaction + 1
  /\ token' = [token EXCEPT ![t] = TRUE]
  /\ GoTo(t, "lookup")
  /\ UNCHANGED <<asleep, processing_collection, accVars, collVars, lockVars,
                 dataVars, callVars, loadVars>>

AcquireTransaction(t) ==
  /\ At(t, "acquire") /\ t \notin asleep
  /\ IF processing_collection > 0
     THEN /\ asleep' = asleep \union {t}
          /\ UNCHANGED <<processing_transaction, token, pc>>
     ELSE /\ processing_transaction' = processing_transaction + 1
          /\ token' = [token EXCEPT ![t] = TRUE]
          /\ GoTo(t, "lookup")
          /\ UNCHANGED asleep
  /\ UNCHANGED <<processing_collection, accVars, collVars, lockVars, dataVars,
                 callVars, loadVars>>

\* The count goes up once, before the wait.
AcquireCollection(t) ==
  /\ pc[t] \in {"enter", "wait"} /\ t \notin asleep
  /\ processing_collection' =
       IF At(t, "enter") THEN processing_collection + 1 ELSE processing_collection
  /\ IF processing_transaction > 0
     THEN asleep' = asleep \union {t} /\ GoTo(t, "wait")
     ELSE UNCHANGED asleep /\ GoTo(t, "change")
  /\ UNCHANGED <<processing_transaction, token, accVars, collVars, lockVars,
                 dataVars, callVars, loadVars>>

FinishTransactionSilently(t) ==
  /\ processing_transaction' =
       IF token[t] THEN processing_transaction - 1 ELSE processing_transaction
  /\ token' = [token EXCEPT ![t] = FALSE]
  /\ UNCHANGED <<processing_collection, asleep>>

\* The last step of Rollback, if the transaction has a token.
FinishTransaction(t) ==
  /\ IF token[t]
     THEN /\ processing_transaction' = processing_transaction - 1
          /\ asleep' = IF processing_transaction = 1 THEN {} ELSE asleep
     ELSE UNCHANGED <<processing_transaction, asleep>>
  /\ token' = [token EXCEPT ![t] = FALSE]
  /\ UNCHANGED processing_collection

FinishCollection(t) ==
  /\ At(t, "exit")
  /\ processing_collection' = processing_collection - 1
  /\ asleep' = IF processing_collection = 1 THEN {} ELSE asleep
  /\ GoTo(t, "unlock")
  /\ UNCHANGED <<processing_transaction, token, accVars, collVars, lockVars,
                 dataVars, callVars, loadVars>>

----------------------------------------------------------------------------
(***************************************************************************)
(* A call begins: TransactionCreate; BatchWrite or a single write, with    *)
(* all its operations; HashCreate or HashDestroy.                          *)
(***************************************************************************)
Start(t) ==
  /\ At(t, "idle") /\ calls < workload.maxCalls
  /\ calls' = calls + 1
  /\ num' = [num EXCEPT ![t] = calls + 1]
  /\ \E c \in workload.calls[t] :
       /\ call' = [call EXCEPT ![t] = c]
       /\ GoTo(t, IF c = "Transaction" THEN "open" ELSE "access")
       /\ IF c # "Batch" THEN UNCHANGED batch
          ELSE \E K \in workload.batches : \E w \in [K -> {0, calls + 1}] :
                 batch' = [batch EXCEPT ![t] = w]
  /\ UNCHANGED <<cvVars, accVars, collVars, lockVars, store, todo, result, reads,
                 op, key, cid, workload, steps>>

(***************************************************************************)
(* An operation of a transaction.  Get of a key that the transaction has   *)
(* written returns that value; else the key is locked, for an element      *)
(* after acquireCollectionTransaction.                                     *)
(***************************************************************************)
TransactionOp(t) ==
  /\ At(t, "open") /\ call[t] = "Transaction"
  /\ steps[t] < workload.maxSteps
  /\ steps' = [steps EXCEPT ![t] = @ + 1]
  /\ \E o \in workload.kinds, k \in workload.keys :
       /\ ~(o = "Get" /\ k \in DOMAIN batch[t])
       /\ op' = [op EXCEPT ![t] = o]
       /\ key' = [key EXCEPT ![t] = k]
       /\ GoTo(t, IF k \in StringKey THEN "lock"
                  ELSE IF token[t] THEN "lookup" ELSE "acquire")
  /\ UNCHANGED <<cvVars, accVars, collVars, lockVars, dataVars, call, num, cid,
                 workload, calls>>

\* Lookup<false> of the collection; an entry that is outdated is found as well.
LookupCollection(t) ==
  /\ At(t, "lookup")
  /\ IF coll.status = "None" THEN GoTo(t, "open") /\ UNCHANGED cid
     ELSE GoTo(t, "lock") /\ cid' = [cid EXCEPT ![t] = coll.id]
  /\ UNCHANGED <<cvVars, accVars, collVars, lockVars, dataVars, call, op, key, num,
                 loadVars>>

TheLock(t) == LockOf[PlaceOf(t, key[t])]

TryLock(t) ==
  /\ At(t, "lock")
  /\ TheLock(t) \in locked[t] \/ lock[TheLock(t)] = None
  /\ lock' = [lock EXCEPT ![TheLock(t)] = t]
  /\ locked' = [locked EXCEPT ![t] = @ \union {TheLock(t)}]
  /\ IF op[t] = "Get" THEN GoTo(t, "get") /\ UNCHANGED batch
     ELSE /\ GoTo(t, "open")
          /\ batch' = [batch EXCEPT ![t] =
               [k \in DOMAIN @ \union {key[t]} |->
                  IF k # key[t] THEN @[k] ELSE IF op[t] = "Put" THEN num[t] ELSE 0]]
  /\ UNCHANGED <<cvVars, accVars, collVars, store, todo, result, reads, callVars,
                 loadVars>>

\* The operation returns Timeout; the transaction keeps what it has.
LockTimeout(t) ==
  /\ At(t, "lock")
  /\ TheLock(t) \notin locked[t] /\ lock[TheLock(t)] # None
  /\ GoTo(t, "open")
  /\ UNCHANGED <<cvVars, accVars, collVars, lockVars, dataVars, callVars, loadVars>>

\* Get of a string goes through an access slot, Get of an element does not.
GetAccess(t) ==
  /\ At(t, "get") /\ key[t] \in StringKey
  /\ access[SlotOf[t]] # t
  /\ Doze(t) \/ (TakeAccess(t) /\ UNCHANGED pc)
  /\ UNCHANGED <<cvVars, collVars, lockVars, dataVars, callVars, loadVars>>

GetValueAndUnlock(t) ==
  /\ At(t, "get")
  /\ IF key[t] \in StringKey THEN access[SlotOf[t]] = t /\ ReleaseAccess(t)
     ELSE UNCHANGED accVars
  /\ reads' = [reads EXCEPT ![t] = @ \union
                 {<<PlaceOf(t, key[t]), store[PlaceOf(t, key[t])]>>}]
  /\ lock' = [lock EXCEPT ![TheLock(t)] = None]
  /\ locked' = [locked EXCEPT ![t] = @ \ {TheLock(t)}]
  /\ GoTo(t, "open")
  /\ UNCHANGED <<cvVars, collVars, store, batch, todo, result, callVars, loadVars>>

GetValue(t) ==
  /\ At(t, "get")
  /\ IF key[t] \in StringKey THEN access[SlotOf[t]] = t /\ ReleaseAccess(t)
     ELSE UNCHANGED accVars
  /\ reads' = [reads EXCEPT ![t] = @ \union
                 {<<PlaceOf(t, key[t]), store[PlaceOf(t, key[t])]>>}]
  /\ GoTo(t, "open")
  /\ UNCHANGED <<cvVars, collVars, lockVars, store, batch, todo, result, callVars,
                 loadVars>>

\* Commit calls batchWriteImpl, then Rollback; the destructor calls Rollback.
Commit(t) ==
  /\ At(t, "open") /\ call[t] = "Transaction"
  /\ GoTo(t, "access")
  /\ UNCHANGED <<cvVars, accVars, collVars, lockVars, dataVars, callVars, loadVars>>

Rollback(t) ==
  /\ At(t, "open") /\ call[t] = "Transaction"
  /\ GoTo(t, "unlock")
  /\ UNCHANGED <<cvVars, accVars, collVars, lockVars, dataVars, callVars, loadVars>>

----------------------------------------------------------------------------
(***************************************************************************)
(* batchWriteImpl; how it writes, and crashes, is in BatchWrite.           *)
(***************************************************************************)
IsManager(t) == call[t] \in {"Create", "Destroy"}

AcquireAccessThread(t) ==
  /\ At(t, "access")
  /\ \/ Doze(t)
     \/ TakeAccess(t) /\ GoTo(t, IF IsManager(t) THEN "name" ELSE "find")
  /\ UNCHANGED <<cvVars, collVars, lockVars, dataVars, callVars, loadVars>>

\* Every collection of the batch is looked up; outdated ones are not found.
FindCollections(t) ==
  /\ At(t, "find")
  /\ todo' = [todo EXCEPT ![t] = DOMAIN batch[t]]
  /\ IF DOMAIN batch[t] \cap ElemKey = {}
     THEN GoTo(t, "range") /\ UNCHANGED <<cid, result>>
     ELSE IF coll.status = "Normal"
     THEN GoTo(t, "range") /\ cid' = [cid EXCEPT ![t] = coll.id] /\ UNCHANGED result
     ELSE GoTo(t, "release") /\ result' = [result EXCEPT ![t] = "failed"]
          /\ UNCHANGED cid
  /\ UNCHANGED <<cvVars, accVars, collVars, lockVars, store, batch, reads, call, op,
                 key, num, loadVars>>

NeededOfStrings(t) ==
  IF call[t] = "Transaction" THEN {}
  ELSE {LockOf[PlaceOf(t, k)] : k \in DOMAIN batch[t] \cap StringKey} \ locked[t]

\* The locks are taken in their order; a transaction has them already.
Needed(t) ==
  IF call[t] = "Transaction" THEN {}
  ELSE {LockOf[PlaceOf(t, k)] : k \in DOMAIN batch[t]} \ locked[t]

RangeLock(t) ==
  /\ At(t, "range")
  /\ \E l \in Needed(t) :
       /\ \A m \in Needed(t) : l <= m
       /\ lock[l] = None
       /\ lock' = [lock EXCEPT ![l] = t]
       /\ locked' = [locked EXCEPT ![t] = @ \union {l}]
  /\ UNCHANGED <<cvVars, accVars, collVars, dataVars, pc, callVars, loadVars>>

\* From the preparation to the mark in the log.  There may be no space.
WriteBatch(t) ==
  /\ At(t, "range") /\ Needed(t) = {}
  /\ \/ GoTo(t, "publish") /\ result' = [result EXCEPT ![t] = "done"]
     \/ /\ workload.full
        /\ GoTo(t, "release") /\ result' = [result EXCEPT ![t] = "failed"]
  /\ UNCHANGED <<cvVars, accVars, collVars, lockVars, store, batch, todo, reads,
                 callVars, loadVars>>

Publish(t) ==
  /\ At(t, "publish")
  /\ IF todo[t] = {} THEN GoTo(t, "release") /\ UNCHANGED <<store, todo>>
     ELSE \E k \in todo[t] :
            /\ store' = [store EXCEPT ![PlaceOf(t, k)] = batch[t][k]]
            /\ todo' = [todo EXCEPT ![t] = @ \ {k}]
            /\ UNCHANGED pc
  /\ UNCHANGED <<cvVars, accVars, collVars, lockVars, batch, result, reads, callVars,
                 loadVars>>

\* batchWriteImpl returns: for a transaction to Commit, which rolls back.
BatchReturn(t) ==
  /\ At(t, "release")
  /\ GoTo(t, "unlock")
  /\ IF call[t] = "Transaction" THEN ReleaseAccess(t) ELSE UNCHANGED accVars
  /\ UNCHANGED <<cvVars, collVars, lockVars, dataVars, callVars, loadVars>>

----------------------------------------------------------------------------
(***************************************************************************)
(* buildHashlist and HashDestroy hold the slot lock of the name while they *)
(* wait for transactions.                                                  *)
(***************************************************************************)
LockName(t) ==
  /\ At(t, "name")
  /\ lock[LockOf[Name]] = None
  /\ lock' = [lock EXCEPT ![LockOf[Name]] = t]
  /\ locked' = [locked EXCEPT ![t] = @ \union {LockOf[Name]}]
  /\ GoTo(t, IF (coll.status = "Normal") = (call[t] = "Destroy")
             THEN "enter" ELSE "unlock")
  /\ UNCHANGED <<cvVars, accVars, collVars, dataVars, callVars, loadVars>>

CreateOrDestroy(t) ==
  /\ At(t, "change")
  /\ GoTo(t, "exit")
  /\ \/ workload.full /\ UNCHANGED collVars
     \/ /\ call[t] = "Create" /\ collection_id \in Id
        /\ coll' = [id |-> collection_id, status |-> "Normal"]
        /\ collection_id' = collection_id + 1
     \/ /\ call[t] = "Destroy"
        /\ coll' = [coll EXCEPT !.status = "Outdated"]
        /\ UNCHANGED collection_id
  /\ UNCHANGED <<cvVars, accVars, lockVars, dataVars, callVars, loadVars>>

\* The collection expires, or a cleaner erases the entry of an outdated one.
ExpireCollection ==
  /\ workload.expires /\ coll.status = "Normal"
  /\ coll' = [coll EXCEPT !.status = "Outdated"]
  /\ UNCHANGED <<cvVars, accVars, collection_id, lockVars, dataVars, pc, callVars,
                 loadVars>>

CleanCollection ==
  /\ coll.status = "Outdated" /\ lock[LockOf[Name]] = None
  /\ coll' = [coll EXCEPT !.status = "None"]
  /\ UNCHANGED <<cvVars, accVars, collection_id, lockVars, dataVars, pc, callVars,
                 loadVars>>

----------------------------------------------------------------------------
(***************************************************************************)
(* Rollback, or the end of a call that has an access slot: the locks are   *)
(* released, and then the token or the slot.  Others can only do less      *)
(* between these releases, so they are one step.                           *)
(***************************************************************************)
Finish(t) ==
  /\ At(t, "unlock")
  /\ lock' = [l \in Lock |-> IF l \in locked[t] THEN None ELSE lock[l]]
  /\ locked' = [locked EXCEPT ![t] = {}]
  /\ IF call[t] = "Transaction" THEN FinishTransaction(t) /\ UNCHANGED accVars
     ELSE ReleaseAccess(t) /\ UNCHANGED cvVars
  /\ GoTo(t, "idle")
  /\ batch' = [batch EXCEPT ![t] = NoBatch]
  /\ todo' = [todo EXCEPT ![t] = {}]
  /\ reads' = [reads EXCEPT ![t] = {}]
  /\ result' = [result EXCEPT ![t] = "open"]
  /\ steps' = [steps EXCEPT ![t] = 0]
  /\ num' = [num EXCEPT ![t] = 0]
  /\ cid' = [cid EXCEPT ![t] = 1]
  /\ op' = [op EXCEPT ![t] = "Get"]
  /\ key' = [key EXCEPT ![t] = None]
  /\ UNCHANGED <<collVars, store, call, workload, calls>>

Step(t) ==
  \/ AcquireTransaction(t) \/ LookupCollection(t)
  \/ TryLock(t) \/ LockTimeout(t) \/ GetAccess(t) \/ GetValue(t)
  \/ Commit(t) \/ Rollback(t)
  \/ AcquireAccessThread(t) \/ FindCollections(t) \/ RangeLock(t)
  \/ WriteBatch(t) \/ Publish(t) \/ BatchReturn(t)
  \/ LockName(t) \/ AcquireCollection(t) \/ CreateOrDestroy(t) \/ FinishCollection(t)
  \/ Finish(t)

Next ==
  \/ \E t \in Thread : Start(t) \/ TransactionOp(t) \/ Step(t)
  \/ ExpireCollection \/ CleanCollection

\* A thread inside a call keeps running, and a transaction is ended by its user.
Spec == Init /\ [][Next]_vars /\ \A t \in Thread : WF_vars(Step(t))

----------------------------------------------------------------------------
TypeOK ==
  /\ lock \in [Lock -> Thread \union {None}]
  /\ access \in [Slot -> Thread \union {None}]
  /\ processing_transaction \in Nat /\ processing_collection \in Nat
  /\ asleep \subseteq Thread /\ dozing \subseteq Thread
  /\ coll \in [id : Id, status : {"Normal", "Outdated", "None"}]
  /\ collection_id \in 1 .. MaxId + 1
  /\ store \in [Place -> Nat]
  /\ pc \in [Thread -> {"idle", "open", "acquire", "lookup", "lock", "get",
                        "access", "find", "range", "publish", "release",
                        "name", "enter", "wait", "change", "exit", "unlock"}]
  /\ call \in [Thread -> {"Transaction", "Batch", "Create", "Destroy"}]
  /\ op \in [Thread -> {"Put", "Delete", "Get"}]
  /\ key \in [Thread -> UserKey \union {None}]
  /\ num \in [Thread -> Nat] /\ cid \in [Thread -> Id]
  /\ locked \in [Thread -> SUBSET Lock]
  /\ token \in [Thread -> BOOLEAN]
  /\ DOMAIN batch = Thread
  /\ \A t \in Thread : \E K \in SUBSET UserKey : batch[t] \in [K -> Nat]
  /\ todo \in [Thread -> SUBSET UserKey]
  /\ result \in [Thread -> {"open", "done", "failed"}]
  /\ reads \in [Thread -> SUBSET (Place \X Nat)]
  /\ workload \in Workloads /\ calls \in Nat /\ steps \in [Thread -> Nat]

(***************************************************************************)
(* "Collections of in processing transaction should not be created or      *)
(* destroyed" (CollectionTransactionCV): while a transaction has the token *)
(* no other step of a call changes the entry of the collection.            *)
(***************************************************************************)
CollectionsStay ==
  [][\A t, u \in Thread : token[u] /\ At(t, "change") => UNCHANGED coll]_vars

(***************************************************************************)
(* "key should already been locked by txn" (CommitTransaction): whoever    *)
(* publishes a key holds its lock, also if the element was locked under    *)
(* the collection that an earlier operation had found.                     *)
(***************************************************************************)
PublishedUnderLock ==
  /\ TypeOK
  /\ \A t \in Thread : At(t, "publish") =>
       \A k \in todo[t] : lock[LockOf[PlaceOf(t, k)]] = t

(***************************************************************************)
(* Transactions, batches and single writes are serializable: a transaction *)
(* takes effect when its batch is committed, and all it has read is still  *)
(* there then.  A value that is committed counts as stored.  GetValue is   *)
(* one read of what is stored, as Get and HashGet are, and SortedGet of a  *)
(* collection with a hash index; without one SortedGet may return an older *)
(* value (Skiplist).                                                       *)
(***************************************************************************)
Committed(p) ==
  LET late == {t \in Thread : /\ At(t, "publish") /\ p[2] \in todo[t]
                              /\ PlaceOf(t, p[2]) = p} IN
  IF late = {} THEN store[p] ELSE batch[CHOOSE t \in late : TRUE][p[2]]

Store == INSTANCE SerializableStore WITH
  Caller <- Thread,
  StoreValue <- Nat \ {0},
  db <- [p \in Place |-> Committed(p)],
  txn <- [t \in Thread |->
            [state |-> IF pc[t] = "idle" THEN "none" ELSE result[t],
             reads |-> reads[t], writes |-> batch[t]]]

Serializable == Store!SerializableSpec

(***************************************************************************)
(* "To avoid deadlock in transaction": every call returns, if users end    *)
(* their transactions.  Those wait for locks, with a timeout, for access   *)
(* slots and for whoever creates a collection, without one.                *)
(***************************************************************************)
CallsReturn == \A t \in Thread : pc[t] # "idle" ~> pc[t] = "idle"
=============================================================================
