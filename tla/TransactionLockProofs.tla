----------------------- MODULE TransactionLockProofs ------------------------
(***************************************************************************)
(* Proofs about Transaction, for any set of threads, any keys, any way in  *)
(* which keys share locks and threads share access slots. First part: the  *)
(* inductive invariant.  It follows that whoever publishes a key holds the *)
(* lock of the key, and that a collection is neither created nor destroyed *)
(* while a transaction has its token.                                      *)
(***************************************************************************)
EXTENDS Transaction, FiniteSetTheorems, TLAPS

USE Zenon

\* Who is counted by processing_transaction and by processing_collection.
Holders == {t \in Thread : token[t]}
Managers == {t \in Thread : pc[t] \in {"wait", "change", "exit"}}

(***************************************************************************)
(* CollectionTransactionCV: its counts are right, a transaction has no     *)
(* token when it acquires one, and nobody has one while a collection is    *)
(* created or destroyed.                                                   *)
(***************************************************************************)
CVInv ==
  /\ processing_transaction = Cardinality(Holders)
  /\ processing_collection = Cardinality(Managers)
  /\ \A t \in Thread : pc[t] = "acquire" => ~token[t]
  /\ \A t, u \in Thread : pc[t] \in {"change", "exit"} => ~token[u]

(***************************************************************************)
(* The locks: what a thread believes to have locked is locked by it; a     *)
(* transaction has locked what is in its batch, elements under the id that *)
(* the name has now, and has the token then; so has an operation that has  *)
(* looked the collection up.  What a call publishes is in its batch, and a *)
(* batch has locked it under the id that it found.                         *)
(***************************************************************************)
PlaceNow(k) == IF k \in StringKey THEN <<0, k>> ELSE <<coll.id, k>>

LocksHeld == \A t \in Thread : \A l \in locked[t] : lock[l] = t

BatchLocked(t) ==
  call[t] = "Transaction" =>
    \A k \in DOMAIN batch[t] :
      LockOf[PlaceNow(k)] \in locked[t] /\ (k \in ElemKey => token[t])

OpSound(t) ==
  /\ pc[t] = "idle" => batch[t] = NoBatch
  /\ pc[t] \in {"acquire", "lookup", "lock", "get"} => key[t] \in UserKey
  /\ pc[t] = "lookup" => token[t]
  /\ pc[t] = "lock" /\ key[t] \in ElemKey => token[t] /\ cid[t] = coll.id

CommitSound(t) ==
  /\ pc[t] \in {"range", "publish"} =>
       /\ todo[t] \subseteq DOMAIN batch[t]
       /\ call[t] = "Transaction" => \A k \in DOMAIN batch[t] \cap ElemKey : cid[t] = coll.id
  /\ pc[t] = "publish" /\ call[t] # "Transaction" =>
       \A k \in DOMAIN batch[t] : LockOf[PlaceOf(t, k)] \in locked[t]

LockInv ==
  LocksHeld /\ \A t \in Thread : BatchLocked(t) /\ OpSound(t) /\ CommitSound(t)

TransactionInv == TypeOK /\ CVInv /\ LockInv

----------------------------------------------------------------------------
\* TypeOK, the conjunct about batch apart.
BatchType ==
  DOMAIN batch = Thread /\ \A t \in Thread : \E K \in SUBSET UserKey : batch[t] \in [K -> Nat]

LEMMA InitHolds == Init => TransactionInv
<1> SUFFICES ASSUME Init PROVE TransactionInv
  OBVIOUS
<1> USE TransactionAssumption
<1>1. NoBatch \in [{} -> Nat] /\ {} \in SUBSET UserKey
  BY DEF NoBatch
<1>2. BatchType
  BY <1>1 DEF Init, BatchType
<1>3. TypeOK
  BY SMT, <1>2 DEF Init, TypeOK, Id, BatchType
<1>4. Holders = {} /\ Managers = {}
  BY DEF Init, Holders, Managers
<1>5. CVInv
  BY <1>4, FS_EmptySet DEF Init, CVInv
<1>6. LockInv
  BY DEF Init, LockInv, LocksHeld, BatchLocked, OpSound, CommitSound, NoBatch
<1> QED BY <1>3, <1>5, <1>6 DEF TransactionInv

\* What most steps need of TypeOK: the variables are functions of the threads.
Domains ==
  /\ DOMAIN pc = Thread /\ DOMAIN call = Thread /\ DOMAIN op = Thread
  /\ DOMAIN key = Thread /\ DOMAIN num = Thread /\ DOMAIN cid = Thread
  /\ DOMAIN batch = Thread /\ DOMAIN locked = Thread /\ DOMAIN token = Thread
  /\ DOMAIN todo = Thread /\ DOMAIN result = Thread /\ DOMAIN reads = Thread
  /\ DOMAIN lock = Lock /\ DOMAIN store = Place

LEMMA DomainsOK ==
  ASSUME TypeOK
  PROVE  Domains
BY DEF TypeOK, Domains

\* A step that changes neither the condition variable nor who is counted by it.
Quiet ==
  /\ UNCHANGED <<processing_transaction, processing_collection, token>>
  /\ \A u \in Thread :
       \/ pc'[u] = pc[u]
       \/ /\ pc[u] \notin {"wait", "change", "exit"} /\ pc'[u] \notin {"wait", "change", "exit"}
          /\ pc'[u] = "acquire" => ~token[u]

LEMMA QuietStep ==
  ASSUME CVInv, Quiet
  PROVE  CVInv'
<1>1. Holders' = Holders /\ Managers' = Managers
  BY DEF Quiet, Holders, Managers
<1>2. /\ \A t \in Thread : pc'[t] = "acquire" => ~token'[t]
      /\ \A t, u \in Thread : pc'[t] \in {"change", "exit"} => ~token'[u]
  BY DEF Quiet, CVInv
<1> QED BY <1>1, <1>2 DEF Quiet, CVInv

LEMMA CVStep ==
  ASSUME TransactionInv, [Next]_vars
  PROVE  CVInv'
<1> USE DEF At, GoTo, cvVars
<1>a. Domains /\ CVInv
  BY DomainsOK DEF TransactionInv
<1>1. ASSUME NEW t \in Thread, LookupCollection(t) PROVE Quiet
  BY SMT, <1>1, <1>a DEF LookupCollection, Quiet, Domains
<1>2. ASSUME NEW t \in Thread, TryLock(t) PROVE Quiet
  BY SMT, <1>2, <1>a DEF TryLock, Quiet, Domains
<1>3. ASSUME NEW t \in Thread, LockTimeout(t) PROVE Quiet
  BY <1>3, <1>a DEF LockTimeout, Quiet, Domains
<1>4. ASSUME NEW t \in Thread, GetAccess(t) PROVE Quiet
  BY <1>4, <1>a DEF GetAccess, Doze, TakeAccess, Quiet, Domains
<1>5. ASSUME NEW t \in Thread, GetValue(t) PROVE Quiet
  BY <1>5, <1>a DEF GetValue, Quiet, Domains
<1>6. ASSUME NEW t \in Thread, Commit(t) PROVE Quiet
  BY <1>6, <1>a DEF Commit, Quiet, Domains
<1>7. ASSUME NEW t \in Thread, Rollback(t) PROVE Quiet
  BY <1>7, <1>a DEF Rollback, Quiet, Domains
<1>8. ASSUME NEW t \in Thread, AcquireAccessThread(t) PROVE Quiet
  BY <1>8, <1>a DEF AcquireAccessThread, Doze, TakeAccess, IsManager, Quiet, Domains
<1>9. ASSUME NEW t \in Thread, FindCollections(t) PROVE Quiet
  BY <1>9, <1>a DEF FindCollections, Quiet, Domains
<1>10. ASSUME NEW t \in Thread, RangeLock(t) PROVE Quiet
  BY <1>10, <1>a DEF RangeLock, Quiet, Domains
<1>11. ASSUME NEW t \in Thread, WriteBatch(t) PROVE Quiet
  BY <1>11, <1>a DEF WriteBatch, Quiet, Domains
<1>12. ASSUME NEW t \in Thread, Publish(t) PROVE Quiet
  BY <1>12, <1>a DEF Publish, Quiet, Domains
<1>13. ASSUME NEW t \in Thread, BatchReturn(t) PROVE Quiet
  BY <1>13, <1>a DEF BatchReturn, Quiet, Domains
<1>14. ASSUME NEW t \in Thread, LockName(t) PROVE Quiet
  BY <1>14, <1>a DEF LockName, Quiet, Domains
<1>15. ASSUME NEW t \in Thread, Start(t) PROVE Quiet
  BY <1>15, <1>a DEF Start, Quiet, Domains
<1>16. ASSUME NEW t \in Thread, TransactionOp(t) PROVE Quiet
  BY SMT, <1>16, <1>a DEF TransactionOp, Quiet, Domains
<1>17. ASSUME ExpireCollection \/ CleanCollection \/ UNCHANGED vars PROVE Quiet
  BY <1>17 DEF ExpireCollection, CleanCollection, vars, Quiet
<1>18. IsFiniteSet(Holders) /\ IsFiniteSet(Managers)
  BY TransactionAssumption, FS_Subset DEF Holders, Managers
<1>19. ASSUME NEW t \in Thread, AcquireTransaction(t) PROVE CVInv'
  <2>1. CASE processing_collection > 0
    BY <1>19, <2>1, QuietStep DEF AcquireTransaction, Quiet, TransactionInv
  <2>2. CASE ~(processing_collection > 0)
    <3>1. t \notin Holders /\ Holders' = Holders \union {t} /\ Managers' = Managers
      BY SMT, <1>19, <1>a, <2>2 DEF AcquireTransaction, Domains, CVInv, Holders, Managers
    <3>2. Cardinality(Holders') = Cardinality(Holders) + 1
      BY <3>1, <1>18, FS_AddElement
    <3>3. Managers = {}
      BY SMT, <2>2, <1>18, FS_EmptySet, FS_CardinalityType DEF TransactionInv, CVInv
    <3>4. \A u \in Thread : pc'[u] \notin {"change", "exit"}
      BY <3>1, <3>3 DEF Managers
    <3>5. \A u \in Thread : pc'[u] = "acquire" => ~token'[u]
      BY <1>19, <1>a, <2>2 DEF AcquireTransaction, Domains, CVInv
    <3> QED BY <1>19, <2>2, <3>1, <3>2, <3>4, <3>5
            DEF AcquireTransaction, TransactionInv, CVInv
  <2> QED BY <2>1, <2>2
<1>20. ASSUME NEW t \in Thread, AcquireCollection(t) PROVE CVInv'
  <2>1. Holders' = Holders /\ Managers' = Managers \union {t}
    BY <1>20, <1>a DEF AcquireCollection, Domains, Holders, Managers
  <2>2. (t \in Managers) <=> pc[t] = "wait"
    BY <1>20 DEF AcquireCollection, Managers
  <2>3. Cardinality(Managers') = processing_collection'
    BY <1>20, <1>18, <2>1, <2>2, FS_AddElement DEF AcquireCollection, TransactionInv, CVInv
  <2>4. \A u \in Thread : pc'[u] = "acquire" => ~token'[u]
    BY <1>20, <1>a DEF AcquireCollection, Domains, CVInv
  <2>5. ASSUME pc'[t] = "change" PROVE Holders = {}
    BY SMT, <1>20, <2>5, <1>18, FS_EmptySet, FS_CardinalityType
       DEF AcquireCollection, TransactionInv, TypeOK, CVInv
  <2>6. \A u, v \in Thread : pc'[u] \in {"change", "exit"} => ~token'[v]
    BY <1>20, <1>a, <2>5 DEF AcquireCollection, Domains, CVInv, Holders
  <2> QED BY <1>20, <2>1, <2>3, <2>4, <2>6 DEF AcquireCollection, TransactionInv, CVInv
<1>21. ASSUME NEW t \in Thread, CreateOrDestroy(t) PROVE CVInv'
  <2>1. Holders' = Holders /\ Managers' = Managers
    BY <1>21, <1>a DEF CreateOrDestroy, Domains, Holders, Managers
  <2>2. /\ \A u \in Thread : pc'[u] = "acquire" => ~token'[u]
        /\ \A u, v \in Thread : pc'[u] \in {"change", "exit"} => ~token'[v]
    BY <1>21, <1>a DEF CreateOrDestroy, Domains, CVInv
  <2> QED BY <1>21, <2>1, <2>2 DEF CreateOrDestroy, TransactionInv, CVInv
<1>22. ASSUME NEW t \in Thread, FinishCollection(t) PROVE CVInv'
  <2>1. t \in Managers /\ Holders' = Holders /\ Managers' = Managers \ {t}
    BY <1>22, <1>a DEF FinishCollection, Domains, Holders, Managers
  <2>2. Cardinality(Managers') = Cardinality(Managers) - 1
    BY <2>1, <1>18, FS_RemoveElement
  <2>3. /\ \A u \in Thread : pc'[u] = "acquire" => ~token'[u]
        /\ \A u, v \in Thread : pc'[u] \in {"change", "exit"} => ~token'[v]
    BY <1>22, <1>a DEF FinishCollection, Domains, CVInv
  <2> QED BY <1>22, <2>1, <2>2, <2>3 DEF FinishCollection, TransactionInv, CVInv
<1>23. ASSUME NEW t \in Thread, Finish(t) PROVE CVInv'
  <2>1. CASE ~(call[t] = "Transaction" /\ token[t])
    <3>1. token' = token
      <4>1. CASE call[t] = "Transaction"
        <5>1. token' = [token EXCEPT ![t] = FALSE] /\ token[t] = FALSE
          BY SMT, <1>23, <1>a, <2>1, <4>1 DEF Finish, FinishTransaction, Domains
        <5>2. token \in [Thread -> BOOLEAN]
          BY DEF TransactionInv, TypeOK
        <5> QED BY <5>1, <5>2
      <4>2. CASE call[t] # "Transaction"
        BY <1>23, <4>2 DEF Finish
      <4> QED BY <4>1, <4>2
    <3>2. UNCHANGED <<processing_transaction, processing_collection>>
      BY <1>23, <2>1 DEF Finish, FinishTransaction
    <3>3. Quiet
      BY <1>23, <1>a, <3>1, <3>2 DEF Finish, Quiet, Domains
    <3> QED BY <3>3, QuietStep DEF TransactionInv
  <2>2. CASE call[t] = "Transaction" /\ token[t]
    <3>1. t \in Holders /\ Holders' = Holders \ {t} /\ Managers' = Managers
      BY <1>23, <2>2
         DEF Finish, FinishTransaction, TransactionInv, TypeOK, Holders, Managers
    <3>2. Cardinality(Holders') = Cardinality(Holders) - 1
      BY <3>1, <1>18, FS_RemoveElement
    <3>3. /\ \A u \in Thread : pc'[u] = "acquire" => ~token'[u]
          /\ \A u, v \in Thread : pc'[u] \in {"change", "exit"} => ~token'[v]
      BY <1>23, <1>a, <2>2 DEF Finish, FinishTransaction, Domains, CVInv
    <3> QED BY <1>23, <2>2, <3>1, <3>2, <3>3
            DEF Finish, FinishTransaction, TransactionInv, CVInv
  <2> QED BY <2>1, <2>2
<1> QED
  BY <1>1, <1>2, <1>3, <1>4, <1>5, <1>6, <1>7, <1>8, <1>9, <1>10, <1>11, <1>12, <1>13,
     <1>14, <1>15, <1>16, <1>17, <1>19, <1>20, <1>21, <1>22, <1>23, QuietStep
     DEF Next, Step, TransactionInv

----------------------------------------------------------------------------
(***************************************************************************)
(* Every step keeps the types of the variables.                            *)
(***************************************************************************)

(***************************************************************************)
(* The conjuncts of TypeOK, by what changes together.                      *)
(***************************************************************************)
WaitType ==
  /\ access \in [Slot -> Thread \union {None}]
  /\ asleep \subseteq Thread /\ dozing \subseteq Thread
  /\ token \in [Thread -> BOOLEAN]

LockType == lock \in [Lock -> Thread \union {None}] /\ locked \in [Thread -> SUBSET Lock]

CollType ==
  /\ coll \in [id : Id, status : {"Normal", "Outdated", "None"}]
  /\ collection_id \in 1 .. MaxId + 1

DataType ==
  /\ store \in [Place -> Nat]
  /\ todo \in [Thread -> SUBSET UserKey]
  /\ result \in [Thread -> {"open", "done", "failed"}]
  /\ reads \in [Thread -> SUBSET (Place \X Nat)]

PcType ==
  pc \in [Thread -> {"idle", "open", "acquire", "lookup", "lock", "get", "access", "find",
                     "range", "publish", "release", "name", "enter", "wait", "change",
                     "exit", "unlock"}]

CallType ==
  /\ call \in [Thread -> {"Transaction", "Batch", "Create", "Destroy"}]
  /\ op \in [Thread -> {"Put", "Delete", "Get"}]
  /\ key \in [Thread -> UserKey \union {None}]
  /\ num \in [Thread -> Nat] /\ cid \in [Thread -> Id]

LoadType == workload \in Workloads /\ calls \in Nat /\ steps \in [Thread -> Nat]

LEMMA PlaceType ==
  ASSUME TypeOK, NEW t \in Thread, NEW k \in UserKey
  PROVE  PlaceOf(t, k) \in Place /\ LockOf[PlaceOf(t, k)] \in Lock
BY DEF TypeOK, PlaceOf, Place, UserKey, Lock

LEMMA TypeStep ==
  ASSUME TransactionInv, [Next]_vars
  PROVE  TypeOK'
<1> USE DEF At, GoTo, cvVars, accVars, collVars, lockVars, dataVars, callVars, loadVars
<1> DEFINE Types == /\ WaitType /\ LockType /\ CollType /\ DataType
                    /\ BatchType /\ PcType /\ CallType /\ LoadType
<1>a. processing_transaction' \in Nat /\ processing_collection' \in Nat
  <2>1. Holders' \subseteq Thread /\ Managers' \subseteq Thread
    BY DEF Holders, Managers
  <2> QED BY SMT, <2>1, CVStep, TransactionAssumption, FS_Subset, FS_CardinalityType DEF CVInv
<1>b. TypeOK /\ Types
  BY DEF TransactionInv, TypeOK, WaitType, LockType, CollType, DataType, BatchType, PcType,
         CallType, LoadType
<1>c. ASSUME Types' PROVE TypeOK'
  BY <1>a, <1>c DEF TypeOK, WaitType, LockType, CollType, DataType, BatchType, PcType,
         CallType, LoadType
<1>1. ASSUME NEW t \in Thread, AcquireTransaction(t) PROVE Types'
  <2>1. WaitType'
    BY <1>1, <1>b DEF AcquireTransaction, WaitType
  <2>2. PcType'
    BY <1>1, <1>b DEF AcquireTransaction, PcType
  <2> QED BY <1>1, <1>b, <2>1, <2>2
             DEF AcquireTransaction, LockType, CollType, DataType, BatchType,
                 CallType, LoadType
<1>2. ASSUME NEW t \in Thread, LookupCollection(t) PROVE Types'
  <2>1. PcType'
    BY <1>2, <1>b DEF LookupCollection, PcType
  <2>2. CallType'
    BY <1>2, <1>b DEF LookupCollection, CallType, CollType
  <2> QED BY <1>2, <1>b, <2>1, <2>2
             DEF LookupCollection, WaitType, LockType, CollType, DataType,
                 BatchType, LoadType
<1>3. ASSUME NEW t \in Thread, TryLock(t) PROVE Types'
  <2>1. LockType'
    <3>1. TheLock(t) \in Lock
      BY <1>3, <1>b, PlaceType DEF TryLock, TheLock, TransactionInv, LockInv, OpSound
    <3> QED BY <1>3, <1>b, <3>1 DEF TryLock, LockType
  <2>2. PcType'
    BY <1>3, <1>b DEF TryLock, TheLock, PcType
  <2>3. BatchType'
    <3>1. key[t] \in UserKey /\ num[t] \in Nat
      BY <1>3, <1>b DEF TryLock, TransactionInv, LockInv, OpSound, CallType
    <3>2. PICK K \in SUBSET UserKey : batch[t] \in [K -> Nat]
      BY <1>b DEF BatchType
    <3>3. CASE batch' = batch
      BY <1>b, <3>3 DEF BatchType
    <3>4. CASE batch' # batch
      <4>1. DOMAIN batch' = Thread /\ \A u \in Thread \ {t} : batch'[u] = batch[u]
        BY <1>3, <1>b DEF TryLock, BatchType
      <4>2. batch'[t] = [k \in DOMAIN batch[t] \union {key[t]} |->
                 IF k # key[t] THEN batch[t][k] ELSE IF op[t] = "Put" THEN num[t] ELSE 0]
        BY <1>3, <1>b, <3>4 DEF TryLock, BatchType
      <4>3. batch'[t] \in [K \union {key[t]} -> Nat] /\ K \union {key[t]} \in SUBSET UserKey
        BY SMT, <3>1, <3>2, <4>2
      <4> QED BY <1>b, <4>1, <4>3 DEF BatchType
    <3> QED BY <3>3, <3>4
  <2> QED BY <1>3, <1>b, <2>1, <2>2, <2>3
             DEF TryLock, WaitType, CollType, DataType, CallType, LoadType
<1>4. ASSUME NEW t \in Thread, LockTimeout(t) PROVE Types'
  <2>1. PcType'
    BY <1>4, <1>b DEF LockTimeout, PcType
  <2> QED BY <1>4, <1>b, <2>1
             DEF LockTimeout, WaitType, LockType, CollType, DataType, BatchType,
                 CallType, LoadType
<1>5. ASSUME NEW t \in Thread, GetAccess(t) PROVE Types'
  <2>1. WaitType'
    BY <1>5, <1>b DEF GetAccess, Doze, TakeAccess, WaitType
  <2> QED BY <1>5, <1>b, <2>1
             DEF GetAccess, Doze, TakeAccess, LockType, CollType, DataType,
                 BatchType, PcType, CallType, LoadType
<1>6. ASSUME NEW t \in Thread, GetValue(t) PROVE Types'
  <2>1. WaitType'
    BY <1>6, <1>b DEF GetValue, ReleaseAccess, WaitType
  <2>2. DataType'
    <3>1. PlaceOf(t, key[t]) \in Place
      BY <1>6, <1>b, PlaceType DEF GetValue, TransactionInv, LockInv, OpSound
    <3>2. store[PlaceOf(t, key[t])] \in Nat
      BY <1>b, <3>1 DEF DataType
    <3>3. UNCHANGED <<store, todo, result>>
      BY <1>6 DEF GetValue
    <3>4. reads' \in [Thread -> SUBSET (Place \X Nat)]
      BY SMT, <1>6, <1>b, <3>1, <3>2 DEF GetValue, DataType
    <3> QED BY <1>b, <3>3, <3>4 DEF DataType
  <2>3. PcType'
    BY <1>6, <1>b DEF GetValue, PcType
  <2> QED BY <1>6, <1>b, <2>1, <2>2, <2>3
             DEF GetValue, LockType, CollType, BatchType, CallType, LoadType
<1>7. ASSUME NEW t \in Thread, Commit(t) PROVE Types'
  <2>1. PcType'
    BY <1>7, <1>b DEF Commit, PcType
  <2> QED BY <1>7, <1>b, <2>1
             DEF Commit, WaitType, LockType, CollType, DataType, BatchType,
                 CallType, LoadType
<1>8. ASSUME NEW t \in Thread, Rollback(t) PROVE Types'
  <2>1. PcType'
    BY <1>8, <1>b DEF Rollback, PcType
  <2> QED BY <1>8, <1>b, <2>1
             DEF Rollback, WaitType, LockType, CollType, DataType, BatchType,
                 CallType, LoadType
<1>9. ASSUME NEW t \in Thread, AcquireAccessThread(t) PROVE Types'
  <2>1. WaitType'
    BY SMT, <1>9, <1>b DEF AcquireAccessThread, Doze, TakeAccess, IsManager, WaitType
  <2>2. PcType'
    BY <1>9, <1>b DEF AcquireAccessThread, Doze, TakeAccess, IsManager, PcType
  <2> QED BY <1>9, <1>b, <2>1, <2>2
             DEF AcquireAccessThread, LockType, CollType, DataType, BatchType,
                 CallType, LoadType
<1>10. ASSUME NEW t \in Thread, FindCollections(t) PROVE Types'
  <2>1. DataType'
    <3>1. DOMAIN batch[t] \subseteq UserKey
      BY <1>b DEF BatchType
    <3> QED BY <1>10, <1>b, <3>1 DEF FindCollections, DataType
  <2>2. PcType'
    BY <1>10, <1>b DEF FindCollections, PcType
  <2>3. CallType'
    BY <1>10, <1>b DEF FindCollections, CallType, CollType
  <2> QED BY <1>10, <1>b, <2>1, <2>2, <2>3
             DEF FindCollections, WaitType, LockType, CollType, BatchType, LoadType
<1>11. ASSUME NEW t \in Thread, RangeLock(t) PROVE Types'
  <2>1. LockType'
    <3>1. DOMAIN batch[t] \subseteq UserKey
      BY <1>b DEF BatchType
    <3>2. Needed(t) \subseteq Lock
      BY <1>b, <3>1, PlaceType DEF Needed
    <3> QED BY SMT, <1>11, <1>b, <3>2 DEF RangeLock, LockType
  <2> QED BY <1>11, <1>b, <2>1
             DEF RangeLock, WaitType, CollType, DataType, BatchType, PcType,
                 CallType, LoadType
<1>12. ASSUME NEW t \in Thread, WriteBatch(t) PROVE Types'
  <2>1. DataType'
    BY <1>12, <1>b DEF WriteBatch, DataType
  <2>2. PcType'
    BY <1>12, <1>b DEF WriteBatch, PcType
  <2> QED BY <1>12, <1>b, <2>1, <2>2
             DEF WriteBatch, WaitType, LockType, CollType, BatchType, CallType,
                 LoadType
<1>13. ASSUME NEW t \in Thread, Publish(t) PROVE Types'
  <2>1. DataType'
    <3>1. ASSUME NEW k \in todo[t] PROVE PlaceOf(t, k) \in Place /\ batch[t][k] \in Nat
      <4>1. k \in UserKey /\ k \in DOMAIN batch[t]
        BY <1>13, <1>b DEF Publish, DataType, TransactionInv, LockInv, CommitSound
      <4> QED BY <1>b, <4>1, PlaceType DEF BatchType
    <3> QED BY <1>13, <1>b, <3>1 DEF Publish, DataType
  <2>2. PcType'
    BY <1>13, <1>b DEF Publish, PcType
  <2> QED BY <1>13, <1>b, <2>1, <2>2
             DEF Publish, WaitType, LockType, CollType, BatchType, CallType,
                 LoadType
<1>14. ASSUME NEW t \in Thread, BatchReturn(t) PROVE Types'
  <2>1. WaitType'
    BY <1>14, <1>b DEF BatchReturn, ReleaseAccess, WaitType
  <2>2. PcType'
    BY <1>14, <1>b DEF BatchReturn, PcType
  <2> QED BY <1>14, <1>b, <2>1, <2>2
             DEF BatchReturn, LockType, CollType, DataType, BatchType, CallType,
                 LoadType
<1>15. ASSUME NEW t \in Thread, LockName(t) PROVE Types'
  <2>1. LockType'
    <3>1. LockOf[Name] \in Lock
      BY DEF Lock
    <3> QED BY <1>15, <1>b, <3>1 DEF LockName, LockType
  <2>2. PcType'
    BY <1>15, <1>b DEF LockName, PcType
  <2> QED BY <1>15, <1>b, <2>1, <2>2
             DEF LockName, WaitType, CollType, DataType, BatchType, CallType,
                 LoadType
<1>16. ASSUME NEW t \in Thread, AcquireCollection(t) PROVE Types'
  <2>1. WaitType'
    BY <1>16, <1>b DEF AcquireCollection, WaitType
  <2>2. PcType'
    BY <1>16, <1>b DEF AcquireCollection, PcType
  <2> QED BY <1>16, <1>b, <2>1, <2>2
             DEF AcquireCollection, LockType, CollType, DataType, BatchType,
                 CallType, LoadType
<1>17. ASSUME NEW t \in Thread, CreateOrDestroy(t) PROVE Types'
  <2>1. CollType'
    BY SMT, <1>17, <1>b, TransactionAssumption DEF CreateOrDestroy, CollType, Id
  <2>2. PcType'
    BY <1>17, <1>b DEF CreateOrDestroy, PcType
  <2> QED BY <1>17, <1>b, <2>1, <2>2
             DEF CreateOrDestroy, WaitType, LockType, DataType, BatchType,
                 CallType, LoadType
<1>18. ASSUME NEW t \in Thread, FinishCollection(t) PROVE Types'
  <2>1. WaitType'
    BY <1>18, <1>b DEF FinishCollection, WaitType
  <2>2. PcType'
    BY <1>18, <1>b DEF FinishCollection, PcType
  <2> QED BY <1>18, <1>b, <2>1, <2>2
             DEF FinishCollection, LockType, CollType, DataType, BatchType,
                 CallType, LoadType
<1>19. ASSUME NEW t \in Thread, Finish(t) PROVE Types'
  <2>1. WaitType'
    BY <1>19, <1>b DEF Finish, ReleaseAccess, FinishTransaction, WaitType
  <2>2. LockType'
    BY <1>19, <1>b DEF Finish, LockType
  <2>3. DataType'
    BY <1>19, <1>b DEF Finish, DataType
  <2>4. BatchType'
    <3>1. NoBatch \in [{} -> Nat] /\ {} \in SUBSET UserKey
      BY DEF NoBatch
    <3>2. \A u \in Thread : batch'[u] = IF u = t THEN NoBatch ELSE batch[u]
      BY <1>19, <1>b DEF Finish, BatchType
    <3>3. DOMAIN batch' = Thread
      BY <1>19, <1>b DEF Finish, BatchType
    <3> QED BY <1>b, <3>1, <3>2, <3>3 DEF BatchType
  <2>5. PcType'
    BY <1>19, <1>b DEF Finish, PcType
  <2>6. CallType'
    <3>1. 1 \in Id
      BY SMT, TransactionAssumption DEF Id
    <3> QED BY <1>19, <1>b, <3>1 DEF Finish, CallType
  <2>7. LoadType'
    BY <1>19, <1>b DEF Finish, LoadType
  <2> QED BY <1>19, <1>b, <2>1, <2>2, <2>3, <2>4, <2>5, <2>6, <2>7 DEF Finish, CollType
<1>20. ASSUME NEW t \in Thread, Start(t) PROVE Types'
  <2>1. BatchType'
    <3>1. workload \in Workload /\ calls \in Nat
      BY <1>b, TransactionAssumption DEF LoadType
    <3>2. CASE batch' = batch
      BY <1>b, <3>2 DEF BatchType
    <3>3. CASE batch' # batch
      <4>1. PICK K \in workload.batches : \E w \in [K -> {0, calls + 1}] :
                 batch' = [batch EXCEPT ![t] = w]
        BY <1>20, <3>3 DEF Start
      <4>2. PICK w \in [K -> {0, calls + 1}] : batch' = [batch EXCEPT ![t] = w]
        BY <4>1
      <4>3. K \in SUBSET UserKey /\ w \in [K -> Nat]
        BY SMT, <3>1, <4>1, <4>2 DEF Workload
      <4> QED BY <1>b, <4>2, <4>3 DEF BatchType
    <3> QED BY <3>2, <3>3
  <2>2. PcType'
    BY <1>20, <1>b DEF Start, PcType
  <2>3. CallType'
    <3>1. workload \in Workload /\ calls \in Nat
      BY <1>b, TransactionAssumption DEF LoadType
    <3>2. workload.calls[t] \subseteq {"Transaction", "Batch", "Create", "Destroy"}
      BY <3>1 DEF Workload
    <3> QED BY SMT, <1>20, <1>b, <3>1, <3>2 DEF Start, CallType
  <2>4. LoadType'
    BY SMT, <1>20, <1>b DEF Start, LoadType
  <2> QED BY <1>20, <1>b, <2>1, <2>2, <2>3, <2>4
             DEF Start, WaitType, LockType, CollType, DataType
<1>21. ASSUME NEW t \in Thread, TransactionOp(t) PROVE Types'
  <2>1. PcType'
    BY <1>21, <1>b DEF TransactionOp, PcType
  <2>2. CallType'
    <3>1. workload \in Workload
      BY <1>b, TransactionAssumption DEF LoadType
    <3>2. workload.kinds \subseteq {"Put", "Delete", "Get"} /\ workload.keys \subseteq UserKey
      BY <3>1 DEF Workload
    <3> QED BY SMT, <1>21, <1>b, <3>2 DEF TransactionOp, CallType
  <2>3. LoadType'
    BY SMT, <1>21, <1>b DEF TransactionOp, LoadType
  <2> QED BY <1>21, <1>b, <2>1, <2>2, <2>3
             DEF TransactionOp, WaitType, LockType, CollType, DataType, BatchType
<1>22. ASSUME ExpireCollection \/ CleanCollection \/ UNCHANGED vars PROVE Types'
  <2>1. WaitType' /\ LockType' /\ DataType'
    BY <1>22, <1>b DEF ExpireCollection, CleanCollection, vars, WaitType, LockType, DataType
  <2>2. CollType'
    BY SMT, <1>22, <1>b DEF ExpireCollection, CleanCollection, vars, CollType
  <2>3. BatchType' /\ PcType'
    BY <1>22, <1>b DEF ExpireCollection, CleanCollection, vars, BatchType, PcType
  <2>4. CallType' /\ LoadType'
    BY <1>22, <1>b DEF ExpireCollection, CleanCollection, vars, CallType, LoadType
  <2> QED BY <2>1, <2>2, <2>3, <2>4
<1> QED
  BY <1>c, <1>1, <1>2, <1>3, <1>4, <1>5, <1>6, <1>7, <1>8, <1>9, <1>10,
     <1>11, <1>12, <1>13, <1>14, <1>15, <1>16, <1>17, <1>18, <1>19, <1>20, <1>21, <1>22
     DEF Next, Step

----------------------------------------------------------------------------
(***************************************************************************)
(* Every step keeps the part of the invariant about locks.                 *)
(***************************************************************************)

Sound(u) == BatchLocked(u) /\ OpSound(u) /\ CommitSound(u)

\* What Sound(u) is about, but for the collection.
Same(u) ==
  /\ pc'[u] = pc[u] /\ call'[u] = call[u] /\ key'[u] = key[u] /\ cid'[u] = cid[u]
  /\ batch'[u] = batch[u] /\ todo'[u] = todo[u] /\ token'[u] = token[u]
  /\ locked'[u] = locked[u]

LEMMA SameStep ==
  ASSUME NEW u \in Thread, Sound(u), Same(u), coll'.id = coll.id
  PROVE  Sound(u)'
<1>1. \A k : PlaceOf(u, k)' = PlaceOf(u, k) /\ PlaceNow(k)' = PlaceNow(k)
  BY DEF Same, PlaceOf, PlaceNow
<1>2. BatchLocked(u)'
  BY <1>1 DEF Sound, Same, BatchLocked
<1>3. OpSound(u)'
  BY DEF Sound, Same, OpSound
<1>4. CommitSound(u)'
  BY <1>1 DEF Sound, Same, CommitSound
<1> QED BY <1>2, <1>3, <1>4 DEF Sound

LEMMA LockStep ==
  ASSUME TransactionInv, [Next]_vars
  PROVE  LockInv'
<1> USE DEF At, GoTo, cvVars, accVars, collVars, lockVars, dataVars, callVars, loadVars
<1>t. TypeOK
  BY DEF TransactionInv
<1>d. Domains
  BY <1>t, DomainsOK
<1>l. LocksHeld
  BY DEF TransactionInv, LockInv
<1>a. \A u \in Thread : Sound(u)
  BY DEF TransactionInv, LockInv, Sound
<1>b. ASSUME NEW t \in Thread, LocksHeld', Sound(t)', coll'.id = coll.id,
             \A u \in Thread \ {t} : Same(u)
      PROVE  LockInv'
  BY <1>a, <1>b, SameStep DEF LockInv, Sound
<1>1. ASSUME NEW t \in Thread, AcquireTransaction(t) PROVE LockInv'
  <2>1. LocksHeld'
    BY <1>1, <1>l DEF AcquireTransaction, LocksHeld
  <2>2. coll'.id = coll.id /\ \A u \in Thread \ {t} : Same(u)
    BY <1>1, <1>d DEF AcquireTransaction, Domains, Same
  <2>3. Sound(t)'
    BY <1>1, <1>a, <1>d
       DEF AcquireTransaction, Domains, Sound, BatchLocked, OpSound, CommitSound,
           PlaceNow, PlaceOf
  <2> QED BY <1>b, <2>1, <2>2, <2>3
<1>2. ASSUME NEW t \in Thread, LookupCollection(t) PROVE LockInv'
  <2>1. LocksHeld'
    BY <1>2, <1>l DEF LookupCollection, LocksHeld
  <2>2. coll'.id = coll.id /\ \A u \in Thread \ {t} : Same(u)
    BY <1>2, <1>d DEF LookupCollection, Domains, Same
  <2>3. Sound(t)'
    BY <1>2, <1>a, <1>d
       DEF LookupCollection, Domains, Sound, BatchLocked, OpSound, CommitSound, PlaceNow,
           PlaceOf
  <2> QED BY <1>b, <2>1, <2>2, <2>3
<1>3. ASSUME NEW t \in Thread, TryLock(t) PROVE LockInv'
  <2>1. LocksHeld'
    <3>1. TheLock(t) \in Lock
      BY <1>3, <1>a, <1>t, PlaceType DEF TryLock, TheLock, Sound, OpSound
    <3>2. \A u \in Thread \ {t} : TheLock(t) \notin locked[u] /\ locked'[u] = locked[u]
      BY SMT, <1>3, <1>l, <1>d, TransactionAssumption DEF TryLock, LocksHeld, Domains
    <3>3. /\ locked'[t] = locked[t] \union {TheLock(t)} /\ lock'[TheLock(t)] = t
          /\ \A l \in Lock \ {TheLock(t)} : lock'[l] = lock[l]
      BY <1>3, <1>d, <3>1 DEF TryLock, Domains
    <3>4. \A u \in Thread : locked[u] \subseteq Lock
      BY <1>t DEF TypeOK
    <3> QED BY <1>l, <3>2, <3>3, <3>4 DEF LocksHeld
  <2>2. coll'.id = coll.id /\ \A u \in Thread \ {t} : Same(u)
    BY <1>3, <1>d DEF TryLock, Domains, Same
  <2>3. Sound(t)'
    <3>1. key[t] \in UserKey /\ PlaceOf(t, key[t]) = PlaceNow(key[t])
      BY <1>3, <1>a DEF TryLock, Sound, OpSound, PlaceOf, PlaceNow, UserKey
    <3>2. locked'[t] = locked[t] \union {TheLock(t)} /\ TheLock(t) = LockOf[PlaceNow(key[t])]
      BY <1>3, <1>d, <3>1 DEF TryLock, TheLock, Domains
    <3>3. /\ \A k : PlaceNow(k)' = PlaceNow(k)
          /\ pc'[t] \in {"get", "open"}
          /\ UNCHANGED <<key, token, call>>
      BY <1>3, <1>d DEF TryLock, PlaceNow, Domains
    <3>4. \A k \in DOMAIN batch'[t] : k \in DOMAIN batch[t] \/ k = key[t]
      BY SMT, <1>3, <1>d DEF TryLock, Domains
    <3>5. BatchLocked(t)'
      BY <1>3, <1>a, <3>2, <3>3, <3>4 DEF TryLock, Sound, BatchLocked, OpSound
    <3>6. OpSound(t)' /\ CommitSound(t)'
      BY <3>1, <3>3 DEF OpSound, CommitSound
    <3> QED BY <3>5, <3>6 DEF Sound
  <2> QED BY <1>b, <2>1, <2>2, <2>3
<1>4. ASSUME NEW t \in Thread, LockTimeout(t) PROVE LockInv'
  <2>1. LocksHeld'
    BY <1>4, <1>l DEF LockTimeout, LocksHeld
  <2>2. coll'.id = coll.id /\ \A u \in Thread \ {t} : Same(u)
    BY <1>4, <1>d DEF LockTimeout, Domains, Same
  <2>3. Sound(t)'
    BY <1>4, <1>a, <1>d
       DEF LockTimeout, Domains, Sound, BatchLocked, OpSound, CommitSound, PlaceNow,
           PlaceOf
  <2> QED BY <1>b, <2>1, <2>2, <2>3
<1>5. ASSUME NEW t \in Thread, GetAccess(t) PROVE LockInv'
  <2>1. LocksHeld'
    BY <1>5, <1>l DEF GetAccess, LocksHeld
  <2>2. coll'.id = coll.id /\ \A u \in Thread \ {t} : Same(u)
    BY <1>5, <1>d DEF GetAccess, Doze, TakeAccess, Domains, Same
  <2>3. Sound(t)'
    BY <1>5, <1>a, <1>d
       DEF GetAccess, Doze, TakeAccess, Domains, Sound, BatchLocked, OpSound, CommitSound,
           PlaceNow, PlaceOf
  <2> QED BY <1>b, <2>1, <2>2, <2>3
<1>6. ASSUME NEW t \in Thread, GetValue(t) PROVE LockInv'
  <2>1. LocksHeld'
    BY <1>6, <1>l DEF GetValue, LocksHeld
  <2>2. coll'.id = coll.id /\ \A u \in Thread \ {t} : Same(u)
    BY <1>6, <1>d DEF GetValue, Domains, Same
  <2>3. Sound(t)'
    BY <1>6, <1>a, <1>d
       DEF GetValue, Domains, Sound, BatchLocked, OpSound, CommitSound, PlaceNow, PlaceOf
  <2> QED BY <1>b, <2>1, <2>2, <2>3
<1>7. ASSUME NEW t \in Thread, Commit(t) PROVE LockInv'
  <2>1. LocksHeld'
    BY <1>7, <1>l DEF Commit, LocksHeld
  <2>2. coll'.id = coll.id /\ \A u \in Thread \ {t} : Same(u)
    BY <1>7, <1>d DEF Commit, Domains, Same
  <2>3. Sound(t)'
    BY <1>7, <1>a, <1>d
       DEF Commit, Domains, Sound, BatchLocked, OpSound, CommitSound, PlaceNow, PlaceOf
  <2> QED BY <1>b, <2>1, <2>2, <2>3
<1>8. ASSUME NEW t \in Thread, Rollback(t) PROVE LockInv'
  <2>1. LocksHeld'
    BY <1>8, <1>l DEF Rollback, LocksHeld
  <2>2. coll'.id = coll.id /\ \A u \in Thread \ {t} : Same(u)
    BY <1>8, <1>d DEF Rollback, Domains, Same
  <2>3. Sound(t)'
    BY <1>8, <1>a, <1>d
       DEF Rollback, Domains, Sound, BatchLocked, OpSound, CommitSound, PlaceNow, PlaceOf
  <2> QED BY <1>b, <2>1, <2>2, <2>3
<1>9. ASSUME NEW t \in Thread, AcquireAccessThread(t) PROVE LockInv'
  <2>1. LocksHeld'
    BY <1>9, <1>l DEF AcquireAccessThread, LocksHeld
  <2>2. coll'.id = coll.id /\ \A u \in Thread \ {t} : Same(u)
    BY <1>9, <1>d DEF AcquireAccessThread, Doze, TakeAccess, IsManager, Domains, Same
  <2>3. Sound(t)'
    BY <1>9, <1>a, <1>d
       DEF AcquireAccessThread, Doze, TakeAccess, IsManager, Domains, Sound, BatchLocked,
           OpSound, CommitSound, PlaceNow, PlaceOf
  <2> QED BY <1>b, <2>1, <2>2, <2>3
<1>10. ASSUME NEW t \in Thread, FindCollections(t) PROVE LockInv'
  <2>1. LocksHeld'
    BY <1>10, <1>l DEF FindCollections, LocksHeld
  <2>2. coll'.id = coll.id /\ \A u \in Thread \ {t} : Same(u)
    BY <1>10, <1>d DEF FindCollections, Domains, Same
  <2>3. Sound(t)'
    BY <1>10, <1>a, <1>d
       DEF FindCollections, Domains, Sound, BatchLocked, OpSound, CommitSound, PlaceNow,
           PlaceOf
  <2> QED BY <1>b, <2>1, <2>2, <2>3
<1>11. ASSUME NEW t \in Thread, RangeLock(t) PROVE LockInv'
  <2>1. LocksHeld'
    <3>1. PICK l \in Needed(t) : /\ lock[l] = None /\ lock' = [lock EXCEPT ![l] = t]
                                 /\ locked' = [locked EXCEPT ![t] = @ \union {l}]
      BY <1>11 DEF RangeLock
    <3>2. l \in Lock
      <4>1. DOMAIN batch[t] \subseteq UserKey
        BY <1>t DEF TypeOK
      <4> QED BY <1>t, <3>1, <4>1, PlaceType DEF Needed
    <3>3. \A u \in Thread : l \notin locked[u]
      BY <1>l, <3>1, TransactionAssumption DEF LocksHeld
    <3>4. \A u \in Thread : locked'[u] = IF u = t THEN locked[t] \union {l} ELSE locked[u]
      BY <1>d, <3>1 DEF Domains
    <3>5. \A u \in Thread : locked[u] \subseteq Lock
      BY <1>t DEF TypeOK
    <3>6. lock'[l] = t /\ \A m \in Lock \ {l} : lock'[m] = lock[m]
      BY <1>d, <3>1, <3>2 DEF Domains
    <3> QED BY SMT, <1>l, <3>3, <3>4, <3>5, <3>6 DEF LocksHeld
  <2>2. coll'.id = coll.id /\ \A u \in Thread \ {t} : Same(u)
    BY <1>11, <1>d DEF RangeLock, Domains, Same
  <2>3. Sound(t)'
    BY SMT, <1>11, <1>a, <1>d
       DEF RangeLock, Domains, Sound, BatchLocked, OpSound, CommitSound, PlaceNow, PlaceOf
  <2> QED BY <1>b, <2>1, <2>2, <2>3
<1>12. ASSUME NEW t \in Thread, WriteBatch(t) PROVE LockInv'
  <2>1. LocksHeld'
    BY <1>12, <1>l DEF WriteBatch, LocksHeld
  <2>2. coll'.id = coll.id /\ \A u \in Thread \ {t} : Same(u)
    BY <1>12, <1>d DEF WriteBatch, Domains, Same
  <2>3. Sound(t)'
    <3>1. /\ \A k : PlaceOf(t, k)' = PlaceOf(t, k) /\ PlaceNow(k)' = PlaceNow(k)
          /\ pc[t] = "range" /\ pc'[t] \in {"publish", "release"}
          /\ UNCHANGED <<call, key, cid, batch, todo, token, locked, coll>>
      BY <1>12, <1>d DEF WriteBatch, PlaceOf, PlaceNow, Domains
    <3>2. call[t] # "Transaction" =>
             \A k \in DOMAIN batch[t] : LockOf[PlaceOf(t, k)] \in locked[t]
      BY <1>12 DEF WriteBatch, Needed
    <3>3. BatchLocked(t)' /\ OpSound(t)'
      BY <1>a, <3>1 DEF Sound, BatchLocked, OpSound
    <3>4. CommitSound(t)'
      BY <1>a, <3>1, <3>2 DEF Sound, CommitSound
    <3> QED BY <3>3, <3>4 DEF Sound
  <2> QED BY <1>b, <2>1, <2>2, <2>3
<1>13. ASSUME NEW t \in Thread, Publish(t) PROVE LockInv'
  <2>1. LocksHeld'
    BY <1>13, <1>l DEF Publish, LocksHeld
  <2>2. coll'.id = coll.id /\ \A u \in Thread \ {t} : Same(u)
    BY <1>13, <1>d DEF Publish, Domains, Same
  <2>3. Sound(t)'
    <3>1. /\ \A k : PlaceOf(t, k)' = PlaceOf(t, k) /\ PlaceNow(k)' = PlaceNow(k)
          /\ pc[t] = "publish" /\ pc'[t] \in {"publish", "release"}
          /\ UNCHANGED <<call, key, cid, batch, token, locked, coll>>
      BY <1>13, <1>d DEF Publish, PlaceOf, PlaceNow, Domains
    <3>2. todo'[t] \subseteq todo[t]
      BY <1>13, <1>d DEF Publish, Domains
    <3>3. BatchLocked(t)' /\ OpSound(t)'
      BY <1>a, <3>1 DEF Sound, BatchLocked, OpSound
    <3>4. CommitSound(t)'
      BY <1>a, <3>1, <3>2 DEF Sound, CommitSound
    <3> QED BY <3>3, <3>4 DEF Sound
  <2> QED BY <1>b, <2>1, <2>2, <2>3
<1>14. ASSUME NEW t \in Thread, BatchReturn(t) PROVE LockInv'
  <2>1. LocksHeld'
    BY <1>14, <1>l DEF BatchReturn, LocksHeld
  <2>2. coll'.id = coll.id /\ \A u \in Thread \ {t} : Same(u)
    BY <1>14, <1>d DEF BatchReturn, Domains, Same
  <2>3. Sound(t)'
    BY <1>14, <1>a, <1>d
       DEF BatchReturn, Domains, Sound, BatchLocked, OpSound, CommitSound, PlaceNow,
           PlaceOf
  <2> QED BY <1>b, <2>1, <2>2, <2>3
<1>15. ASSUME NEW t \in Thread, LockName(t) PROVE LockInv'
  <2>1. LocksHeld'
    <3>1. LockOf[Name] \in Lock
      BY DEF Lock
    <3>2. \A u \in Thread : LockOf[Name] \notin locked[u]
      BY <1>15, <1>l, TransactionAssumption DEF LockName, LocksHeld
    <3>3. \A u \in Thread :
             locked'[u] = IF u = t THEN locked[t] \union {LockOf[Name]} ELSE locked[u]
      BY <1>15, <1>d DEF LockName, Domains
    <3>4. \A u \in Thread : locked[u] \subseteq Lock
      BY <1>t DEF TypeOK
    <3>5. lock'[LockOf[Name]] = t /\ \A m \in Lock \ {LockOf[Name]} : lock'[m] = lock[m]
      BY <1>15, <1>d, <3>1 DEF LockName, Domains
    <3> QED BY SMT, <1>l, <3>2, <3>3, <3>4, <3>5 DEF LocksHeld
  <2>2. coll'.id = coll.id /\ \A u \in Thread \ {t} : Same(u)
    BY <1>15, <1>d DEF LockName, Domains, Same
  <2>3. Sound(t)'
    BY <1>15, <1>a, <1>d
       DEF LockName, Domains, Sound, BatchLocked, OpSound, CommitSound, PlaceNow, PlaceOf
  <2> QED BY <1>b, <2>1, <2>2, <2>3
<1>16. ASSUME NEW t \in Thread, AcquireCollection(t) PROVE LockInv'
  <2>1. LocksHeld'
    BY <1>16, <1>l DEF AcquireCollection, LocksHeld
  <2>2. coll'.id = coll.id /\ \A u \in Thread \ {t} : Same(u)
    BY <1>16, <1>d DEF AcquireCollection, Domains, Same
  <2>3. Sound(t)'
    BY <1>16, <1>a, <1>d
       DEF AcquireCollection, Domains, Sound, BatchLocked, OpSound, CommitSound, PlaceNow,
           PlaceOf
  <2> QED BY <1>b, <2>1, <2>2, <2>3
<1>17. ASSUME NEW t \in Thread, FinishCollection(t) PROVE LockInv'
  <2>1. LocksHeld'
    BY <1>17, <1>l DEF FinishCollection, LocksHeld
  <2>2. coll'.id = coll.id /\ \A u \in Thread \ {t} : Same(u)
    BY <1>17, <1>d DEF FinishCollection, Domains, Same
  <2>3. Sound(t)'
    BY <1>17, <1>a, <1>d
       DEF FinishCollection, Domains, Sound, BatchLocked, OpSound, CommitSound, PlaceNow,
           PlaceOf
  <2> QED BY <1>b, <2>1, <2>2, <2>3
<1>18. ASSUME NEW t \in Thread, Finish(t) PROVE LockInv'
  <2>1. LocksHeld'
    <3>1. \A u \in Thread \ {t} : locked'[u] = locked[u] /\ locked[u] \cap locked[t] = {}
      BY <1>18, <1>l, <1>d DEF Finish, LocksHeld, Domains
    <3>2. locked'[t] = {} /\ \A l \in Lock \ locked[t] : lock'[l] = lock[l]
      BY <1>18, <1>d DEF Finish, Domains
    <3>3. \A u \in Thread : locked[u] \subseteq Lock
      BY <1>t DEF TypeOK
    <3> QED BY <1>l, <3>1, <3>2, <3>3 DEF LocksHeld
  <2>2. coll'.id = coll.id /\ \A u \in Thread \ {t} : Same(u)
    BY <1>18, <1>d DEF Finish, FinishTransaction, Domains, Same
  <2>3. Sound(t)'
    <3>1. pc'[t] = "idle" /\ batch'[t] = NoBatch /\ DOMAIN NoBatch = {}
      BY <1>18, <1>d DEF Finish, Domains, NoBatch
    <3> QED BY <3>1 DEF Sound, BatchLocked, OpSound, CommitSound
  <2> QED BY <1>b, <2>1, <2>2, <2>3
<1>19. ASSUME NEW t \in Thread, Start(t) PROVE LockInv'
  <2>1. LocksHeld'
    BY <1>19, <1>l DEF Start, LocksHeld
  <2>2. coll'.id = coll.id /\ \A u \in Thread \ {t} : Same(u)
    BY <1>19, <1>d DEF Start, Domains, Same
  <2>3. Sound(t)'
    <3>1. pc'[t] \in {"open", "access"} /\ DOMAIN NoBatch = {} /\ batch[t] = NoBatch
      <4>1. pc[t] = "idle" /\ pc'[t] \in {"open", "access"}
        BY <1>19, <1>d DEF Start, Domains
      <4> QED BY <1>a, <4>1 DEF NoBatch, Sound, OpSound
    <3>2. call'[t] = "Transaction" => batch' = batch
      BY <1>19, <1>d DEF Start, Domains
    <3> QED BY <3>1, <3>2 DEF Sound, BatchLocked, OpSound, CommitSound
  <2> QED BY <1>b, <2>1, <2>2, <2>3
<1>20. ASSUME NEW t \in Thread, TransactionOp(t) PROVE LockInv'
  <2>1. LocksHeld'
    BY <1>20, <1>l DEF TransactionOp, LocksHeld
  <2>2. coll'.id = coll.id /\ \A u \in Thread \ {t} : Same(u)
    BY <1>20, <1>d DEF TransactionOp, Domains, Same
  <2>3. Sound(t)'
    <3>1. workload.keys \subseteq UserKey
      <4>1. workload \in Workload
        BY <1>t, TransactionAssumption DEF TypeOK
      <4> QED BY <4>1 DEF Workload
    <3>2. /\ key'[t] \in UserKey /\ pc'[t] \in {"lock", "lookup", "acquire"}
          /\ pc'[t] = "lock" => key'[t] \in StringKey
          /\ pc'[t] = "lookup" => token[t]
      BY SMT, <1>20, <1>d, <3>1 DEF TransactionOp, Domains
    <3>3. UNCHANGED <<call, batch, token, locked, coll>>
      BY <1>20 DEF TransactionOp
    <3>4. BatchLocked(t)'
      BY <1>a, <3>3 DEF Sound, BatchLocked, PlaceNow
    <3> QED BY <3>2, <3>3, <3>4, TransactionAssumption DEF Sound, OpSound, CommitSound
  <2> QED BY <1>b, <2>1, <2>2, <2>3
<1>21. ASSUME NEW t \in Thread, CreateOrDestroy(t) PROVE LockInv'
  <2>1. LocksHeld' /\ UNCHANGED <<call, key, cid, batch, todo, token, locked>>
    BY <1>21, <1>l DEF CreateOrDestroy, LocksHeld
  <2>2. \A u \in Thread : pc'[u] = pc[u] \/ pc'[u] = "exit"
    BY <1>21, <1>d DEF CreateOrDestroy, Domains
  <2>3. \A u \in Thread : ~token[u]
    BY <1>21 DEF CreateOrDestroy, TransactionInv, CVInv
  <2>4. ASSUME NEW u \in Thread PROVE Sound(u)'
    <3>1. \A k : PlaceOf(u, k)' = PlaceOf(u, k)
      BY <2>1 DEF PlaceOf
    <3>2. call[u] = "Transaction" => \A k \in DOMAIN batch[u] : k \in StringKey
      <4>1. DOMAIN batch[u] \subseteq UserKey
        BY <1>t DEF TypeOK
      <4> QED BY <1>a, <2>3, <4>1 DEF Sound, BatchLocked, UserKey
    <3>3. BatchLocked(u)'
      BY <1>a, <2>1, <3>2, TransactionAssumption DEF Sound, BatchLocked, PlaceNow
    <3>4. OpSound(u)'
      BY <1>a, <2>1, <2>2, <2>3 DEF Sound, OpSound
    <3>5. CommitSound(u)'
      BY <1>a, <2>1, <2>2, <3>1, <3>2, TransactionAssumption DEF Sound, CommitSound
    <3> QED BY <3>3, <3>4, <3>5 DEF Sound
  <2> QED BY <2>1, <2>4 DEF LockInv, Sound
<1>22. ASSUME ExpireCollection \/ CleanCollection \/ UNCHANGED vars PROVE LockInv'
  <2>1. LocksHeld' /\ coll'.id = coll.id /\ \A u \in Thread : Same(u)
    <3>1. \A s : coll' = [coll EXCEPT !.status = s] => coll'.id = coll.id
      BY <1>t DEF TypeOK
    <3>2. coll'.id = coll.id
      BY <1>22, <3>1 DEF ExpireCollection, CleanCollection, vars
    <3>3. UNCHANGED <<pc, call, key, cid, batch, todo, token, lock, locked>>
      BY <1>22 DEF ExpireCollection, CleanCollection, vars
    <3> QED BY <1>l, <3>2, <3>3 DEF LocksHeld, Same
  <2> QED BY <1>a, <2>1, SameStep DEF LockInv, Sound
<1> QED
  BY <1>1, <1>2, <1>3, <1>4, <1>5, <1>6, <1>7, <1>8, <1>9, <1>10, <1>11, <1>12, <1>13,
     <1>14, <1>15, <1>16, <1>17, <1>18, <1>19, <1>20, <1>21, <1>22
     DEF Next, Step

----------------------------------------------------------------------------
LEMMA Invariance == Spec => []TransactionInv
<1>1. TransactionInv /\ [Next]_vars => TransactionInv'
  BY CVStep, TypeStep, LockStep DEF TransactionInv
<1> QED BY InitHolds, <1>1, PTL DEF Spec

LEMMA PublishLocked ==
  ASSUME TransactionInv
  PROVE  PublishedUnderLock
<1>1. ASSUME NEW t \in Thread, At(t, "publish"), NEW k \in todo[t]
      PROVE  LockOf[PlaceOf(t, k)] \in locked[t]
  <2>1. k \in DOMAIN batch[t] /\ k \in UserKey
    BY <1>1 DEF TransactionInv, LockInv, CommitSound, At, TypeOK
  <2>2. CASE call[t] = "Transaction"
    BY <1>1, <2>1, <2>2
       DEF TransactionInv, LockInv, BatchLocked, CommitSound, PlaceNow, PlaceOf, At, UserKey
  <2>3. CASE call[t] # "Transaction"
    BY <1>1, <2>1, <2>3 DEF TransactionInv, LockInv, CommitSound, At
  <2> QED BY <2>2, <2>3
<1> QED BY <1>1 DEF TransactionInv, LockInv, LocksHeld, PublishedUnderLock

(***************************************************************************)
(* Transaction::Commit and batchWriteImpl: every variable keeps its type,  *)
(* and whoever publishes a key holds the lock of the key, in any number of *)
(* threads, with any keys and any sharing of locks.                        *)
(***************************************************************************)
THEOREM PublishesUnderLock == Spec => []PublishedUnderLock
<1>1. TransactionInv => PublishedUnderLock
  BY PublishLocked
<1> QED BY Invariance, <1>1, PTL

(***************************************************************************)
(* CollectionTransactionCV: the entry of a collection is not changed by    *)
(* whoever creates or destroys one while any transaction has the token.    *)
(***************************************************************************)
THEOREM CollectionsKept == Spec => CollectionsStay
<1>1. ASSUME TransactionInv, [Next]_vars
      PROVE  [\A t, u \in Thread : token[u] /\ At(t, "change") => UNCHANGED coll]_vars
  BY <1>1 DEF TransactionInv, CVInv, At
<1> QED BY Invariance, <1>1, PTL DEF Spec, CollectionsStay
=============================================================================
