----------------------- MODULE TransactionStoreProofs -----------------------
(***************************************************************************)
(* Proofs about Transaction, second part: whatever a transaction has read  *)
(* it keeps locked, so it stays as it was read until the transaction       *)
(* commits; and Transaction implements SerializableStore, for any threads, *)
(* keys, locks and workloads.                                              *)
(***************************************************************************)
EXTENDS TransactionLockProofs

USE Zenon

(***************************************************************************)
(* A transaction has locked what it has read, and reads it again until it  *)
(* commits; its batch is not written by halves.                            *)
(***************************************************************************)
ReadSound(t) ==
  /\ pc[t] = "idle" => reads[t] = {}
  /\ pc[t] = "get" => TheLock(t) \in locked[t]
  /\ pc[t] = "range" => todo[t] = DOMAIN batch[t]
  /\ pc[t] \notin {"publish", "release", "unlock"} =>
       /\ result[t] = "open"
       /\ \A r \in reads[t] : LockOf[r[1]] \in locked[t] /\ store[r[1]] = r[2]

ReadInv == \A t \in Thread : ReadSound(t)

\* What ReadSound(u) is about.
Still(u) ==
  /\ pc'[u] = pc[u] /\ key'[u] = key[u] /\ cid'[u] = cid[u] /\ reads'[u] = reads[u]
  /\ batch'[u] = batch[u] /\ todo'[u] = todo[u] /\ result'[u] = result[u]
  /\ locked'[u] = locked[u]

LEMMA StillStep ==
  ASSUME NEW u \in Thread, ReadSound(u), Still(u), \A r \in reads[u] : store'[r[1]] = store[r[1]]
  PROVE  ReadSound(u)'
<1>1. TheLock(u)' = TheLock(u)
  BY DEF Still, TheLock, PlaceOf
<1> QED BY <1>1 DEF Still, ReadSound

LEMMA ReadStep ==
  ASSUME TransactionInv, ReadInv, [Next]_vars
  PROVE  ReadInv'
<1> USE DEF At, GoTo, cvVars, accVars, collVars, lockVars, dataVars, callVars, loadVars
<1>t. TypeOK
  BY DEF TransactionInv
<1>d. Domains
  BY <1>t, DomainsOK
<1>a. \A u \in Thread : ReadSound(u)
  BY DEF ReadInv
<1>b. ASSUME NEW t \in Thread, ReadSound(t)', UNCHANGED store,
             \A u \in Thread \ {t} : Still(u)
      PROVE  ReadInv'
  BY <1>a, <1>b, StillStep DEF ReadInv
<1>1. ASSUME NEW t \in Thread, AcquireTransaction(t) PROVE ReadInv'
  <2>1. UNCHANGED store /\ \A u \in Thread \ {t} : Still(u)
    BY <1>1, <1>d DEF AcquireTransaction, Domains, Still
  <2>2. ReadSound(t)'
    <3>1. pc[t] = "acquire" /\ pc'[t] \in {"acquire", "lookup"}
      BY <1>1, <1>d DEF AcquireTransaction, Domains
    <3>2. UNCHANGED <<reads, store, result, locked>>
      BY <1>1 DEF AcquireTransaction
    <3> QED BY <1>a, <3>1, <3>2 DEF ReadSound
  <2> QED BY <1>b, <2>1, <2>2
<1>2. ASSUME NEW t \in Thread, LookupCollection(t) PROVE ReadInv'
  <2>1. UNCHANGED store /\ \A u \in Thread \ {t} : Still(u)
    BY <1>2, <1>d DEF LookupCollection, Domains, Still
  <2>2. ReadSound(t)'
    <3>1. pc[t] = "lookup" /\ pc'[t] \in {"open", "lock"}
      BY <1>2, <1>d DEF LookupCollection, Domains
    <3>2. UNCHANGED <<reads, store, result, locked>>
      BY <1>2 DEF LookupCollection
    <3> QED BY <1>a, <3>1, <3>2 DEF ReadSound
  <2> QED BY <1>b, <2>1, <2>2
<1>3. ASSUME NEW t \in Thread, TryLock(t) PROVE ReadInv'
  <2>1. UNCHANGED store /\ \A u \in Thread \ {t} : Still(u)
    BY <1>3, <1>d DEF TryLock, Domains, Still
  <2>2. ReadSound(t)'
    <3>1. /\ pc'[t] \in {"get", "open"} /\ TheLock(t)' = TheLock(t)
          /\ locked'[t] = locked[t] \union {TheLock(t)}
      BY <1>3, <1>d DEF TryLock, Domains, TheLock, PlaceOf
    <3>2. UNCHANGED <<reads, store, result>> /\ pc[t] = "lock"
      BY <1>3 DEF TryLock
    <3> QED BY <1>a, <3>1, <3>2 DEF ReadSound
  <2> QED BY <1>b, <2>1, <2>2
<1>4. ASSUME NEW t \in Thread, LockTimeout(t) PROVE ReadInv'
  <2>1. UNCHANGED store /\ \A u \in Thread \ {t} : Still(u)
    BY <1>4, <1>d DEF LockTimeout, Domains, Still
  <2>2. ReadSound(t)'
    BY <1>4, <1>a, <1>d DEF LockTimeout, Domains, ReadSound, TheLock, PlaceOf
  <2> QED BY <1>b, <2>1, <2>2
<1>5. ASSUME NEW t \in Thread, GetAccess(t) PROVE ReadInv'
  <2>1. UNCHANGED store /\ \A u \in Thread \ {t} : Still(u)
    BY <1>5, <1>d DEF GetAccess, Doze, TakeAccess, Domains, Still
  <2>2. ReadSound(t)'
    BY <1>5, <1>a, <1>d DEF GetAccess, Doze, TakeAccess, Domains, ReadSound, TheLock, PlaceOf
  <2> QED BY <1>b, <2>1, <2>2
<1>6. ASSUME NEW t \in Thread, GetValue(t) PROVE ReadInv'
  <2>1. UNCHANGED store /\ \A u \in Thread \ {t} : Still(u)
    BY <1>6, <1>d DEF GetValue, Domains, Still
  <2>2. ReadSound(t)'
    <3>1. pc'[t] = "open" /\ UNCHANGED <<locked, store, result>> /\ pc[t] = "get"
      BY <1>6, <1>d DEF GetValue, Domains
    <3>2. reads'[t] = reads[t] \union {<<PlaceOf(t, key[t]), store[PlaceOf(t, key[t])]>>}
      BY <1>6, <1>d DEF GetValue, Domains
    <3> QED BY SMT, <1>a, <3>1, <3>2 DEF ReadSound, TheLock
  <2> QED BY <1>b, <2>1, <2>2
<1>7. ASSUME NEW t \in Thread, Commit(t) PROVE ReadInv'
  <2>1. UNCHANGED store /\ \A u \in Thread \ {t} : Still(u)
    BY <1>7, <1>d DEF Commit, Domains, Still
  <2>2. ReadSound(t)'
    BY <1>7, <1>a, <1>d DEF Commit, Domains, ReadSound, TheLock, PlaceOf
  <2> QED BY <1>b, <2>1, <2>2
<1>8. ASSUME NEW t \in Thread, Rollback(t) PROVE ReadInv'
  <2>1. UNCHANGED store /\ \A u \in Thread \ {t} : Still(u)
    BY <1>8, <1>d DEF Rollback, Domains, Still
  <2>2. ReadSound(t)'
    BY <1>8, <1>a, <1>d DEF Rollback, Domains, ReadSound, TheLock, PlaceOf
  <2> QED BY <1>b, <2>1, <2>2
<1>9. ASSUME NEW t \in Thread, AcquireAccessThread(t) PROVE ReadInv'
  <2>1. UNCHANGED store /\ \A u \in Thread \ {t} : Still(u)
    BY <1>9, <1>d DEF AcquireAccessThread, Doze, TakeAccess, IsManager, Domains, Still
  <2>2. ReadSound(t)'
    BY <1>9, <1>a, <1>d
       DEF AcquireAccessThread, Doze, TakeAccess, IsManager, Domains, ReadSound, TheLock,
           PlaceOf
  <2> QED BY <1>b, <2>1, <2>2
<1>10. ASSUME NEW t \in Thread, FindCollections(t) PROVE ReadInv'
  <2>1. UNCHANGED store /\ \A u \in Thread \ {t} : Still(u)
    BY <1>10, <1>d DEF FindCollections, Domains, Still
  <2>2. ReadSound(t)'
    <3>1. /\ pc[t] = "find" /\ pc'[t] \in {"range", "release"} /\ todo'[t] = DOMAIN batch[t]
          /\ pc'[t] = "range" => result' = result
      BY <1>10, <1>d DEF FindCollections, Domains
    <3>2. UNCHANGED <<reads, store, locked, batch>>
      BY <1>10 DEF FindCollections
    <3> QED BY <1>a, <3>1, <3>2 DEF ReadSound
  <2> QED BY <1>b, <2>1, <2>2
<1>11. ASSUME NEW t \in Thread, RangeLock(t) PROVE ReadInv'
  <2>1. UNCHANGED store /\ \A u \in Thread \ {t} : Still(u)
    BY <1>11, <1>d DEF RangeLock, Domains, Still
  <2>2. ReadSound(t)'
    <3>1. pc[t] = "range" /\ pc'[t] = "range" /\ locked[t] \subseteq locked'[t]
      BY SMT, <1>11, <1>d DEF RangeLock, Domains
    <3>2. UNCHANGED <<reads, store, result, todo, batch>>
      BY <1>11 DEF RangeLock
    <3> QED BY <1>a, <3>1, <3>2 DEF ReadSound
  <2> QED BY <1>b, <2>1, <2>2
<1>12. ASSUME NEW t \in Thread, WriteBatch(t) PROVE ReadInv'
  <2>1. UNCHANGED store /\ \A u \in Thread \ {t} : Still(u)
    BY <1>12, <1>d DEF WriteBatch, Domains, Still
  <2>2. ReadSound(t)'
    BY <1>12, <1>a, <1>d DEF WriteBatch, Domains, ReadSound, TheLock, PlaceOf
  <2> QED BY <1>b, <2>1, <2>2
<1>13. ASSUME NEW t \in Thread, BatchReturn(t) PROVE ReadInv'
  <2>1. UNCHANGED store /\ \A u \in Thread \ {t} : Still(u)
    BY <1>13, <1>d DEF BatchReturn, Domains, Still
  <2>2. ReadSound(t)'
    BY <1>13, <1>a, <1>d DEF BatchReturn, Domains, ReadSound, TheLock, PlaceOf
  <2> QED BY <1>b, <2>1, <2>2
<1>14. ASSUME NEW t \in Thread, LockName(t) PROVE ReadInv'
  <2>1. UNCHANGED store /\ \A u \in Thread \ {t} : Still(u)
    BY <1>14, <1>d DEF LockName, Domains, Still
  <2>2. ReadSound(t)'
    BY <1>14, <1>a, <1>d DEF LockName, Domains, ReadSound, TheLock, PlaceOf
  <2> QED BY <1>b, <2>1, <2>2
<1>15. ASSUME NEW t \in Thread, AcquireCollection(t) PROVE ReadInv'
  <2>1. UNCHANGED store /\ \A u \in Thread \ {t} : Still(u)
    BY <1>15, <1>d DEF AcquireCollection, Domains, Still
  <2>2. ReadSound(t)'
    <3>1. pc[t] \in {"enter", "wait"} /\ pc'[t] \in {"wait", "change"}
      BY <1>15, <1>d DEF AcquireCollection, Domains
    <3>2. UNCHANGED <<reads, store, result, locked>>
      BY <1>15 DEF AcquireCollection
    <3> QED BY <1>a, <3>1, <3>2 DEF ReadSound
  <2> QED BY <1>b, <2>1, <2>2
<1>16. ASSUME NEW t \in Thread, CreateOrDestroy(t) PROVE ReadInv'
  <2>1. UNCHANGED store /\ \A u \in Thread \ {t} : Still(u)
    BY <1>16, <1>d DEF CreateOrDestroy, Domains, Still
  <2>2. ReadSound(t)'
    BY <1>16, <1>a, <1>d DEF CreateOrDestroy, Domains, ReadSound, TheLock, PlaceOf
  <2> QED BY <1>b, <2>1, <2>2
<1>17. ASSUME NEW t \in Thread, FinishCollection(t) PROVE ReadInv'
  <2>1. UNCHANGED store /\ \A u \in Thread \ {t} : Still(u)
    BY <1>17, <1>d DEF FinishCollection, Domains, Still
  <2>2. ReadSound(t)'
    BY <1>17, <1>a, <1>d DEF FinishCollection, Domains, ReadSound, TheLock, PlaceOf
  <2> QED BY <1>b, <2>1, <2>2
<1>18. ASSUME NEW t \in Thread, Finish(t) PROVE ReadInv'
  <2>1. UNCHANGED store /\ \A u \in Thread \ {t} : Still(u)
    BY <1>18, <1>d DEF Finish, Domains, Still
  <2>2. ReadSound(t)'
    BY <1>18, <1>a, <1>d DEF Finish, Domains, ReadSound, TheLock, PlaceOf
  <2> QED BY <1>b, <2>1, <2>2
<1>19. ASSUME NEW t \in Thread, Start(t) PROVE ReadInv'
  <2>1. UNCHANGED store /\ \A u \in Thread \ {t} : Still(u)
    BY <1>19, <1>d DEF Start, Domains, Still
  <2>2. ReadSound(t)'
    BY <1>19, <1>a, <1>d DEF Start, Domains, ReadSound, TheLock, PlaceOf
  <2> QED BY <1>b, <2>1, <2>2
<1>20. ASSUME NEW t \in Thread, TransactionOp(t) PROVE ReadInv'
  <2>1. UNCHANGED store /\ \A u \in Thread \ {t} : Still(u)
    BY <1>20, <1>d DEF TransactionOp, Domains, Still
  <2>2. ReadSound(t)'
    BY <1>20, <1>a, <1>d DEF TransactionOp, Domains, ReadSound, TheLock, PlaceOf
  <2> QED BY <1>b, <2>1, <2>2
<1>21. ASSUME NEW t \in Thread, Publish(t) PROVE ReadInv'
  <2>1. \A u \in Thread \ {t} : Still(u)
    BY <1>21, <1>d DEF Publish, Domains, Still
  <2>2. ReadSound(t)'
    BY <1>21, <1>a, <1>d DEF Publish, Domains, ReadSound
  <2>3. ASSUME NEW u \in Thread \ {t}, pc[u] \notin {"publish", "release", "unlock"},
               NEW r \in reads[u]
        PROVE  store'[r[1]] = store[r[1]]
    <3>1. lock[LockOf[r[1]]] = u
      BY <1>a, <2>3 DEF ReadSound, TransactionInv, LockInv, LocksHeld
    <3>2. \A k \in todo[t] : lock[LockOf[PlaceOf(t, k)]] = t
      BY <1>21, PublishLocked DEF Publish, PublishedUnderLock
    <3>3. r[1] \in Place
      BY SMT, <1>t DEF TypeOK
    <3> QED BY <1>21, <1>d, <3>1, <3>2, <3>3 DEF Publish, Domains
  <2>4. ASSUME NEW u \in Thread \ {t} PROVE ReadSound(u)'
    <3>1. CASE pc[u] \in {"publish", "release", "unlock"}
      BY <1>a, <2>1, <3>1 DEF ReadSound, Still
    <3>2. CASE pc[u] \notin {"publish", "release", "unlock"}
      BY <1>a, <2>1, <2>3, <3>2, StillStep
    <3> QED BY <3>1, <3>2
  <2> QED BY <2>2, <2>4 DEF ReadInv
<1>22. ASSUME ExpireCollection \/ CleanCollection \/ UNCHANGED vars PROVE ReadInv'
  <2>1. UNCHANGED store /\ \A u \in Thread : Still(u)
    BY <1>22 DEF ExpireCollection, CleanCollection, vars, Still
  <2> QED BY <1>a, <2>1, StillStep DEF ReadInv
<1> QED
  BY <1>1, <1>2, <1>3, <1>4, <1>5, <1>6, <1>7, <1>8, <1>9, <1>10, <1>11, <1>12, <1>13,
     <1>14, <1>15, <1>16, <1>17, <1>18, <1>19, <1>20, <1>21, <1>22
     DEF Next, Step

----------------------------------------------------------------------------
(***************************************************************************)
(* The abstract store.                                                     *)
(***************************************************************************)

(***************************************************************************)
(* The refinement mapping.  At most one thread is about to publish a place *)
(* and then the place counts as written; a place that a thread has locked  *)
(* and does not publish is as it is stored.                                *)
(***************************************************************************)
IsLate(t, p) == At(t, "publish") /\ p[2] \in todo[t] /\ PlaceOf(t, p[2]) = p

DbInv ==
  \A p \in Place :
    /\ \A t \in Thread :
         IsLate(t, p) => Committed(p) = batch[t][p[2]] /\ lock[LockOf[p]] = t
    /\ (\A t \in Thread : ~IsLate(t, p)) => Committed(p) = store[p]

LEMMA DbHolds == TransactionInv => DbInv
<1> SUFFICES ASSUME TransactionInv, NEW p \in Place
             PROVE  /\ \A t \in Thread : IsLate(t, p) =>
                         Committed(p) = batch[t][p[2]] /\ lock[LockOf[p]] = t
                    /\ (\A t \in Thread : ~IsLate(t, p)) => Committed(p) = store[p]
  BY DEF DbInv
<1> DEFINE late == {u \in Thread : IsLate(u, p)}
<1>1. Committed(p) = IF late = {} THEN store[p] ELSE batch[CHOOSE u \in late : TRUE][p[2]]
  BY DEF Committed, IsLate
<1>2. \A u \in late : lock[LockOf[p]] = u
  BY PublishLocked DEF PublishedUnderLock, IsLate
<1>3. ASSUME NEW t \in Thread, IsLate(t, p) PROVE Committed(p) = batch[t][p[2]]
  <2>1. late = {t} /\ late # {}
    BY <1>2, <1>3
  <2>2. (CHOOSE u \in {t} : TRUE) = t
    OBVIOUS
  <2> HIDE DEF late
  <2> QED BY <1>1, <2>1, <2>2
<1>4. (\A t \in Thread : ~IsLate(t, p)) => late = {}
  OBVIOUS
<1> QED BY <1>1, <1>2, <1>3, <1>4

TxnOf(u) ==
  [state |-> IF pc[u] = "idle" THEN "none" ELSE result[u],
   reads |-> reads[u], writes |-> batch[u]]

\* A step after which nothing else counts as written, or as read or written by u.
SameDb ==
  /\ UNCHANGED store
  /\ \A u \in Thread : pc'[u] = "publish" <=> pc[u] = "publish"
  /\ \A u \in Thread : pc[u] = "publish" =>
       batch'[u] = batch[u] /\ todo'[u] = todo[u] /\ cid'[u] = cid[u]

SameTxn(u) ==
  /\ pc'[u] = "idle" <=> pc[u] = "idle"
  /\ result'[u] = result[u] /\ reads'[u] = reads[u] /\ batch'[u] = batch[u]

LEMMA DbStays ==
  ASSUME TransactionInv, DbInv, DbInv', SameDb
  PROVE  \A p \in Place : Committed(p)' = Committed(p)
<1> SUFFICES ASSUME NEW p \in Place PROVE Committed(p)' = Committed(p)
  OBVIOUS
<1>1. \A u \in Thread : IsLate(u, p)' <=> IsLate(u, p)
  BY DEF SameDb, IsLate, PlaceOf, At
<1>2. CASE \E u \in Thread : IsLate(u, p)
  BY SMT, <1>1, <1>2 DEF DbInv, SameDb, IsLate, At
<1>3. CASE \A u \in Thread : ~IsLate(u, p)
  BY <1>1, <1>3 DEF DbInv, SameDb, Place, UserKey
<1> QED BY <1>2, <1>3

\* The abstract state changes only at c.
LEMMA TxnExcept ==
  ASSUME NEW c \in Thread, \A u \in Thread \ {c} : SameTxn(u)
  PROVE  [u \in Thread |-> TxnOf(u)]' = [[u \in Thread |-> TxnOf(u)] EXCEPT ![c] = TxnOf(c)']
BY DEF SameTxn, TxnOf

LEMMA Stutters ==
  ASSUME TransactionInv, DbInv, DbInv', SameDb, \A u \in Thread : SameTxn(u)
  PROVE  UNCHANGED Store!storeVars
<1>1. \A p \in Place : Committed(p)' = Committed(p)
  BY DbStays
<1>2. \A u \in Thread : TxnOf(u)' = TxnOf(u)
  BY DEF SameTxn, TxnOf
<1> QED BY <1>1, <1>2 DEF Store!storeVars, TxnOf

LEMMA StoreStarts == Init => Store!StoreInit
<1> SUFFICES ASSUME Init PROVE Store!StoreInit
  OBVIOUS
<1>1. \A u \in Thread : TxnOf(u) = Store!NoTxn
  BY DEF Init, TxnOf, Store!NoTxn, NoBatch
<1>2. \A p \in Place : Committed(p) = 0
  BY InitHolds, DbHolds DEF Init, DbInv, IsLate, At
<1> QED BY <1>1, <1>2 DEF Store!StoreInit, TxnOf

LEMMA StoreStep ==
  ASSUME TransactionInv, TypeOK', ReadInv, DbInv, DbInv', [Next]_vars
  PROVE  [Store!StoreNext]_Store!storeVars
<1> USE DEF At, GoTo, cvVars, accVars, collVars, lockVars, dataVars, callVars, loadVars
<1> DEFINE Stutter == SameDb /\ \A u \in Thread : SameTxn(u)
           Txn == [u \in Thread |-> TxnOf(u)]
           Goal == [Store!StoreNext]_Store!storeVars
<1>t. TypeOK
  BY DEF TransactionInv
<1>d. Domains
  BY <1>t, DomainsOK
<1>a. \A u \in Thread : ReadSound(u)
  BY DEF ReadInv
<1>b. Stutter => Goal
  BY Stutters
<1>1. ASSUME NEW t \in Thread, AcquireTransaction(t) PROVE Stutter
  BY <1>1, <1>d DEF AcquireTransaction, Domains, SameDb, SameTxn
<1>2. ASSUME NEW t \in Thread, LookupCollection(t) PROVE Stutter
  BY <1>2, <1>d DEF LookupCollection, Domains, SameDb, SameTxn
<1>3. ASSUME NEW t \in Thread, LockTimeout(t) PROVE Stutter
  BY <1>3, <1>d DEF LockTimeout, Domains, SameDb, SameTxn
<1>4. ASSUME NEW t \in Thread, GetAccess(t) PROVE Stutter
  BY <1>4, <1>d DEF GetAccess, Doze, TakeAccess, Domains, SameDb, SameTxn
<1>5. ASSUME NEW t \in Thread, Commit(t) PROVE Stutter
  BY <1>5, <1>d DEF Commit, Domains, SameDb, SameTxn
<1>6. ASSUME NEW t \in Thread, Rollback(t) PROVE Stutter
  BY <1>6, <1>d DEF Rollback, Domains, SameDb, SameTxn
<1>7. ASSUME NEW t \in Thread, AcquireAccessThread(t) PROVE Stutter
  BY <1>7, <1>d DEF AcquireAccessThread, Doze, TakeAccess, IsManager, Domains, SameDb, SameTxn
<1>8. ASSUME NEW t \in Thread, RangeLock(t) PROVE Stutter
  BY <1>8, <1>d DEF RangeLock, Domains, SameDb, SameTxn
<1>9. ASSUME NEW t \in Thread, BatchReturn(t) PROVE Stutter
  BY <1>9, <1>d DEF BatchReturn, Domains, SameDb, SameTxn
<1>10. ASSUME NEW t \in Thread, LockName(t) PROVE Stutter
  BY <1>10, <1>d DEF LockName, Domains, SameDb, SameTxn
<1>11. ASSUME NEW t \in Thread, AcquireCollection(t) PROVE Stutter
  BY <1>11, <1>d DEF AcquireCollection, Domains, SameDb, SameTxn
<1>12. ASSUME NEW t \in Thread, CreateOrDestroy(t) PROVE Stutter
  BY <1>12, <1>d DEF CreateOrDestroy, Domains, SameDb, SameTxn
<1>13. ASSUME NEW t \in Thread, FinishCollection(t) PROVE Stutter
  BY <1>13, <1>d DEF FinishCollection, Domains, SameDb, SameTxn
<1>14. ASSUME NEW t \in Thread, TransactionOp(t) PROVE Stutter
  BY <1>14, <1>d DEF TransactionOp, Domains, SameDb, SameTxn
<1>15. ASSUME ExpireCollection \/ CleanCollection \/ UNCHANGED vars PROVE Stutter
  BY <1>15 DEF ExpireCollection, CleanCollection, vars, SameDb, SameTxn
<1>16. ASSUME NEW t \in Thread, Start(t) PROVE Store!Begin(t)
  <2>1. SameDb /\ \A u \in Thread \ {t} : SameTxn(u)
    BY <1>16, <1>d DEF Start, Domains, SameDb, SameTxn
  <2>2. /\ TxnOf(t).state = "none"
        /\ TxnOf(t)' = [state |-> "open", reads |-> {}, writes |-> batch'[t]]
    <3>1. pc[t] = "idle" /\ pc'[t] # "idle" /\ UNCHANGED <<reads, result>>
      BY <1>16, <1>d DEF Start, Domains
    <3>2. reads[t] = {} /\ result[t] = "open"
      BY <1>a, <3>1 DEF ReadSound
    <3> QED BY <3>1, <3>2 DEF TxnOf
  <2>3. \A p \in Place : Committed(p)' = Committed(p)
    BY <2>1, DbStays
  <2>4. DOMAIN batch'[t] \subseteq UserKey /\ \A k \in DOMAIN batch'[t] : batch'[t][k] \in Nat
    BY DEF TypeOK
  <2>5. Txn' = [Txn EXCEPT ![t] = TxnOf(t)']
    BY <2>1, TxnExcept
  <2> QED BY <2>2, <2>3, <2>4, <2>5 DEF Store!Begin, Store!NoTxn, Store!IsWrites, TxnOf
<1>17. ASSUME NEW t \in Thread, Finish(t) PROVE Store!End(t)
  <2>1. SameDb /\ \A u \in Thread \ {t} : SameTxn(u)
    BY <1>17, <1>d DEF Finish, Domains, SameDb, SameTxn
  <2>2. TxnOf(t)' = Store!NoTxn
    BY <1>17, <1>d DEF Finish, Domains, TxnOf, Store!NoTxn, NoBatch
  <2>3. \A p \in Place : Committed(p)' = Committed(p)
    BY <2>1, DbStays
  <2>4. Txn' = [Txn EXCEPT ![t] = TxnOf(t)']
    BY <2>1, TxnExcept
  <2> QED BY <2>2, <2>3, <2>4 DEF Store!End, TxnOf
<1>18. ASSUME NEW t \in Thread, FindCollections(t) PROVE Stutter \/ Store!Fail(t)
  <2>1. SameDb /\ \A u \in Thread \ {t} : SameTxn(u)
    BY <1>18, <1>d DEF FindCollections, Domains, SameDb, SameTxn
  <2>2. CASE result' = result
    BY <1>18, <1>d, <2>1, <2>2 DEF FindCollections, Domains, SameTxn
  <2>3. CASE result' # result
    <3>1. TxnOf(t).state = "open" /\ TxnOf(t)' = [TxnOf(t) EXCEPT !.state = "failed"]
      <4>1. /\ pc[t] = "find" /\ pc'[t] # "idle" /\ UNCHANGED <<reads, batch>>
            /\ result'[t] = "failed"
        BY <1>18, <1>d, <2>3 DEF FindCollections, Domains
      <4>2. result[t] = "open"
        BY <1>a, <4>1 DEF ReadSound
      <4> QED BY SMT, <4>1, <4>2 DEF TxnOf
    <3>2. \A p \in Place : Committed(p)' = Committed(p)
      BY <2>1, DbStays
    <3>3. Txn' = [Txn EXCEPT ![t] = TxnOf(t)']
      BY <2>1, TxnExcept
    <3>4. Txn' = [Txn EXCEPT ![t].state = "failed"] /\ Txn[t].state = "open"
      BY <3>1, <3>3
    <3> QED BY <3>2, <3>4 DEF Store!Fail, TxnOf
  <2> QED BY <2>2, <2>3
<1>19. ASSUME NEW t \in Thread, TryLock(t) PROVE Stutter \/ Store!Write(t)
  <2>1. SameDb /\ \A u \in Thread \ {t} : SameTxn(u)
    BY <1>19, <1>d DEF TryLock, Domains, SameDb, SameTxn
  <2>2. /\ TxnOf(t).state = "open"
        /\ TxnOf(t)' = [TxnOf(t) EXCEPT !.writes = batch'[t]]
    <3>1. pc[t] = "lock" /\ pc'[t] # "idle" /\ UNCHANGED <<reads, result>>
      BY <1>19, <1>d DEF TryLock, Domains
    <3>2. result[t] = "open"
      BY <1>a, <3>1 DEF ReadSound
    <3> QED BY SMT, <3>1, <3>2 DEF TxnOf
  <2>3. \A p \in Place : Committed(p)' = Committed(p)
    BY <2>1, DbStays
  <2>4. DOMAIN batch'[t] \subseteq UserKey /\ \A k \in DOMAIN batch'[t] : batch'[t][k] \in Nat
    BY DEF TypeOK
  <2>5. Txn' = [Txn EXCEPT ![t] = TxnOf(t)']
    BY <2>1, TxnExcept
  <2> QED BY <2>2, <2>3, <2>4, <2>5 DEF Store!Write, Store!IsWrites, TxnOf
<1>20. ASSUME NEW t \in Thread, GetValue(t) PROVE Store!Read(t)
  <2> DEFINE p == PlaceOf(t, key[t])
  <2>1. SameDb /\ \A u \in Thread \ {t} : SameTxn(u)
    BY <1>20, <1>d DEF GetValue, Domains, SameDb, SameTxn
  <2>2. p \in Place /\ lock[LockOf[p]] = t
    BY <1>20, <1>a, <1>t, PlaceType
       DEF GetValue, ReadSound, TheLock, TransactionInv, LockInv, LocksHeld, OpSound
  <2>3. Committed(p) = store[p]
    BY SMT, <1>20, <2>2 DEF DbInv, IsLate, GetValue
  <2>4. /\ TxnOf(t).state = "open"
        /\ TxnOf(t)' = [TxnOf(t) EXCEPT !.reads = @ \union {<<p, Committed(p)>>}]
    <3>1. /\ pc[t] = "get" /\ pc'[t] # "idle" /\ UNCHANGED <<batch, result>>
          /\ reads'[t] = reads[t] \union {<<p, Committed(p)>>}
      BY <1>20, <1>d, <2>3 DEF GetValue, Domains
    <3>2. result[t] = "open"
      BY <1>a, <3>1 DEF ReadSound
    <3> QED BY SMT, <3>1, <3>2 DEF TxnOf
  <2>5. \A q \in Place : Committed(q)' = Committed(q)
    BY <2>1, DbStays
  <2>6. Txn' = [Txn EXCEPT ![t] = TxnOf(t)']
    BY <2>1, TxnExcept
  <2>7. TxnOf(t)'.reads = TxnOf(t).reads \union {<<p, Committed(p)>>}
    BY SMT, <2>4 DEF TxnOf
  <2>8. /\ Txn'[t].reads = Txn[t].reads \union {<<p, [q \in Place |-> Committed(q)][p]>>}
        /\ Txn[t].state = "open"
    <3> HIDE DEF p
    <3> QED BY <2>2, <2>4, <2>6, <2>7
  <2>9. Txn' = [Txn EXCEPT ![t].reads = Txn'[t].reads]
    <3> HIDE DEF p
    <3>1. TxnOf(t)' = [TxnOf(t) EXCEPT !.reads = TxnOf(t)'.reads]
      BY <2>4, <2>7
    <3>2. Txn'[t] = TxnOf(t)' /\ Txn[t] = TxnOf(t)
      OBVIOUS
    <3> QED BY <2>6, <3>1, <3>2
  <2> HIDE DEF p
  <2> QED BY <2>2, <2>5, <2>8, <2>9 DEF Store!Read, TxnOf
<1>21. ASSUME NEW t \in Thread, WriteBatch(t) PROVE Store!TakeEffect(t) \/ Store!Fail(t)
  <2>1. /\ pc[t] = "range" /\ result[t] = "open" /\ todo[t] = DOMAIN batch[t]
        /\ \A u \in Thread \ {t} : SameTxn(u) /\ pc'[u] = pc[u]
        /\ UNCHANGED <<store, batch, todo, cid, reads, lock>>
    BY <1>21, <1>a, <1>d DEF WriteBatch, Domains, SameTxn, ReadSound
  <2>2. Txn' = [Txn EXCEPT ![t] = TxnOf(t)']
    BY <2>1, TxnExcept
  <2>3. CASE pc'[t] = "release"
    <3>1. TxnOf(t).state = "open" /\ TxnOf(t)' = [TxnOf(t) EXCEPT !.state = "failed"]
      BY SMT, <1>21, <1>d, <2>1, <2>3 DEF WriteBatch, Domains, TxnOf
    <3>2. \A p \in Place : Committed(p)' = Committed(p)
      BY <2>1, <2>3, DbStays DEF SameDb
    <3>3. Txn' = [Txn EXCEPT ![t].state = "failed"] /\ Txn[t].state = "open"
      BY <2>2, <3>1
    <3> QED BY <3>2, <3>3 DEF Store!Fail, TxnOf
  <2>4. CASE pc'[t] = "publish"
    <3>1. TxnOf(t).state = "open" /\ TxnOf(t)' = [TxnOf(t) EXCEPT !.state = "done"]
      BY SMT, <1>21, <1>d, <2>1, <2>4 DEF WriteBatch, Domains, TxnOf
    <3>2. ASSUME NEW r \in reads[t] PROVE Committed(r[1]) = r[2]
      <4>1. r[1] \in Place /\ lock[LockOf[r[1]]] = t /\ store[r[1]] = r[2]
        <5>1. LockOf[r[1]] \in locked[t] /\ store[r[1]] = r[2]
          BY <1>a, <2>1, <3>2 DEF ReadSound
        <5>2. r[1] \in Place
          BY SMT, <1>t, <3>2 DEF TypeOK
        <5> QED BY <5>1, <5>2 DEF TransactionInv, LockInv, LocksHeld
      <4>2. \A u \in Thread : ~IsLate(u, r[1])
        BY <2>1, <4>1 DEF DbInv, IsLate
      <4> QED BY <4>1, <4>2 DEF DbInv
    <3>3. ASSUME NEW p \in Place
          PROVE  /\ IsLate(t, p)' => Committed(p)' = batch[t][p[2]]
                 /\ ~IsLate(t, p)' => Committed(p)' = Committed(p)
      <4>1. \A u \in Thread \ {t} : IsLate(u, p)' <=> IsLate(u, p)
        BY <2>1 DEF IsLate, PlaceOf
      <4>2. ~IsLate(t, p)
        BY <2>1 DEF IsLate
      <4>3. CASE IsLate(t, p)'
        BY <2>1, <4>3 DEF DbInv
      <4>4. CASE ~IsLate(t, p)' /\ \E u \in Thread : IsLate(u, p)
        BY SMT, <2>1, <4>1, <4>2, <4>4 DEF DbInv
      <4>5. CASE ~IsLate(t, p)' /\ \A u \in Thread : ~IsLate(u, p)
        BY SMT, <2>1, <4>1, <4>5 DEF DbInv
      <4> QED BY <4>3, <4>4, <4>5
    <3>4. ASSUME NEW p \in Place
          PROVE  IsLate(t, p)' <=> p[2] \in DOMAIN batch[t] /\ p[1] \in {0, cid[t]}
      <4>1. IsLate(t, p)' <=> p[2] \in DOMAIN batch[t] /\ PlaceOf(t, p[2]) = p
        BY <2>1, <2>4 DEF IsLate, PlaceOf
      <4>2. PlaceOf(t, p[2]) = p <=> p[1] \in {0, cid[t]}
        BY SMT, <1>d, TransactionAssumption DEF PlaceOf, Place, Id, Domains
      <4> QED BY <4>1, <4>2
    <3>5. \A p \in Place : Committed(p)' =
             IF p[1] \in {0, cid[t]} /\ p[2] \in DOMAIN batch[t] THEN batch[t][p[2]]
             ELSE Committed(p)
      BY <3>3, <3>4
    <3>6. PICK n \in {0} \union {p[1] : p \in Place} :
             \A p \in Place : p[1] \in {0, n} <=> p[1] \in {0, cid[t]}
      <4>1. CASE \E p \in Place : p[1] = cid[t]
        BY <4>1
      <4>2. CASE \A p \in Place : p[1] # cid[t]
        BY <4>2
      <4> QED BY <4>1, <4>2
    <3>7. \A p \in Place : Committed(p)' =
             IF p[1] \in {0, n} /\ p[2] \in DOMAIN batch[t] THEN batch[t][p[2]]
             ELSE Committed(p)
      BY <3>5, <3>6
    <3>8. TxnOf(t).reads = reads[t] /\ TxnOf(t).writes = batch[t]
      BY DEF TxnOf
    <3>9. Txn' = [Txn EXCEPT ![t].state = "done"]
      BY <2>2, <3>1
    <3>10. [p \in Place |-> Committed(p)]' = [p \in Place |->
              IF p[1] \in {0, n} /\ p[2] \in DOMAIN Txn[t].writes THEN Txn[t].writes[p[2]]
              ELSE [q \in Place |-> Committed(q)][p]]
      BY <3>7, <3>8
    <3>11. \A r \in Txn[t].reads : [p \in Place |-> Committed(p)][r[1]] = r[2]
      <4>1. \A r \in reads[t] : r[1] \in Place
        BY SMT, <1>t DEF TypeOK
      <4> QED BY <3>2, <3>8, <4>1
    <3> QED BY <3>1, <3>6, <3>9, <3>10, <3>11 DEF Store!TakeEffect, TxnOf
  <2> QED BY <1>21, <1>d, <2>3, <2>4 DEF WriteBatch, Domains
<1>22. ASSUME NEW t \in Thread, Publish(t) PROVE UNCHANGED Store!storeVars
  <2>1. /\ pc[t] = "publish" /\ pc'[t] \in {"publish", "release"}
        /\ \A u \in Thread \ {t} : pc'[u] = pc[u] /\ todo'[u] = todo[u]
        /\ UNCHANGED <<batch, cid, reads, result, lock>>
    BY <1>22, <1>d DEF Publish, Domains
  <2>2. \A u \in Thread : TxnOf(u)' = TxnOf(u)
    BY <2>1 DEF TxnOf
  <2>3. ASSUME NEW p \in Place PROVE Committed(p)' = Committed(p)
    <3>1. \A u \in Thread \ {t} : IsLate(u, p)' <=> IsLate(u, p)
      BY <2>1 DEF IsLate, PlaceOf
    <3>2. CASE todo[t] = {}
      <4>1. ~IsLate(t, p) /\ ~IsLate(t, p)' /\ store' = store
        BY <1>22, <1>a, <3>2 DEF Publish, IsLate
      <4>2. CASE \E u \in Thread : IsLate(u, p)
        <5>1. PICK u \in Thread : IsLate(u, p) /\ IsLate(u, p)'
          BY <3>1, <4>1, <4>2
        <5> QED BY SMT, <2>1, <5>1 DEF DbInv
      <4>3. CASE \A u \in Thread : ~IsLate(u, p)
        BY SMT, <3>1, <4>1, <4>3 DEF DbInv
      <4> QED BY <4>2, <4>3
    <3>3. CASE todo[t] # {}
      <4>1. PICK k \in todo[t] : /\ store' = [store EXCEPT ![PlaceOf(t, k)] = batch[t][k]]
                                 /\ todo'[t] = todo[t] \ {k} /\ pc' = pc
        BY <1>22, <1>d, <3>3 DEF Publish, Domains
      <4>2. IsLate(t, p)' <=> IsLate(t, p) /\ p[2] # k
        BY <2>1, <4>1 DEF IsLate, PlaceOf
      <4>3. CASE p = PlaceOf(t, k)
        <5>1. IsLate(t, p) /\ p[2] = k
          BY <2>1, <4>1, <4>3 DEF IsLate, PlaceOf
        <5>2. \A u \in Thread : ~IsLate(u, p)'
          BY SMT, <3>1, <4>2, <5>1 DEF DbInv
        <5>3. Committed(p)' = store'[p] /\ Committed(p) = batch[t][k]
          BY <5>1, <5>2 DEF DbInv
        <5> QED BY <1>d, <4>1, <4>3, <5>3 DEF Domains
      <4>4. CASE p # PlaceOf(t, k)
        <5>1. store'[p] = store[p] /\ (IsLate(t, p)' <=> IsLate(t, p))
          BY <1>d, <4>1, <4>2, <4>4 DEF IsLate, Domains
        <5>2. CASE \E u \in Thread : IsLate(u, p)
          <6>1. PICK u \in Thread : IsLate(u, p) /\ IsLate(u, p)'
            BY <3>1, <5>1, <5>2
          <6> QED BY SMT, <2>1, <6>1 DEF DbInv
        <5>3. CASE \A u \in Thread : ~IsLate(u, p)
          BY SMT, <3>1, <5>1, <5>3 DEF DbInv
        <5> QED BY <5>2, <5>3
      <4> QED BY <4>3, <4>4
    <3> QED BY <3>2, <3>3
  <2> QED BY <2>2, <2>3 DEF Store!storeVars, TxnOf
<1> HIDE DEF Stutter
<1> QED
  BY <1>b, <1>1, <1>2, <1>3, <1>4, <1>5, <1>6, <1>7, <1>8, <1>9, <1>10, <1>11, <1>12, <1>13,
     <1>14, <1>15, <1>16, <1>17, <1>18, <1>19, <1>20, <1>21, <1>22
     DEF Next, Step, Store!StoreNext

LEMMA FullInvariance == Spec => [](TransactionInv /\ ReadInv)
<1>1. Init => ReadInv
  BY DEF Init, ReadInv, ReadSound
<1>2. ReadInv /\ TransactionInv /\ [Next]_vars => ReadInv'
  BY ReadStep
<1> QED BY Invariance, <1>1, <1>2, PTL DEF Spec

(***************************************************************************)
(* Transactions, batches and single writes are serializable, in any number *)
(* and whatever locks the keys share: a call takes effect at the moment    *)
(* its batch is marked as committed, and what it has read holds then.      *)
(***************************************************************************)
THEOREM TransactionsSerializable == Spec => Serializable
<1>1. TransactionInv /\ TypeOK' /\ ReadInv /\ DbInv /\ DbInv' /\ [Next]_vars
        => [Store!StoreNext]_Store!storeVars
  BY StoreStep
<1>2. TransactionInv => TypeOK
  BY DEF TransactionInv
<1> QED
  BY FullInvariance, StoreStarts, DbHolds, <1>1, <1>2, PTL
     DEF Spec, Serializable, Store!SerializableSpec
=============================================================================
