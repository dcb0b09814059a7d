-------------------------- MODULE BatchWriteProofs --------------------------
(***************************************************************************)
(* Proofs about BatchWrite, second part: every step keeps BatchInv, and    *)
(* no space of PMem is lost or used twice.                                 *)
(***************************************************************************)
EXTENDS BatchWriteInvProofs

USE Zenon

(***************************************************************************)
(* Every step keeps BatchInv.                                              *)
(***************************************************************************)
LEMMA CallPreserves ==
  ASSUME BatchInv, NEW t \in Thread, Call(t)
  PROVE  BatchInv'
<1>0. /\ StoreType /\ ThreadType /\ StampsLeft /\ LockInv /\ CallInv(t)
      /\ \A u \in Thread : CallInv(u)
  BY BatchParts
<1>1. StoreType' /\ ThreadType'
  BY <1>0, CallType
<1>2. PICK c \in CallsOf[t] : /\ kind' = [kind EXCEPT ![t] = c.kind]
                              /\ ops' = [ops EXCEPT ![t] = c.ops]
                              /\ todo' = [todo EXCEPT ![t] = DOMAIN c.ops]
  BY DEF Call
<1>3. /\ access' = [access EXCEPT ![SlotOf[t]] = t] /\ pc' = [pc EXCEPT ![t] = "lock"]
      /\ lock' = lock /\ ts' = ts /\ space' = space /\ pc[t] = "idle" /\ mode = "up"
      /\ clock + Cardinality(Unstamped) < MaxTs /\ access[SlotOf[t]] = None
      /\ UNCHANGED <<pmemVars, storeVars, clock, recVars, crashes>>
  BY DEF Call, GoTo, At
<1>4. /\ Others(t) /\ pc'[t] = "lock" /\ kind'[t] = c.kind /\ ops'[t] = c.ops
      /\ todo'[t] = DOMAIN c.ops
  BY <1>0, <1>2, <1>3 DEF Others, Kept, ThreadType
<1>5. StampsLeft'
  <2>1. Unstamped' = Unstamped \cup {t} /\ t \notin Unstamped
    BY <1>3, <1>4 DEF Unstamped, Others, Kept
  <2>2. IsFiniteSet(Unstamped)
    BY <1>0 DEF StampsLeft
  <2>3. /\ IsFiniteSet(Unstamped') /\ Cardinality(Unstamped') = Cardinality(Unstamped) + 1
        /\ Cardinality(Unstamped) \in Nat
    BY <2>1, <2>2, FS_AddElement, FS_CardinalityType
  <2>4. clock + Cardinality(Unstamped') <= MaxTs
    BY SMT, <1>0, <1>3, <2>3, BatchAssumption DEF StoreType, Timestamp
  <2> QED
    BY <1>3, <2>3, <2>4 DEF StampsLeft
<1>6. LockInv'
  <2>1. SlotOf[t] \in Slot /\ None \notin Thread
    BY BatchAssumption
  <2>2. ASSUME NEW u \in Thread, pc'[u] # "idle" PROVE mode' = "up" /\ access'[SlotOf[u]] = u
    BY SMT, <1>0, <1>3, <1>4, <2>1, <2>2 DEF LockInv, Others, Kept, ThreadType, recVars
  <2>3. ASSUME NEW u \in Thread, NEW k \in Key, HasLocked(u, k)' PROVE lock'[k] = u
    BY <1>0, <1>3, <1>4, <2>3 DEF LockInv, Others, Kept, HasLocked, Keys
  <2> QED
    BY <2>2, <2>3 DEF LockInv
<1>7. CallInv(t)'
  <2>1. c.kind = "single" => \E k \in Key : DOMAIN c.ops = {k}
    <3>1. c \in Calls
      BY BatchAssumption
    <3>2. c.ops \in Batches /\ (c.kind = "single" => Cardinality(DOMAIN c.ops) = 1)
      BY <3>1 DEF Calls
    <3>3. DOMAIN c.ops \subseteq Key
      BY <3>2, OpsType
    <3>4. IsFiniteSet(Key)
      BY SMT, BatchAssumption, FS_Interval DEF Key
    <3>5. IsFiniteSet(DOMAIN c.ops)
      BY <3>3, <3>4, FS_Subset
    <3> QED
      BY <3>2, <3>3, <3>5, FS_Singleton
  <2>2. DOMAIN space'[t] = {}
    BY <1>0, <1>3 DEF CallInv
  <2> QED
    BY <1>4, <2>1, <2>2 DEF CallInv, Keys
<1>8. ~Processing(t) /\ ~Processing(t)' /\ ~Stamped(t)' /\ DOMAIN space[t] = {}
  BY <1>0, <1>3, <1>4 DEF Processing, Stamped, CallInv
<1>9. clock <= clock'
  BY SMT, <1>0, <1>3 DEF StoreType, Timestamp
<1> QED
  BY <1>1, <1>3, <1>4, <1>5, <1>6, <1>7, <1>8, <1>9, CallOnlyStep

LEMMA RangeLockPreserves ==
  ASSUME BatchInv, NEW t \in Thread, RangeLock(t)
  PROVE  BatchInv'
<1>0. StoreType /\ ThreadType /\ StampsLeft /\ LockInv /\ CallInv(t)
  BY BatchParts
<1>1. StoreType' /\ ThreadType'
  BY <1>0, RangeLockType
<1>2. PICK k : k = Min(todo[t])
  OBVIOUS
<1>3. /\ lock' = [lock EXCEPT ![k] = t] /\ todo' = [todo EXCEPT ![t] = @ \ {k}]
      /\ pc' = [pc EXCEPT ![t] = IF todo[t] = {k} THEN "stamp" ELSE "lock"]
      /\ lock[k] = None /\ pc[t] = "lock" /\ mode = "up"
      /\ UNCHANGED <<pmemVars, storeVars, access, clock, recVars, kind, ops, ts, space, crashes>>
  BY <1>2 DEF RangeLock, GoTo, At
<1>4. /\ Others(t) /\ pc'[t] = (IF todo[t] = {k} THEN "stamp" ELSE "lock") /\ kind'[t] = kind[t]
      /\ ops'[t] = ops[t] /\ todo'[t] = todo[t] \ {k} /\ space'[t] = space[t]
  BY <1>0, <1>3 DEF Others, Kept, ThreadType
<1>5. StampsLeft'
  BY <1>0, <1>3, <1>4, StampsKept DEF Others, Kept
<1>6. LockInv'
  <2>2. ASSUME NEW u \in Thread, pc'[u] # "idle" PROVE mode' = "up" /\ access'[SlotOf[u]] = u
    BY <1>0, <1>3, <1>4, <2>2 DEF LockInv, Others, Kept, recVars
  <2>3. ASSUME NEW u \in Thread, NEW j \in Key, HasLocked(u, j)' PROVE lock'[j] = u
    <3>1. CASE u = t
      BY <1>0, <1>3, <1>4, <2>3, <3>1 DEF LockInv, HasLocked, Keys, ThreadType
    <3>2. CASE u # t
      <4>1. HasLocked(u, j)
        BY <1>4, <2>3, <3>2 DEF Others, Kept, HasLocked, Keys
      <4>2. lock[j] = u /\ u # None
        BY <1>0, <4>1, BatchAssumption DEF LockInv
      <4> QED
        BY <1>0, <1>3, <4>2 DEF ThreadType
    <3> QED
      BY <3>1, <3>2
  <2> QED
    BY <2>2, <2>3 DEF LockInv
<1>7. CallInv(t)'
  BY SMT, <1>0, <1>3, <1>4 DEF CallInv, Keys
<1>8. ~Processing(t) /\ ~Processing(t)' /\ ~Stamped(t)' /\ DOMAIN space[t] = {}
  BY SMT, <1>0, <1>3, <1>4 DEF Processing, Stamped, CallInv
<1>9. clock <= clock'
  BY SMT, <1>0, <1>3 DEF StoreType, Timestamp
<1> QED
  BY SMT, <1>1, <1>3, <1>4, <1>5, <1>6, <1>7, <1>8, <1>9, CallOnlyStep

LEMMA GetTimestampPreserves ==
  ASSUME BatchInv, NEW t \in Thread, GetTimestamp(t)
  PROVE  BatchInv'
<1>0. StoreType /\ ThreadType /\ StampsLeft /\ LockInv /\ CallInv(t) /\ RecordInv
  BY BatchParts
<1>1. StoreType' /\ ThreadType' /\ clock + 1 \in Timestamp
  BY <1>0, GetTimestampType
<1>2. /\ pc[t] = "stamp" /\ clock' = clock + 1 /\ mode = "up"
      /\ ts' = [ts EXCEPT ![t] = clock + 1] /\ todo' = [todo EXCEPT ![t] = Keys(t)]
      /\ pc' = [pc EXCEPT ![t] = "prepare"]
      /\ UNCHANGED <<pmemVars, storeVars, lockVars, recVars, kind, ops, space, crashes>>
  BY DEF GetTimestamp, At, GoTo
<1>3. /\ Others(t) /\ pc'[t] = "prepare" /\ kind'[t] = kind[t] /\ ops'[t] = ops[t]
      /\ todo'[t] = Keys(t) /\ space'[t] = space[t] /\ ts'[t] = clock + 1
  BY <1>0, <1>2 DEF Others, Kept, ThreadType
<1>4. clock \in Nat /\ clock <= clock'
  BY SMT, <1>0, <1>2 DEF StoreType, Timestamp
<1>5. StampsLeft'
  <2>1. Unstamped' = Unstamped \ {t} /\ t \in Unstamped
    BY <1>2, <1>3 DEF Unstamped, Others, Kept
  <2>2. IsFiniteSet(Unstamped) /\ clock + Cardinality(Unstamped) <= MaxTs
    BY <1>0 DEF StampsLeft
  <2>3. /\ IsFiniteSet(Unstamped') /\ Cardinality(Unstamped') = Cardinality(Unstamped) - 1
        /\ Cardinality(Unstamped) \in Nat
    BY <2>1, <2>2, FS_RemoveElement, FS_CardinalityType
  <2> QED
    BY SMT, <1>2, <1>4, <2>2, <2>3, BatchAssumption DEF StampsLeft
<1>6. LockInv'
  BY <1>0, <1>2, <1>3, LockKept DEF lockVars, recVars
<1>7. CallInv(t)'
  BY <1>0, <1>2, <1>3 DEF CallInv, Keys
<1>8. ~Processing(t) /\ ~Processing(t)' /\ DOMAIN space[t] = {}
  BY <1>0, <1>2, <1>3 DEF Processing, CallInv
<1>9. StampOf(t)'
  <2>1. ts'[t] \in 1 .. clock'
    BY SMT, <1>2, <1>3, <1>4
  <2>2. \A n \in Offset : Live(n)' => pm'[n].ts < ts'[t]
    BY SMT, <1>0, <1>2, <1>3, <1>4 DEF RecordInv, Live, pmemVars, StoreType, PmType, Timestamp
  <2>3. \A k \in Key : ~Nothing(t, k)'
    BY <1>3 DEF Nothing, Keys
  <2> QED
    BY <1>3, <1>8, <2>1, <2>2, <2>3 DEF StampOf
<1> QED
  BY <1>1, <1>2, <1>3, <1>4, <1>5, <1>6, <1>7, <1>8, <1>9, CallOnlyStep

LEMMA PrepareNothingPreserves ==
  ASSUME BatchInv, NEW t \in Thread, PrepareNothing(t)
  PROVE  BatchInv'
<1>0. StoreType /\ ThreadType /\ StampsLeft /\ LockInv /\ CallInv(t) /\ StampInv
  BY BatchParts
<1>1. StoreType' /\ ThreadType'
  BY <1>0, PrepareNothingType
<1>2. PICK k \in todo[t] :
        /\ ops[t][k] = "Delete" /\ ~HasValue(k)
        /\ todo' = [todo EXCEPT ![t] = @ \ {k}]
        /\ pc' = [pc EXCEPT ![t] = IF kind[t] = "single" THEN "release"
                                   ELSE IF todo[t] = {k} THEN "encode" ELSE "prepare"]
  BY DEF PrepareNothing, GoTo
<1>3. /\ pc[t] = "prepare" /\ mode = "up"
      /\ UNCHANGED <<pmemVars, storeVars, lockVars, clock, recVars, kind, ops, ts, space, crashes>>
  BY DEF PrepareNothing, At
<1>4. /\ Others(t) /\ kind'[t] = kind[t] /\ ops'[t] = ops[t] /\ ts'[t] = ts[t]
      /\ todo'[t] = todo[t] \ {k} /\ space'[t] = space[t] /\ kind[t] \in {"single", "batch"}
      /\ pc'[t] = IF kind[t] = "single" THEN "release"
                  ELSE IF todo[t] = {k} THEN "encode" ELSE "prepare"
  BY <1>0, <1>2, <1>3 DEF Others, Kept, ThreadType
<1>5. StampsLeft'
  BY <1>0, <1>3, <1>4, StampsKept DEF Others, Kept
<1>6. LockInv'
  BY <1>0, <1>3, <1>4, LockKept DEF lockVars, recVars
<1>7. CallInv(t)'
  <2>1. kind[t] = "single" => DOMAIN space[t] = {}
    BY <1>0, <1>3 DEF CallInv, ThreadType
  <2> QED
    BY <1>0, <1>3, <1>4, <2>1 DEF CallInv, Keys
<1>8. ~Processing(t) /\ ~Processing(t)' /\ \A j \in DOMAIN space[t] : ~Written(t, j) /\ ~Written(t, j)'
  BY <1>3, <1>4 DEF Processing, Written
<1>9. ASSUME Stamped(t)' PROVE StampOf(t)'
  <2>1. StampOf(t) /\ UNCHANGED <<pm, index, clock>>
    BY <1>0, <1>3 DEF StampInv, Stamped, pmemVars, storeVars
  <2>2. ASSUME NEW j \in Key, Nothing(t, j)' PROVE ops'[t][j] = "Delete" /\ ~HasValue(j)'
    <3>1. j = k \/ Nothing(t, j)
      BY <1>3, <1>4, <2>2 DEF Nothing, Keys
    <3> QED
      BY <1>2, <1>4, <2>1, <3>1 DEF StampOf, HasValue
  <2>3. /\ \A j \in Keys(t)' : \A n \in Offset : Live(n)' /\ pm'[n].key = j => pm'[n].ts < ts'[t]
        /\ \A j \in DOMAIN space'[t] : ~Written(t, j)' /\ ts'[t] \in 1 .. clock'
        /\ ts'[t] \in 1 .. clock'
    BY <1>3, <1>4, <2>1 DEF StampOf, Live, Written, Keys
  <2> QED
    BY <2>2, <2>3 DEF StampOf
<1>10. clock <= clock' /\ pc'[t] # "process"
  BY SMT, <1>0, <1>3, <1>4 DEF StoreType, Timestamp
<1> QED
  BY <1>1, <1>3, <1>4, <1>5, <1>6, <1>7, <1>8, <1>9, <1>10, CallOnlyStep

LEMMA ReturnPreserves ==
  ASSUME BatchInv, NEW t \in Thread, Return(t)
  PROVE  BatchInv'
<1>0. StoreType /\ ThreadType /\ StampsLeft /\ LockInv /\ CallInv(t)
  BY BatchParts
<1>1. StoreType' /\ ThreadType'
  BY <1>0, ReturnType
<1>2. /\ lock' = [k \in Key |-> IF lock[k] = t THEN None ELSE lock[k]]
      /\ access' = [s \in Slot |-> IF access[s] = t THEN None ELSE access[s]]
      /\ ops' = [ops EXCEPT ![t] = NoOps] /\ todo' = [todo EXCEPT ![t] = {}]
      /\ ts' = [ts EXCEPT ![t] = 0] /\ pc' = [pc EXCEPT ![t] = "idle"]
      /\ mode = "up" /\ pc[t] \in {"release", "fail"}
      /\ UNCHANGED <<pmemVars, storeVars, clock, recVars, kind, space, crashes>>
  BY DEF Return, GoTo, At
<1>3. Others(t) /\ pc'[t] = "idle" /\ ops'[t] = NoOps /\ todo'[t] = {} /\ space'[t] = space[t]
  BY <1>0, <1>2 DEF Others, Kept, ThreadType
<1>4. StampsLeft'
  BY <1>0, <1>2, <1>3, StampsKept DEF Others, Kept
<1>5. LockInv'
  <2>1. ASSUME NEW u \in Thread, pc'[u] # "idle" PROVE mode' = "up" /\ access'[SlotOf[u]] = u
    <3>1. SlotOf[u] \in Slot
      BY BatchAssumption
    <3> QED
      BY <1>0, <1>2, <1>3, <2>1, <3>1 DEF LockInv, Others, Kept, recVars
  <2>2. ASSUME NEW u \in Thread, NEW k \in Key, HasLocked(u, k)' PROVE lock'[k] = u
    <3>1. u # t /\ HasLocked(u, k)
      BY <1>3, <2>2 DEF Others, Kept, HasLocked, Keys
    <3> QED
      BY <1>0, <1>2, <3>1 DEF LockInv
  <2> QED
    BY <2>1, <2>2 DEF LockInv
<1>6. CallInv(t)' /\ DOMAIN space[t] = {}
  BY <1>0, <1>2, <1>3 DEF CallInv, Keys, NoOps
<1>7. ~Processing(t) /\ ~Processing(t)' /\ ~Stamped(t)'
  BY <1>2, <1>3 DEF Processing, Stamped
<1>8. clock <= clock' /\ pc'[t] # "process"
  BY SMT, <1>0, <1>2, <1>3 DEF StoreType, Timestamp
<1> QED
  BY <1>1, <1>2, <1>3, <1>4, <1>5, <1>6, <1>7, <1>8, CallOnlyStep

LEMMA PreparePreserves ==
  ASSUME BatchInv, NEW t \in Thread, Prepare(t)
  PROVE  BatchInv'
<1>0. /\ StoreType /\ ThreadType /\ StampsLeft /\ LockInv /\ CallInv(t)
      /\ (\A u \in Thread : CallInv(u)) /\ LogInv
      /\ PlaceInv /\ RecordInv /\ ChainInv /\ LooseInv /\ StampInv
  BY BatchParts
<1>1. PICK k \in todo[t], o \in free :
         /\ free' = free \ {o}
         /\ space' = [space EXCEPT ![t] =
                        [j \in DOMAIN @ \cup {k} |-> IF j = k THEN o ELSE @[j]]]
         /\ IF todo[t] = {k}
            THEN GoTo(t, IF kind[t] = "batch" THEN "encode" ELSE "write")
            ELSE UNCHANGED pc
         /\ todo' = [todo EXCEPT ![t] = IF kind[t] = "batch" THEN @ \ {k} ELSE {k}]
  BY DEF Prepare
<1>2. /\ pc[t] = "prepare" /\ mode = "up"
      /\ UNCHANGED <<pmemVars, index, chain, garbage, lockVars, clock, recVars,
                     kind, ops, ts, crashes>>
  BY DEF Prepare, At
<1>3. k \in Keys(t) /\ k \notin DOMAIN space[t]
  BY <1>0, <1>2 DEF CallInv
<1>4. /\ StoreType' /\ ThreadType'
      /\ DOMAIN space'[t] = DOMAIN space[t] \cup {k}
      /\ space'[t][k] = o
      /\ \A j \in DOMAIN space[t] : j # k => space'[t][j] = space[t][j]
      /\ \A u \in Thread : u # t => space'[u] = space[u]
  BY <1>0, <1>1, <1>2, <1>3, PrepareType
<1>5. kind[t] # "batch" => kind[t] = "single" /\ todo[t] = {k} /\ Keys(t) = {k}
  BY SMT, <1>0, <1>2, <1>3 DEF CallInv, ThreadType
<1>6. /\ Others(t) /\ kind'[t] = kind[t] /\ ops'[t] = ops[t] /\ ts'[t] = ts[t]
      /\ todo'[t] = (IF kind[t] = "batch" THEN todo[t] \ {k} ELSE {k})
      /\ pc'[t] = IF todo[t] = {k} THEN IF kind[t] = "batch" THEN "encode" ELSE "write"
                  ELSE "prepare"
  BY SMT, <1>0, <1>1, <1>2, <1>4 DEF Others, Kept, ThreadType, GoTo
<1>7. StampsLeft'
  BY <1>0, <1>2, <1>6, StampsKept DEF Others, Kept
<1>8. LockInv'
  BY <1>0, <1>2, <1>6, LockKept DEF lockVars, recVars
<1>9. \A u \in Thread : CallInv(u)'
  <2>1. CallInv(t)'
    <3>1. CASE todo[t] = {k} /\ kind[t] = "batch"
      BY <1>6, <3>1 DEF CallInv
    <3>2. CASE kind[t] # "batch"
      <4>1. DOMAIN space[t] = {}
        BY <1>0, <1>2, <1>5, <3>2 DEF CallInv, ThreadType
      <4>2. pc'[t] = "write" /\ todo'[t] = {k} /\ DOMAIN space'[t] = {k} /\ Keys(t)' = {k} /\ k \in Key
        BY <1>0, <1>4, <1>5, <1>6, <3>2, <4>1 DEF Keys, ThreadType
      <4> QED
        BY <4>2 DEF CallInv
    <3>3. CASE todo[t] # {k} /\ kind[t] = "batch"
      <4>1. pc'[t] = "prepare" /\ kind'[t] = "batch" /\ todo'[t] = todo[t] \ {k} /\ Keys(t)' = Keys(t)
        BY <1>6, <3>3 DEF Keys
      <4>2. todo[t] \subseteq Keys(t) /\ todo[t] \cap DOMAIN space[t] = {}
        BY <1>0, <1>2 DEF CallInv
      <4> QED
        BY <1>4, <4>1, <4>2 DEF CallInv
    <3> QED
      BY <3>1, <3>2, <3>3
  <2> QED
    BY <1>0, <1>6, <2>1, CallsKept
<1>10. LogInv'
  <2>1. ~Processing(t) /\ ~Processing(t)' /\ pc'[t] # "process"
    BY <1>2, <1>5, <1>6 DEF Processing
  <2> QED
    BY <1>0, <1>2, <1>6, <2>1, LogKept DEF pmemVars, recVars
<1>11. PlaceInv'
  <2>1. ChainPlaces' /\ (free \cap garbage = {})'
    BY <1>0, <1>1, <1>2 DEF PlaceInv, ChainPlaces
  <2>2. /\ o \notin garbage /\ \A j \in Key : o \notin chain[j]
        /\ \A u \in Thread : \A j \in DOMAIN space[u] : space[u][j] # o
    BY <1>0 DEF PlaceInv, ChainPlaces, SpacePlaces
  <2>3. SpacePlaces'
    BY SMT, <1>0, <1>1, <1>2, <1>4, <2>2 DEF PlaceInv, SpacePlaces
  <2>4. Placed'
    BY SMT, <1>0, <1>1, <1>2, <1>3, <1>4 DEF PlaceInv, Placed
  <2>5. DownPlaces'
    BY <1>2 DEF DownPlaces, recVars
  <2> QED
    BY <2>1, <2>3, <2>4, <2>5 DEF PlaceInv
<1>12. pm' = pm /\ index' = index /\ chain' = chain /\ mode' = mode /\ scan' = scan
       /\ newest' = newest /\ clock' = clock
  BY <1>2 DEF pmemVars, recVars
<1>13. RecordInv' /\ ChainInv'
  BY SMT, <1>0, <1>4, <1>12, SamePm, RecordsKept, ChainKept DEF StoreType, Timestamp
<1>14. \A j \in DOMAIN space'[t] : ~Written(t, j)'
  BY <1>4, <1>5, <1>6, <1>0, <1>2 DEF Written, CallInv, ThreadType
<1>15. LooseInv'
  <2>1. \A j \in DOMAIN space'[t] : Loose(space'[t][j])
    BY <1>2, <1>4 DEF Loose, Written
  <2> QED
    BY <1>0, <1>1, <1>2, <1>6, <1>12, <2>1, LooseStep, LooseKept
<1>16. StampOf(t)'
  <2>1. StampOf(t)
    BY <1>0, <1>2 DEF StampInv, Stamped
  <2>2. ASSUME NEW j \in Key, Nothing(t, j)' PROVE ops'[t][j] = "Delete" /\ ~HasValue(j)'
    <3>1. Nothing(t, j)
      <4>1. j \in Keys(t) /\ j # k /\ j \notin DOMAIN space[t] /\ (pc'[t] = "prepare" => j \notin todo'[t])
        BY <1>4, <1>6, <2>2 DEF Nothing, Keys
      <4>2. j \notin todo[t]
        BY SMT, <1>5, <1>6, <4>1
      <4> QED
        BY <1>2, <4>1, <4>2 DEF Nothing
    <3> QED
      BY <1>6, <1>12, <2>1, <3>1 DEF StampOf, HasValue
  <2>3. \A j \in Keys(t)' : \A n \in Offset : Live(n)' /\ pm'[n].key = j => pm'[n].ts < ts'[t]
    BY <1>2, <1>6, <1>12, <2>1 DEF StampOf, Live, Written, Keys
  <2>4. ts'[t] \in 1 .. clock'
    BY <1>6, <1>12, <2>1 DEF StampOf
  <2> QED
    BY <1>14, <2>2, <2>3, <2>4 DEF StampOf
<1>17. StampInv'
  BY SMT, <1>0, <1>4, <1>6, <1>12, <1>16, StampsOfOthers DEF StoreType, Timestamp
<1> QED
  BY <1>4, <1>7, <1>8, <1>9, <1>10, <1>11, <1>13, <1>15, <1>17, BatchIntro

LEMMA PrepareOverflowPreserves ==
  ASSUME BatchInv, NEW t \in Thread, PrepareOverflow(t)
  PROVE  BatchInv'
<1>0. /\ StoreType /\ ThreadType /\ StampsLeft /\ LockInv /\ CallInv(t)
      /\ (\A u \in Thread : CallInv(u)) /\ LogInv
      /\ PlaceInv /\ RecordInv /\ ChainInv /\ LooseInv /\ StampInv
  BY BatchParts
<1>1. StoreType' /\ ThreadType'
  BY <1>0, OverflowType
<1>2. /\ free' = Spaces(t) /\ space' = [space EXCEPT ![t] = NoSpace]
      /\ pc' = [pc EXCEPT ![t] = "fail"] /\ pc[t] = "prepare" /\ mode = "up" /\ free = {}
      /\ UNCHANGED <<pmemVars, index, chain, garbage, lockVars, clock, recVars,
                     kind, ops, todo, ts, crashes>>
  BY DEF PrepareOverflow, GoTo, At
<1>3. /\ Others(t) /\ pc'[t] = "fail" /\ space'[t] = NoSpace /\ DOMAIN space'[t] = {}
      /\ ops'[t] = ops[t] /\ kind'[t] = kind[t]
      /\ \A u \in Thread : u # t => space'[u] = space[u]
  BY <1>0, <1>2, NoSpaceType DEF Others, Kept, ThreadType
<1>4. pm' = pm /\ index' = index /\ chain' = chain /\ mode' = mode /\ scan' = scan
      /\ newest' = newest /\ clock' = clock /\ garbage' = garbage /\ log' = log
  BY <1>2 DEF pmemVars, recVars
<1>5. StampsLeft'
  BY <1>0, <1>2, <1>3, <1>4, StampsKept DEF Others, Kept
<1>6. LockInv'
  BY <1>0, <1>2, <1>3, LockKept DEF lockVars, recVars
<1>7. \A u \in Thread : CallInv(u)'
  <2>1. pc[t] # "idle" /\ kind[t] = "single" => \E k \in Key : Keys(t) = {k}
    BY <1>0 DEF CallInv
  <2>2. CallInv(t)'
    BY <1>2, <1>3, <2>1 DEF CallInv, Keys
  <2> QED
    BY <1>0, <1>3, <2>2, CallsKept
<1>8. LogInv'
  <2>1. ~Processing(t) /\ ~Processing(t)' /\ pc'[t] # "process"
    BY <1>2, <1>3 DEF Processing
  <2> QED
    BY <1>0, <1>3, <1>4, <2>1, LogKept
<1>9. PlaceInv'
  <2>1. \A o \in Spaces(t) : \E k \in DOMAIN space[t] : o = space[t][k]
    BY DEF Spaces
  <2>2. ASSUME NEW o \in Spaces(t)
        PROVE  /\ o \notin garbage /\ \A j \in Key : o \notin chain[j]
               /\ \A u \in Thread : \A j \in DOMAIN space[u] : space[u][j] = o => u = t
    <3>1. PICK k \in DOMAIN space[t] : o = space[t][k]
      BY <2>1
    <3>2. SpacePlaces
      BY <1>0 DEF PlaceInv
    <3> QED
      BY <3>1, <3>2 DEF SpacePlaces
  <2>3. ChainPlaces' /\ (free \cap garbage = {})'
    BY <1>0, <1>2, <1>4, <2>2 DEF PlaceInv, ChainPlaces
  <2>4. SpacePlaces'
    <3>1. ASSUME NEW u \in Thread, NEW k \in DOMAIN space'[u] PROVE u # t /\ space'[u] = space[u]
      BY <1>3, <3>1
    <3>2. ASSUME NEW u \in Thread, NEW k \in DOMAIN space'[u] PROVE space'[u][k] \notin free'
      <4>1. u # t /\ k \in DOMAIN space[u] /\ space'[u][k] = space[u][k]
        BY <3>1, <3>2
      <4> QED
        BY <1>2, <2>2, <4>1
    <3>3. ASSUME NEW u \in Thread, NEW k \in DOMAIN space'[u]
          PROVE  /\ space'[u][k] \notin garbage' /\ \A j \in Key : space'[u][k] \notin chain'[j]
                 /\ \A v \in Thread : \A j \in DOMAIN space'[v] :
                      space'[v][j] = space'[u][k] => v = u /\ j = k
      <4>1. k \in DOMAIN space[u] /\ space'[u] = space[u] /\ SpacePlaces
        BY <1>0, <3>1, <3>3 DEF PlaceInv
      <4>2. \A v \in Thread : \A j \in DOMAIN space'[v] : j \in DOMAIN space[v] /\ space'[v][j] = space[v][j]
        BY <3>1
      <4>3. /\ space[u][k] \notin garbage /\ \A j \in Key : space[u][k] \notin chain[j]
            /\ \A v \in Thread : \A j \in DOMAIN space[v] :
                 space[v][j] = space[u][k] => v = u /\ j = k
        BY <4>1 DEF SpacePlaces
      <4> QED
        BY <1>4, <4>1, <4>2, <4>3
    <3> QED
      BY <3>2, <3>3 DEF SpacePlaces
  <2>5. Placed'
    <3>1. ASSUME NEW o \in Offset, NEW u \in Thread, NEW k \in DOMAIN space[u], space[u][k] = o
          PROVE  o \in free' \/ \E v \in Thread : \E j \in DOMAIN space'[v] : space'[v][j] = o
      BY <1>2, <1>3, <3>1 DEF Spaces
    <3> QED
      BY <1>0, <1>2, <1>4, <3>1 DEF PlaceInv, Placed
  <2>6. DownPlaces'
    BY <1>2, <1>4 DEF DownPlaces
  <2> QED
    BY <2>3, <2>4, <2>5, <2>6 DEF PlaceInv
<1>10. RecordInv' /\ ChainInv'
  <2>1. newest <= newest'
    BY SMT, <1>0, <1>4 DEF StoreType, Timestamp
  <2> QED
    BY <1>0, <1>1, <1>4, <2>1, ClockKept, SamePm, RecordsKept, ChainKept
<1>11. LooseInv'
  <2>1. ASSUME NEW o \in Offset, Loose(o)' PROVE Loose(o)
    <3>1. CASE o \in free'
      BY <1>2, <3>1 DEF Spaces, Loose, Written
    <3>2. CASE o \in garbage'
      BY <1>4, <3>2 DEF Loose
    <3>3. ASSUME NEW u \in Thread, NEW k \in DOMAIN space'[u], space'[u][k] = o, ~Written(u, k)'
          PROVE  Loose(o)
      <4>1. u # t /\ Kept(u)
        BY <1>3, <3>3 DEF Others
      <4> QED
        BY <3>3, <4>1 DEF Kept, Written, Loose
    <3> QED
      BY <2>1, <3>1, <3>2, <3>3 DEF Loose
  <2> QED
    BY <1>0, <1>2, <1>4, <2>1, LooseKept
<1>12. StampInv'
  <2>1. ~Stamped(t)'
    BY <1>3 DEF Stamped
  <2> QED
    BY <1>0, <1>1, <1>3, <1>4, <2>1, ClockKept, StampsOfOthers
<1> QED
  BY <1>1, <1>5, <1>6, <1>7, <1>8, <1>9, <1>10, <1>11, <1>12, BatchIntro

LEMMA EncodePreserves ==
  ASSUME BatchInv, NEW t \in Thread, EncodeTo(t)
  PROVE  BatchInv'
<1>0. /\ StoreType /\ ThreadType /\ StampsLeft /\ LockInv /\ CallInv(t) /\ LogInv /\ StampInv
  BY BatchParts
<1>1. StoreType' /\ ThreadType'
  BY <1>0, EncodeType
<1>2. /\ pc[t] = "encode" /\ mode = "up" /\ pc' = [pc EXCEPT ![t] = "process"]
      /\ log' = [log EXCEPT ![SlotOf[t]] = [stage |-> "Initializing", offs |-> Spaces(t)]]
      /\ UNCHANGED <<pm, storeVars, lockVars, clock, recVars, kind, ops, todo, ts, space, crashes>>
  BY DEF EncodeTo, GoTo, At
<1>3. /\ Others(t) /\ pc'[t] = "process" /\ kind'[t] = kind[t] /\ ops'[t] = ops[t]
      /\ ts'[t] = ts[t] /\ todo'[t] = todo[t] /\ space'[t] = space[t]
  BY <1>0, <1>2 DEF Others, Kept, ThreadType
<1>4. StampsLeft'
  BY <1>0, <1>2, <1>3, StampsKept DEF Others, Kept
<1>5. LockInv'
  BY <1>0, <1>2, <1>3, LockKept DEF lockVars, recVars
<1>6. kind[t] = "batch"
  BY <1>0, <1>2 DEF CallInv
<1>7. CallInv(t)'
  BY <1>3, <1>6 DEF CallInv
<1>8. LogInv'
  <2>1. SlotOf[t] \in Slot
    BY BatchAssumption
  <2>2. /\ \A r \in Slot : r # SlotOf[t] => log'[r] = log[r]
        /\ log'[SlotOf[t]] = [stage |-> "Initializing", offs |-> Spaces(t)]
    BY <1>0, <1>2, <2>1 DEF StoreType, LogType
  <2>3. log'[SlotOf[t]].stage = "Initializing" /\ log'[SlotOf[t]].offs = Spaces(t)
    BY SMT, <2>2
  <2>4. Spaces(t)' = Spaces(t) /\ ~Processing(t)'
    BY <1>3 DEF Spaces, Processing
  <2>5. mode' = mode
    BY <1>2 DEF recVars
  <2> QED
    BY <1>0, <1>2, <1>3, <2>2, <2>3, <2>4, <2>5, LogStep
<1>9. \A k \in DOMAIN space[t] : ~Written(t, k) /\ ~Written(t, k)'
  BY <1>2, <1>3 DEF Written
<1>10. StampOf(t)'
  <2>1. StampOf(t) /\ index' = index
    BY <1>0, <1>2 DEF StampInv, Stamped, storeVars
  <2>2. \A k \in Key : Nothing(t, k)' => Nothing(t, k)
    BY <1>2, <1>3 DEF Nothing, Keys
  <2> QED
    BY <1>0, <1>2, <1>3, <1>9, <2>1, <2>2, StampCarried
<1> QED
  BY <1>0, <1>1, <1>2, <1>3, <1>4, <1>5, <1>7, <1>8, <1>9, <1>10, ClockKept, LogOnlyStep

LEMMA MarkProcessingPreserves ==
  ASSUME BatchInv, NEW t \in Thread, MarkProcessing(t)
  PROVE  BatchInv'
<1>0. /\ StoreType /\ ThreadType /\ StampsLeft /\ LockInv /\ CallInv(t) /\ LogInv /\ StampInv
  BY BatchParts
<1>1. StoreType' /\ ThreadType'
  BY <1>0, MarkProcessingType
<1>2. /\ pc[t] = "process" /\ mode = "up" /\ SetStage(SlotOf[t], "Processing")
      /\ todo' = [todo EXCEPT ![t] = DOMAIN space[t]]
      /\ pc' = [pc EXCEPT ![t] = IF DOMAIN space[t] = {} THEN "commit" ELSE "write"]
      /\ UNCHANGED <<pm, storeVars, lockVars, clock, recVars, kind, ops, ts, space, crashes>>
  BY DEF MarkProcessing, GoTo, At
<1>3. /\ Others(t) /\ pc'[t] = (IF DOMAIN space[t] = {} THEN "commit" ELSE "write")
      /\ kind'[t] = kind[t] /\ ops'[t] = ops[t]
      /\ ts'[t] = ts[t] /\ todo'[t] = DOMAIN space[t] /\ space'[t] = space[t]
  BY <1>0, <1>2 DEF Others, Kept, ThreadType
<1>11. pc'[t] = "commit" \/ pc'[t] = "write"
  BY <1>3
<1>4. StampsLeft'
  BY <1>0, <1>2, <1>3, <1>11, StampsKept DEF Others, Kept
<1>5. LockInv'
  BY <1>0, <1>2, <1>3, <1>11, LockKept DEF lockVars, recVars
<1>6. kind[t] = "batch"
  BY <1>0, <1>2 DEF CallInv
<1>7. CallInv(t)'
  BY <1>3, <1>6 DEF CallInv
<1>8. LogInv'
  <2>1. SlotOf[t] \in Slot
    BY BatchAssumption
  <2>2. /\ log'[SlotOf[t]].stage = "Processing" /\ log'[SlotOf[t]].offs = log[SlotOf[t]].offs
        /\ \A r \in Slot : r # SlotOf[t] => log'[r] = log[r]
    BY <1>0, <1>2, <2>1, SetStageType DEF StoreType
  <2>3. log[SlotOf[t]].offs = Spaces(t)
    BY <1>0, <1>2 DEF LogInv
  <2>4. Spaces(t)' = Spaces(t) /\ Processing(t)'
    BY <1>3, <1>6 DEF Spaces, Processing
  <2>5. mode' = mode
    BY <1>2 DEF recVars
  <2> QED
    BY <1>0, <1>2, <1>3, <2>2, <2>3, <2>4, <2>5, LogStep
<1>9. \A k \in DOMAIN space[t] : ~Written(t, k) /\ ~Written(t, k)'
  <2>1. ASSUME NEW k \in DOMAIN space[t] PROVE pc'[t] = "write"
    BY <1>3
  <2> QED
    BY <1>2, <1>3, <2>1 DEF Written
<1>10. StampOf(t)'
  <2>1. StampOf(t) /\ index' = index
    BY <1>0, <1>2 DEF StampInv, Stamped, storeVars
  <2>2. \A k \in Key : Nothing(t, k)' => Nothing(t, k)
    BY <1>2, <1>3 DEF Nothing, Keys
  <2> QED
    BY <1>0, <1>2, <1>3, <1>9, <2>1, <2>2, StampCarried
<1> QED
  BY <1>0, <1>1, <1>2, <1>3, <1>4, <1>5, <1>7, <1>8, <1>9, <1>10, ClockKept, LogOnlyStep

LEMMA MarkCommittedPreserves ==
  ASSUME BatchInv, NEW t \in Thread, MarkCommitted(t)
  PROVE  BatchInv'
<1>0. /\ StoreType /\ ThreadType /\ StampsLeft /\ LockInv /\ CallInv(t) /\ LogInv /\ StampInv
  BY BatchParts
<1>1. StoreType' /\ ThreadType'
  BY <1>0, MarkCommittedType
<1>2. /\ pc[t] = "commit" /\ mode = "up" /\ SetStage(SlotOf[t], "Committed")
      /\ todo' = [todo EXCEPT ![t] = DOMAIN space[t]]
      /\ pc' = [pc EXCEPT ![t] = IF DOMAIN space[t] = {} THEN "release" ELSE "publish"]
      /\ UNCHANGED <<pm, storeVars, lockVars, clock, recVars, kind, ops, ts, space, crashes>>
  BY DEF MarkCommitted, GoTo, At
<1>3. /\ Others(t) /\ pc'[t] = (IF DOMAIN space[t] = {} THEN "release" ELSE "publish")
      /\ kind'[t] = kind[t] /\ ops'[t] = ops[t]
      /\ ts'[t] = ts[t] /\ todo'[t] = DOMAIN space[t] /\ space'[t] = space[t]
  BY <1>0, <1>2 DEF Others, Kept, ThreadType
<1>11. pc'[t] = "release" \/ pc'[t] = "publish"
  BY <1>3
<1>4. StampsLeft'
  BY <1>0, <1>2, <1>3, <1>11, StampsKept DEF Others, Kept
<1>5. LockInv'
  BY <1>0, <1>2, <1>3, <1>11, LockKept DEF lockVars, recVars
<1>6. kind[t] = "batch"
  BY <1>0, <1>2 DEF CallInv
<1>7. CallInv(t)'
  BY <1>3, <1>6 DEF CallInv
<1>8. LogInv'
  <2>1. SlotOf[t] \in Slot
    BY BatchAssumption
  <2>2. log'[SlotOf[t]].stage = "Committed" /\ \A r \in Slot : r # SlotOf[t] => log'[r] = log[r]
    BY <1>0, <1>2, <2>1, SetStageType DEF StoreType
  <2>4. ~Processing(t)' /\ pc'[t] # "process"
    BY <1>3, <1>6 DEF Processing
  <2>5. mode' = mode
    BY <1>2 DEF recVars
  <2> QED
    BY <1>0, <1>2, <1>3, <2>2, <2>4, <2>5, LogStep
<1>9. \A k \in DOMAIN space[t] : Written(t, k) /\ Written(t, k)'
  BY <1>2, <1>3, <1>11 DEF Written
<1>10. StampOf(t)'
  <2>1. StampOf(t) /\ index' = index
    BY <1>0, <1>2 DEF StampInv, Stamped, storeVars
  <2>2. \A k \in Key : ~Nothing(t, k)'
    BY <1>3 DEF Nothing
  <2> QED
    BY <1>0, <1>2, <1>3, <1>9, <2>1, <2>2, StampCarried
<1> QED
  BY <1>0, <1>1, <1>2, <1>3, <1>4, <1>5, <1>7, <1>8, <1>9, <1>10, ClockKept, LogOnlyStep

\* A record is persisted in the space that was allocated for it.
LEMMA WriteStep ==
  ASSUME BatchInv, NEW t \in Thread, NEW k \in DOMAIN space[t], pc[t] = "write", k \in todo[t],
         Persist(space[t][k], k, t), Others(t), mode = "up",
         UNCHANGED <<storeVars, recVars, clock, lock, access, space>>,
         ops'[t] = ops[t], ts'[t] = ts[t], StoreType', ThreadType', CallInv(t)', LogInv',
         pc'[t] \in {"write", "commit", "publish"},
         \A j \in DOMAIN space[t] : Written(t, j)' <=> j = k \/ Written(t, j),
         \A j \in Key : Nothing(t, j)' => Nothing(t, j)
  PROVE  BatchInv'
<1>0. /\ StoreType /\ ThreadType /\ StampsLeft /\ LockInv /\ (\A u \in Thread : CallInv(u))
      /\ PlaceInv /\ RecordInv /\ ChainInv /\ LooseInv /\ StampInv
  BY BatchParts
<1>1. PICK o : o = space[t][k]
  OBVIOUS
<1>2. /\ o \in Offset /\ pm'[o] = Record(t, k) /\ k \in Key /\ k \in Keys(t)
      /\ \A n \in Offset : n # o => pm'[n] = pm[n]
  BY <1>0, <1>1, PersistType, SpaceTypeDef DEF ThreadType
<1>3. /\ index' = index /\ chain' = chain /\ mode' = mode /\ scan' = scan /\ newest' = newest
      /\ free' = free /\ garbage' = garbage /\ space' = space /\ clock' = clock
      /\ lock' = lock /\ access' = access
  BY DEF storeVars, recVars
<1>4. /\ ~Written(t, k) /\ HasLocked(t, k) /\ StampOf(t)
  BY <1>0, <1>2 DEF Written, HasLocked, StampInv, Stamped
<1>5. /\ o \notin free /\ o \notin garbage /\ \A j \in Key : o \notin chain[j]
      /\ \A u \in Thread : \A j \in DOMAIN space[u] : space[u][j] = o => u = t /\ j = k
  <2>1. SpacePlaces
    BY <1>0 DEF PlaceInv
  <2>2. o = space[t][k]
    BY <1>1
  <2>3. o \notin free /\ o \notin garbage /\ \A j \in Key : o \notin chain[j]
    BY <2>1, <2>2 DEF SpacePlaces
  <2>4. \A u \in Thread : \A j \in DOMAIN space[u] : space[u][j] = o => u = t /\ j = k
    BY <2>1, <2>2 DEF SpacePlaces
  <2> QED
    BY <2>3, <2>4
<1>6. /\ pm'[o].key = k /\ pm'[o].ts = ts[t] /\ pm'[o].status \in {"Normal", "Outdated"} /\ Live(o)'
  BY SMT, <1>2 DEF Record, Live
<1>7. ASSUME NEW n \in Offset, n # o, pm[n].key = k, Live(n) PROVE pm[n].ts < ts[t]
  BY <1>2, <1>4, <1>7 DEF StampOf
<1>8. ASSUME NEW n \in Offset, n # o PROVE Live(n)' <=> Live(n)
  BY <1>2, <1>8 DEF Live
<1>9. StampsLeft'
  BY <1>0, <1>3, StampsKept DEF Others, Kept
<1>10. LockInv'
  BY <1>0, <1>3, LockKept
<1>11. \A u \in Thread : CallInv(u)'
  BY <1>0, CallsKept
<1>12. PlaceInv'
  BY <1>0, <1>3, PlaceKept DEF storeVars
<1>13. RecordInv'
  <2>1. /\ clock \in Nat /\ ts[t] \in 1 .. clock /\ \A n \in Offset : pm[n].ts \in Nat
    BY SMT, <1>0, <1>4 DEF StoreType, PmType, Timestamp, StampOf
  <2>2. ASSUME NEW n \in Offset, Live(n)'
        PROVE  pm'[n].key \in Key /\ pm'[n].ts >= 1 /\ pm'[n].ts <= clock'
    <3>1. CASE n = o
      <4>1. k \in Key
        BY <1>0, KeysType DEF ThreadType
      <4>2. ts[t] >= 1 /\ ts[t] <= clock
        BY SMT, <2>1
      <4> QED
        BY <1>3, <1>6, <3>1, <4>1, <4>2
    <3>2. CASE n # o
      BY <1>0, <1>2, <1>3, <1>8, <2>2, <3>2 DEF RecordInv
    <3> QED
      BY <3>1, <3>2
  <2>3. ASSUME NEW m \in Offset, NEW n \in Offset, Live(m)', Live(n)',
               pm'[m].key = pm'[n].key, pm'[m].ts = pm'[n].ts, m # n
        PROVE  FALSE
    <3>1. CASE m # o /\ n # o
      BY <1>0, <1>2, <1>8, <2>3, <3>1 DEF RecordInv
    <3>2. CASE m = o
      <4>1. pm[n].key = k /\ pm[n].ts = ts[t] /\ Live(n) /\ n # o
        BY <1>2, <1>6, <1>8, <2>3, <3>2
      <4> QED
        BY SMT, <1>7, <2>1, <4>1
    <3>3. CASE n = o
      <4>1. pm[m].key = k /\ pm[m].ts = ts[t] /\ Live(m) /\ m # o
        BY <1>2, <1>6, <1>8, <2>3, <3>3
      <4> QED
        BY SMT, <1>7, <2>1, <4>1
    <3> QED
      BY <3>1, <3>2, <3>3
  <2> QED
    BY <1>3, <2>2, <2>3 DEF RecordInv
<1>14. \A j \in Key : \A n \in chain[j] : n \in Offset /\ n # o
  BY <1>0, <1>5 DEF StoreType
<1>15. ChainInv'
  <2>1. ASSUME NEW j \in Key, NEW n \in chain'[j]
        PROVE  Live(n)' /\ pm'[n].key = j /\ pm'[n].ts <= pm'[index'[j]].ts
    <3>1. n \in chain[j] /\ n \in Offset /\ n # o
      BY <1>3, <1>14, <2>1
    <3>2. index[j] \in chain[j]
      BY <1>0, <3>1 DEF ChainInv
    <3>3. index[j] \in Offset /\ index[j] # o
      BY <1>14, <3>2
    <3>4. pm'[n] = pm[n] /\ pm'[index[j]] = pm[index[j]] /\ (Live(n)' <=> Live(n))
      BY <1>2, <1>8, <3>1, <3>3
    <3> QED
      BY <1>0, <1>3, <3>1, <3>4 DEF ChainInv
  <2> QED
    BY <1>0, <1>3, <2>1 DEF ChainInv
<1>16. LooseInv'
  <2>1. ASSUME NEW n \in Offset, Loose(n)' PROVE Loose(n) /\ n # o
    <3>1. CASE n \in free \/ n \in garbage
      BY <1>5, <3>1 DEF Loose
    <3>2. ASSUME NEW u \in Thread, NEW j \in DOMAIN space[u], space[u][j] = n, ~Written(u, j)'
          PROVE  Loose(n) /\ n # o
      <4>1. CASE u = t
        BY <1>5, <3>2, <4>1 DEF Loose
      <4>2. CASE u # t
        <5>1. ~Written(u, j)
          BY <3>2, <4>2 DEF Others, Kept, Written
        <5> QED
          BY <1>5, <3>2, <4>2, <5>1 DEF Loose
      <4> QED
        BY <4>1, <4>2
    <3> QED
      BY <1>3, <2>1, <3>1, <3>2 DEF Loose
  <2>2. ASSUME NEW m \in Offset, Loose(m)'
        PROVE  /\ pm'[m].status # "Normal"
               /\ pm'[m].status = "Outdated" =>
                    \A n \in Offset : pm'[n].status = "Normal" /\ pm'[n].key = pm'[m].key
                                      => pm'[m].ts < pm'[n].ts
    <3>1. Loose(m) /\ m # o /\ pm'[m] = pm[m]
      BY <1>2, <2>1, <2>2
    <3>2. ASSUME pm'[m].status = "Outdated", NEW n \in Offset, pm'[n].status = "Normal",
                 pm'[n].key = pm'[m].key
          PROVE  pm'[m].ts < pm'[n].ts
      <4>1. CASE n = o
        <5>1. Live(m) /\ pm[m].key = k
          BY <1>6, <3>1, <3>2, <4>1 DEF Live
        <5> QED
          BY <1>6, <1>7, <3>1, <4>1, <5>1
      <4>2. CASE n # o
        BY <1>0, <1>2, <3>1, <3>2, <4>2 DEF LooseInv
      <4> QED
        BY <4>1, <4>2
    <3> QED
      BY <1>0, <3>1, <3>2 DEF LooseInv
  <2> QED
    BY <1>3, <2>2 DEF LooseInv
<1>17. \A j \in Key : HasValue(j)' <=> HasValue(j)
  <2>1. ASSUME NEW j \in Key, index[j] # kNullPMemOffset PROVE pm'[index[j]] = pm[index[j]]
    <3>1. index[j] \in chain[j]
      BY <1>0, <2>1 DEF ChainInv
    <3> QED
      BY <1>2, <1>14, <3>1
  <2> QED
    BY <1>3, <2>1 DEF HasValue
<1>18. ASSUME NEW u \in Thread, Stamped(u)', u # t PROVE StampOf(u)'
  <2>1. Kept(u) /\ Stamped(u)
    BY <1>18 DEF Others, Kept, Stamped
  <2>2. StampOf(u)
    BY <1>0, <2>1 DEF StampInv
  <2>3. k \notin Keys(u)
    <3>1. k \in Keys(u) => HasLocked(u, k)
      BY <2>1 DEF Stamped, HasLocked
    <3> QED
      BY <1>0, <1>4, <1>18, <3>1, OwnKey
  <2>4. \A n \in Offset : Live(n)' => pm'[n].key \notin Keys(u) \/ (Live(n) /\ pm'[n] = pm[n])
    BY <1>2, <1>6, <1>8, <2>3
  <2>5. \A j \in DOMAIN space[u] : Written(u, j) => pm'[space[u][j]] = pm[space[u][j]]
    <3>1. \A j \in DOMAIN space[u] : space[u][j] \in Offset
      BY <1>0, SpaceTypeDef DEF ThreadType
    <3> QED
      BY <1>2, <1>5, <1>18, <3>1
  <2>6. \A j \in Keys(u) : j \in Key
    BY <1>0, KeysType
  <2>7. \A j \in Keys(u) : Nothing(u, j) /\ HasValue(j)' => HasValue(j)
    BY <1>17, <2>6
  <2>8. clock <= clock'
    BY <1>0, <1>3, ClockKept
  <2> QED
    BY <1>0, <2>1, <2>2, <2>4, <2>5, <2>7, <2>8, StampKept
<1>19. StampOf(t)'
  <2>1. ts'[t] \in 1 .. clock'
    BY <1>3, <1>4 DEF StampOf
  <2>2. ASSUME NEW j \in Keys(t)', NEW n \in Offset, Live(n)', pm'[n].key = j,
               ~(Written(t, j) /\ n = space[t][j])'
        PROVE  pm'[n].ts < ts'[t]
    <3>1. n # o
      BY <1>1, <1>3, <1>6, <2>2
    <3>2. Live(n) /\ pm'[n] = pm[n]
      BY <1>2, <1>8, <2>2, <3>1
    <3>3. ~(Written(t, j) /\ n = space[t][j])
      BY <1>3, <2>2 DEF Written
    <3>4. j \in Keys(t)
      BY <2>2 DEF Keys
    <3> QED
      BY <1>4, <2>2, <3>2, <3>3, <3>4 DEF StampOf
  <2>3. ASSUME NEW j \in DOMAIN space'[t], Written(t, j)'
        PROVE  pm'[space'[t][j]] = [key |-> j, ts |-> ts'[t],
                            status |-> IF ops'[t][j] = "Put" THEN "Normal" ELSE "Outdated"]
    <3>1. CASE j = k
      BY <1>1, <1>2, <1>3, <3>1 DEF Record
    <3>2. CASE j # k
      <4>1. j \in DOMAIN space[t] /\ Written(t, j) /\ space[t][j] # o
        BY <1>3, <1>5, <2>3, <3>2
      <4>2. space[t][j] \in Offset
        BY <1>0, <4>1, SpaceTypeDef DEF ThreadType
      <4>3. pm'[space[t][j]] = pm[space[t][j]]
        BY <1>2, <4>1, <4>2
      <4> QED
        BY <1>3, <1>4, <4>1, <4>3 DEF StampOf
    <3> QED
      BY <3>1, <3>2
  <2>4. ASSUME NEW j \in Key, Nothing(t, j)' PROVE ops'[t][j] = "Delete" /\ ~HasValue(j)'
    BY <1>4, <1>17, <2>4 DEF StampOf
  <2> QED
    BY <2>1, <2>2, <2>3, <2>4 DEF StampOf
<1>20. StampInv'
  BY <1>18, <1>19 DEF StampInv
<1> QED
  BY <1>9, <1>10, <1>11, <1>12, <1>13, <1>15, <1>16, <1>20, BatchIntro

LEMMA StringWritePreserves ==
  ASSUME BatchInv, NEW t \in Thread, StringWrite(t)
  PROVE  BatchInv'
<1>0. StoreType /\ ThreadType /\ CallInv(t) /\ LogInv
  BY BatchParts
<1>1. StoreType' /\ ThreadType'
  BY <1>0, StringWriteType
<1>2. PICK k \in todo[t] : /\ Persist(space[t][k], k, t)
                           /\ todo' = [todo EXCEPT ![t] = @ \ {k}]
                           /\ pc' = [pc EXCEPT ![t] = IF todo[t] = {k} THEN "commit" ELSE "write"]
  BY DEF StringWrite, GoTo
<1>3. /\ pc[t] = "write" /\ mode = "up" /\ kind[t] = "batch"
      /\ UNCHANGED <<log, storeVars, lockVars, clock, recVars, kind, ops, ts, space, crashes>>
  BY DEF StringWrite, At
<1>4. /\ Others(t) /\ pc'[t] = (IF todo[t] = {k} THEN "commit" ELSE "write")
      /\ kind'[t] = kind[t] /\ ops'[t] = ops[t]
      /\ ts'[t] = ts[t] /\ todo'[t] = todo[t] \ {k} /\ space'[t] = space[t]
  BY <1>0, <1>2, <1>3 DEF Others, Kept, ThreadType
<1>5. k \in DOMAIN space[t] /\ todo[t] \subseteq DOMAIN space[t]
  BY <1>0, <1>3 DEF CallInv
<1>6. pc'[t] = "commit" \/ pc'[t] = "write"
  BY <1>4
<1>7. CallInv(t)'
  BY <1>3, <1>4, <1>5, <1>6 DEF CallInv
<1>8. LogInv'
  <2>1. Processing(t) /\ Processing(t)'
    BY <1>3, <1>4, <1>6 DEF Processing
  <2> QED
    BY <1>0, <1>3, <1>4, <2>1, LogKept DEF recVars
<1>9. ASSUME NEW j \in DOMAIN space[t] PROVE Written(t, j)' <=> j = k \/ Written(t, j)
  <2>1. Written(t, j) <=> j \notin todo[t]
    BY <1>3 DEF Written
  <2>2. CASE todo[t] = {k}
    <3>1. pc'[t] = "commit"
      BY <1>4, <2>2
    <3>2. Written(t, j)'
      BY <1>4, <3>1 DEF Written
    <3> QED
      BY <2>1, <2>2, <3>2
  <2>3. CASE todo[t] # {k}
    <3>1. pc'[t] = "write"
      BY <1>4, <2>3
    <3>2. Written(t, j)' <=> j \notin todo'[t]
      BY <1>4, <3>1 DEF Written
    <3> QED
      BY <1>4, <2>1, <3>2
  <2> QED
    BY <2>2, <2>3
<1>10. \A j \in Key : Nothing(t, j)' => Nothing(t, j)
  BY <1>3, <1>4 DEF Nothing, Keys
<1> QED
  BY <1>1, <1>2, <1>3, <1>4, <1>5, <1>6, <1>7, <1>8, <1>9, <1>10, WriteStep DEF lockVars

LEMMA PersistSinglePreserves ==
  ASSUME BatchInv, NEW t \in Thread, PersistSingle(t)
  PROVE  BatchInv'
<1>0. StoreType /\ ThreadType /\ CallInv(t) /\ LogInv
  BY BatchParts
<1>1. StoreType' /\ ThreadType'
  BY <1>0, PersistSingleType
<1>2. PICK k \in todo[t] : Persist(space[t][k], k, t)
  BY DEF PersistSingle
<1>3. /\ pc[t] = "write" /\ mode = "up" /\ kind[t] = "single" /\ pc' = [pc EXCEPT ![t] = "publish"]
      /\ UNCHANGED <<log, storeVars, lockVars, clock, recVars, kind, ops, todo, ts, space, crashes>>
  BY DEF PersistSingle, At, GoTo
<1>4. /\ Others(t) /\ pc'[t] = "publish" /\ kind'[t] = kind[t] /\ ops'[t] = ops[t]
      /\ ts'[t] = ts[t] /\ todo'[t] = todo[t] /\ space'[t] = space[t]
  BY <1>0, <1>3 DEF Others, Kept, ThreadType
<1>5. /\ k \in DOMAIN space[t] /\ DOMAIN space[t] = todo[t]
      /\ \E j \in Key : Keys(t) = {j} /\ todo[t] = {j}
  BY <1>0, <1>3 DEF CallInv
<1>6. CallInv(t)'
  BY <1>4, <1>5 DEF CallInv, Keys
<1>7. LogInv'
  <2>1. ~Processing(t) /\ ~Processing(t)' /\ pc'[t] # "process"
    BY <1>3, <1>4 DEF Processing
  <2> QED
    BY <1>0, <1>3, <1>4, <2>1, LogKept DEF recVars
<1>8. todo[t] = {k}
  BY <1>5
<1>9. \A j \in DOMAIN space[t] : Written(t, j)' <=> j = k \/ Written(t, j)
  BY <1>4, <1>5, <1>8 DEF Written
<1>10. \A j \in Key : ~Nothing(t, j)'
  BY <1>4 DEF Nothing
<1> QED
  BY <1>1, <1>2, <1>3, <1>4, <1>5, <1>6, <1>7, <1>9, <1>10, WriteStep DEF lockVars

LEMMA PublishPreserves ==
  ASSUME BatchInv, NEW t \in Thread, Publish(t)
  PROVE  BatchInv'
<1>0. /\ StoreType /\ ThreadType /\ StampsLeft /\ LockInv /\ CallInv(t)
      /\ (\A u \in Thread : CallInv(u)) /\ LogInv
      /\ PlaceInv /\ RecordInv /\ ChainInv /\ LooseInv /\ StampInv
  BY BatchParts
<1>1. PICK k \in todo[t] :
         /\ index' = [index EXCEPT ![k] = space[t][k]]
         /\ chain' = [chain EXCEPT ![k] = @ \cup {space[t][k]}]
         /\ todo' = [todo EXCEPT ![t] = @ \ {k}]
         /\ space' = [space EXCEPT ![t] = [j \in DOMAIN @ \ {k} |-> @[j]]]
         /\ GoTo(t, IF todo[t] # {k} THEN "publish"
                    ELSE IF kind[t] = "batch" THEN "release" ELSE "remove")
  BY DEF Publish
<1>2. /\ pc[t] = "publish" /\ mode = "up" /\ At(t, "publish")
      /\ UNCHANGED <<pmemVars, free, garbage, lockVars, clock, recVars, kind, ops, ts, crashes>>
  BY DEF Publish, At
<1>3. /\ StoreType' /\ ThreadType'
      /\ k \in DOMAIN space[t] /\ k \in Key /\ space[t][k] \in Offset
      /\ DOMAIN space'[t] = DOMAIN space[t] \ {k}
      /\ \A j \in DOMAIN space[t] : j # k => space'[t][j] = space[t][j]
      /\ \A u \in Thread : u # t => space'[u] = space[u]
  BY <1>0, <1>1, <1>2, PublishType
<1>4. /\ Others(t) /\ kind'[t] = kind[t] /\ ops'[t] = ops[t] /\ ts'[t] = ts[t]
      /\ todo'[t] = todo[t] \ {k}
      /\ pc'[t] = IF todo[t] # {k} THEN "publish"
                  ELSE IF kind[t] = "batch" THEN "release" ELSE "remove"
  BY <1>0, <1>1, <1>2, <1>3 DEF Others, Kept, ThreadType, GoTo
<1>5. /\ pm' = pm /\ log' = log /\ mode' = mode /\ scan' = scan /\ newest' = newest
      /\ free' = free /\ garbage' = garbage /\ clock' = clock
  BY <1>2 DEF pmemVars, recVars
<1>6. PICK o : o = space[t][k]
  OBVIOUS
<1>7. /\ index'[k] = o /\ \A j \in Key : j # k => index'[j] = index[j] /\ chain'[j] = chain[j]
      /\ chain'[k] = chain[k] \cup {o}
  BY <1>0, <1>1, <1>3, <1>6 DEF StoreType
<1>8. todo[t] = DOMAIN space[t]
  BY <1>0, <1>2 DEF CallInv
<1>9. /\ pc'[t] = "publish" \/ pc'[t] = "release" \/ pc'[t] = "remove"
      /\ pc'[t] # "publish" => DOMAIN space'[t] = {}
  BY <1>3, <1>4, <1>8
<1>10. /\ o \notin free /\ o \notin garbage /\ \A j \in Key : o \notin chain[j]
       /\ \A u \in Thread : \A j \in DOMAIN space[u] : space[u][j] = o => u = t /\ j = k
  <2>1. SpacePlaces
    BY <1>0 DEF PlaceInv
  <2>2. k \in DOMAIN space[t]
    BY <1>3
  <2> QED
    BY <1>6, <2>1, <2>2 DEF SpacePlaces
<1>11. StampsLeft'
  BY <1>0, <1>2, <1>4, <1>5, <1>9, StampsKept DEF Others, Kept
<1>12. LockInv'
  BY <1>0, <1>2, <1>4, <1>9, LockKept DEF lockVars, recVars
<1>13. \A u \in Thread : CallInv(u)'
  <2>1. kind[t] = "single" => \E j \in Key : Keys(t) = {j}
    BY <1>0, <1>2 DEF CallInv
  <2>2. todo'[t] = DOMAIN space'[t] /\ Keys(t)' = Keys(t)
    BY <1>3, <1>4, <1>8 DEF Keys
  <2>3. CallInv(t)'
    BY <1>4, <1>9, <2>1, <2>2 DEF CallInv
  <2> QED
    BY <1>0, <1>4, <2>3, CallsKept
<1>14. LogInv'
  <2>1. ~Processing(t) /\ ~Processing(t)' /\ pc'[t] # "process"
    BY <1>2, <1>4, <1>9 DEF Processing
  <2> QED
    BY <1>0, <1>4, <1>5, <2>1, LogKept
<1>15. ASSUME NEW u \in Thread, NEW j \in DOMAIN space'[u]
       PROVE  j \in DOMAIN space[u] /\ space'[u][j] = space[u][j] /\ space[u][j] # o
  BY <1>3, <1>10, <1>15
<1>16. PlaceInv'
  <2>1. ChainPlaces' /\ (free \cap garbage = {})'
    <3>1. ASSUME NEW j \in Key, NEW n \in chain'[j]
          PROVE  /\ n \notin free /\ n \notin garbage
                 /\ \A i \in Key : n \in chain'[i] => i = j
      <4>1. CASE n = o
        BY <1>7, <1>10, <3>1, <4>1
      <4>2. CASE n # o
        <5>1. \A i \in Key : n \in chain'[i] => n \in chain[i]
          BY <1>7, <4>2
        <5>2. ChainPlaces /\ n \in chain[j]
          BY <1>0, <3>1, <5>1 DEF PlaceInv
        <5> QED
          BY <5>1, <5>2 DEF ChainPlaces
      <4> QED
        BY <4>1, <4>2
    <3> QED
      BY <1>0, <1>5, <3>1 DEF PlaceInv, ChainPlaces
  <2>2. SpacePlaces'
    <3>1. ASSUME NEW u \in Thread, NEW j \in DOMAIN space'[u]
          PROVE  /\ space'[u][j] \notin free' /\ space'[u][j] \notin garbage'
                 /\ \A i \in Key : space'[u][j] \notin chain'[i]
                 /\ \A v \in Thread : \A i \in DOMAIN space'[v] :
                      space'[v][i] = space'[u][j] => v = u /\ i = j
      <4>1. /\ space[u][j] \notin free /\ space[u][j] \notin garbage
            /\ \A i \in Key : space[u][j] \notin chain[i]
            /\ \A v \in Thread : \A i \in DOMAIN space[v] :
                 space[v][i] = space[u][j] => v = u /\ i = j
        BY <1>0, <1>15, <3>1 DEF PlaceInv, SpacePlaces
      <4>2. \A i \in Key : space[u][j] \notin chain'[i]
        <5>1. \A i \in Key : \A n \in chain'[i] : n \in chain[i] \/ n = o
          BY <1>7
        <5>2. space[u][j] # o
          BY <1>15, <3>1
        <5> QED
          BY <4>1, <5>1, <5>2
      <4>3. space'[u][j] = space[u][j]
        BY <1>15, <3>1
      <4> QED
        BY <1>5, <1>15, <4>1, <4>2, <4>3
    <3> QED
      BY <3>1 DEF SpacePlaces
  <2>3. Placed'
    <3>1. ASSUME NEW n \in Offset, NEW u \in Thread, NEW j \in DOMAIN space[u], space[u][j] = n
          PROVE  \/ \E i \in Key : n \in chain'[i]
                 \/ \E v \in Thread : \E i \in DOMAIN space'[v] : space'[v][i] = n
      <4>1. CASE n = o
        BY <1>3, <1>7, <4>1
      <4>2. CASE n # o
        <5>1. j \in DOMAIN space'[u] /\ space'[u][j] = n
          BY <1>3, <1>6, <3>1, <4>2
        <5> QED
          BY <5>1
      <4> QED
        BY <4>1, <4>2
    <3>2. ASSUME NEW n \in Offset, NEW j \in Key, n \in chain[j] PROVE n \in chain'[j]
      BY <1>7, <3>2
    <3> QED
      BY <1>0, <1>2, <1>5, <3>1, <3>2 DEF PlaceInv, Placed
  <2>4. DownPlaces'
    BY <1>2, <1>5 DEF DownPlaces
  <2> QED
    BY <2>1, <2>2, <2>3, <2>4 DEF PlaceInv
<1>17. RecordInv'
  <2>1. newest <= newest'
    BY SMT, <1>0, <1>5 DEF StoreType, Timestamp
  <2> QED
    BY <1>0, <1>3, <1>5, <2>1, ClockKept, SamePm, RecordsKept
<1>18. Written(t, k) /\ StampOf(t) /\ pm[o] = Record(t, k) /\ k \in Keys(t) /\ HasLocked(t, k)
  <2>1. Written(t, k) /\ StampOf(t)
    BY <1>0, <1>2, <1>3 DEF Written, StampInv, Stamped
  <2>2. k \in Keys(t) /\ HasLocked(t, k)
    BY <1>0, <1>2, <1>3 DEF ThreadType, HasLocked
  <2> QED
    BY <1>3, <1>6, <2>1, <2>2 DEF StampOf, Record
<1>19. ChainInv'
  <2>1. pm[o].key = k /\ pm[o].ts = ts[t] /\ Live(o) /\ o # kNullPMemOffset
    BY SMT, <1>3, <1>6, <1>18, BatchAssumption DEF Record, Live
  <2>2. ASSUME NEW n \in chain[k] PROVE Live(n) /\ pm[n].key = k /\ pm[n].ts < ts[t]
    <3>1. n \in Offset /\ n # o /\ Live(n) /\ pm[n].key = k
      <4>1. k \in Key /\ o \notin chain[k] /\ chain[k] \subseteq Offset
        BY <1>0, <1>3, <1>10 DEF StoreType
      <4> QED
        BY <1>0, <2>2, <4>1 DEF ChainInv
    <3> QED
      BY <1>3, <1>6, <1>18, <3>1 DEF StampOf
  <2>3. ts[t] \in Int /\ \A n \in chain[k] : pm[n].ts \in Int
    BY SMT, <1>0, <1>3, <2>2 DEF StoreType, PmType, Timestamp, ThreadType
  <2>4. \A n \in chain'[k] : Live(n)' /\ pm'[n].key = k /\ pm'[n].ts <= pm'[index'[k]].ts
    BY SMT, <1>5, <1>7, <2>1, <2>2, <2>3 DEF Live
  <2>5. \A j \in Key : j # k => /\ \A n \in chain[j] : Live(n)' /\ pm[n].key = j /\ pm[n].ts <= pm[index[j]].ts
                                /\ IF index[j] = kNullPMemOffset THEN chain[j] = {} ELSE index[j] \in chain[j]
    BY <1>0, <1>5 DEF ChainInv, Live
  <2>6. index'[k] # kNullPMemOffset /\ index'[k] \in chain'[k]
    BY <1>7, <2>1
  <2> QED
    BY <1>5, <1>7, <2>4, <2>5, <2>6 DEF ChainInv
<1>20. \A j \in DOMAIN space'[t] : Written(t, j)'
  BY <1>9 DEF Written
<1>21. LooseInv'
  <2>1. free' \subseteq free /\ garbage' \subseteq garbage
    BY <1>5
  <2>2. \A n \in Offset : Loose(n)' => Loose(n)
    BY <1>4, <1>20, <2>1, LooseStep
  <2> QED
    BY <1>0, <1>2, <1>5, <2>2, LooseKept
<1>22. ASSUME NEW u \in Thread, Stamped(u)', u # t PROVE StampOf(u)'
  <2>1. Kept(u) /\ Stamped(u)
    BY <1>4, <1>22 DEF Others, Kept, Stamped
  <2>2. StampOf(u)
    BY <1>0, <2>1 DEF StampInv
  <2>3. k \notin Keys(u)
    <3>1. k \in Keys(u) => HasLocked(u, k)
      BY <2>1 DEF Stamped, HasLocked
    <3> QED
      BY <1>0, <1>18, <1>22, <3>1, OwnKey
  <2>4. \A j \in Keys(u) : j \in Key /\ j # k
    BY <1>0, <2>3, OpsType DEF Keys, ThreadType
  <2>5. \A j \in Keys(u) : HasValue(j)' => HasValue(j)
    BY <1>5, <1>7, <2>4 DEF HasValue
  <2>6. \A n \in Offset : Live(n)' => Live(n) /\ pm'[n] = pm[n]
    BY <1>5 DEF Live
  <2>7. clock <= clock'
    BY <1>0, <1>5, ClockKept
  <2> QED
    BY <1>0, <1>3, <1>5, <2>1, <2>2, <2>5, <2>6, <2>7, StampKept
<1>23. ASSUME Stamped(t)' PROVE StampOf(t)'
  <2>1. pc'[t] = "publish"
    BY <1>9, <1>23 DEF Stamped
  <2>2. ts'[t] \in 1 .. clock'
    BY <1>4, <1>5, <1>18 DEF StampOf
  <2>3. ASSUME NEW j \in DOMAIN space'[t]
        PROVE  /\ j \in DOMAIN space[t] /\ j \in Keys(t) /\ space'[t][j] = space[t][j] /\ Written(t, j)
    <3>1. j \in DOMAIN space[t] /\ space'[t][j] = space[t][j]
      BY <1>15, <2>3
    <3> QED
      BY <1>0, <1>2, <3>1 DEF ThreadType, Written
  <2>4. ASSUME NEW j \in DOMAIN space'[t], NEW n \in Offset, Live(n)', pm'[n].key = j,
               n # space'[t][j]
        PROVE  pm'[n].ts < ts'[t]
    <3>1. j \in DOMAIN space[t] /\ j \in Keys(t) /\ n # space[t][j] /\ Live(n) /\ pm[n].key = j
      BY <1>5, <2>3, <2>4 DEF Live
    <3> QED
      BY <1>4, <1>5, <1>18, <3>1 DEF StampOf
  <2>5. ASSUME NEW j \in DOMAIN space'[t]
        PROVE  pm'[space'[t][j]] = [key |-> j, ts |-> ts'[t],
                            status |-> IF ops'[t][j] = "Put" THEN "Normal" ELSE "Outdated"]
    BY <1>4, <1>5, <1>18, <2>3, <2>5 DEF StampOf
  <2>6. \A j \in Key : ~Nothing(t, j)'
    BY <2>1 DEF Nothing
  <2>7. \A j \in DOMAIN space'[t] : \A n \in Offset :
          Live(n)' /\ pm'[n].key = j /\ ~(Written(t, j) /\ n = space[t][j])' => pm'[n].ts < ts'[t]
    BY <1>20, <2>4
  <2> QED
    BY <2>1, <2>2, <2>5, <2>6, <2>7 DEF StampOf
<1>24. StampInv'
  BY <1>22, <1>23 DEF StampInv
<1> QED
  BY <1>3, <1>11, <1>12, <1>13, <1>14, <1>16, <1>17, <1>19, <1>21, <1>24, BatchIntro

\* A record that counts and is not left over is linked, or the call that holds its key has
\* just written it and will publish it.
LEMMA Whereabouts ==
  ASSUME PlaceInv, ChainInv, StampInv, mode = "up", NEW m \in Offset, ~Loose(m)
  PROVE  \/ \E k \in Key : m \in chain[k] /\ pm[m].key = k /\ Live(m)
         \/ \E u \in Thread : \E k \in DOMAIN space[u] :
              /\ Stamped(u) /\ Written(u, k) /\ space[u][k] = m /\ StampOf(u)
              /\ pm[m].key = k /\ pm[m].ts = ts[u] /\ Live(m)
<1>1. CASE \E k \in Key : m \in chain[k]
  BY <1>1 DEF ChainInv
<1>2. ASSUME NEW u \in Thread, NEW k \in DOMAIN space[u], space[u][k] = m, Written(u, k)
      PROVE  /\ Stamped(u) /\ StampOf(u)
             /\ pm[m].key = k /\ pm[m].ts = ts[u] /\ Live(m)
  <2>1. Stamped(u)
    BY <1>2 DEF Written, Stamped
  <2>2. StampOf(u)
    BY <2>1 DEF StampInv
  <2>3. pm[m] = [key |-> k, ts |-> ts[u], status |-> IF ops[u][k] = "Put" THEN "Normal" ELSE "Outdated"]
    BY <1>2, <2>2 DEF StampOf
  <2> QED
    BY SMT, <2>1, <2>2, <2>3 DEF Live
<1>3. Placed /\ m \notin free /\ m \notin garbage
  BY DEF PlaceInv, Loose
<1>4. \/ \E k \in Key : m \in chain[k]
      \/ \E t \in Thread : \E k \in DOMAIN space[t] : space[t][k] = m /\ Written(t, k)
  BY <1>3 DEF Placed, Loose
<1> QED
  BY <1>1, <1>2, <1>4

\* Nobody but the cleaner or the recovery moves.
LEMMA NobodyMoves ==
  ASSUME BatchInv, UNCHANGED <<log, lockVars, clock, mode, scan, threadVars>>
  PROVE  /\ StampsLeft' /\ LockInv' /\ (\A u \in Thread : CallInv(u)') /\ LogInv'
         /\ \A u \in Thread : Kept(u)
<1>0. StampsLeft /\ LockInv /\ (\A u \in Thread : CallInv(u)) /\ LogInv
  BY BatchParts
<1>1. /\ lock' = lock /\ access' = access /\ pc' = pc /\ kind' = kind /\ ops' = ops /\ todo' = todo
      /\ ts' = ts /\ space' = space
  BY DEF lockVars, threadVars
<1>2. \A u \in Thread : Kept(u)
  BY <1>1 DEF Kept
<1>3. StampsLeft'
  BY <1>0, <1>1 DEF StampsLeft, Unstamped
<1>4. LockInv'
  BY <1>0, <1>1 DEF LockInv, HasLocked, Keys
<1>5. \A u \in Thread : CallInv(u)'
  BY <1>0, <1>2, CallKept
<1>6. LogInv'
  <2>1. \A u \in Thread : (Processing(u)' <=> Processing(u)) /\ Spaces(u)' = Spaces(u)
    BY SMT, <1>1 DEF Processing, Spaces
  <2> QED
    BY <1>0, <1>1, <2>1 DEF LogInv
<1> QED
  BY <1>2, <1>3, <1>4, <1>5, <1>6

\* Old versions of a key are unlinked; with the record of a deletion the whole key may go.
LEMMA UnlinkStep ==
  ASSUME BatchInv, mode = "up", NEW k \in Key, NEW S \in SUBSET chain[k], Unlink(k, S),
         \A n \in S, m \in chain[k] : m \notin S => pm[n].ts < pm[m].ts,
         \/ index' = index /\ index[k] \notin S
         \/ S = chain[k] /\ index' = [index EXCEPT ![k] = kNullPMemOffset],
         UNCHANGED <<free, recVars, clock, space>>, StoreType', ThreadType',
         StampsLeft', LockInv', \A u \in Thread : CallInv(u)', LogInv',
         \A u \in Thread : Stamped(u)' => Kept(u),
         \A u \in Thread : \A j \in DOMAIN space[u] : Written(u, j) => Written(u, j)'
  PROVE  BatchInv'
<1>0. StoreType /\ ThreadType /\ PlaceInv /\ RecordInv /\ ChainInv /\ LooseInv /\ StampInv
  BY BatchParts
<1>1. mode' = mode /\ scan' = scan /\ newest' = newest /\ free' = free /\ clock' = clock /\ space' = space
  BY DEF recVars
<1>2. /\ chain'[k] = chain[k] \ S /\ \A j \in Key : j # k => chain'[j] = chain[j]
      /\ garbage' = garbage \cup S
      /\ \A o \in Offset : /\ pm'[o].key = pm[o].key /\ pm'[o].ts = pm[o].ts
                           /\ pm'[o].status = IF o \in S /\ pm[o].status = "Normal"
                                              THEN "Dirty" ELSE pm[o].status
                           /\ o \notin S => pm'[o] = pm[o]
  BY <1>0, UnlinkType
<1>3. ASSUME NEW o \in S
      PROVE  /\ o \in Offset /\ Live(o) /\ pm[o].key = k /\ o \notin free /\ o \notin garbage
             /\ \A j \in Key : o \in chain[j] => j = k
             /\ \A u \in Thread : \A j \in DOMAIN space[u] : space[u][j] # o
  <2>1. o \in chain[k] /\ ChainPlaces /\ SpacePlaces /\ chain[k] \subseteq Offset
    BY <1>0 DEF PlaceInv, StoreType
  <2>2. o \in Offset /\ Live(o) /\ pm[o].key = k
    BY <1>0, <2>1 DEF ChainInv
  <2>3. o \notin free /\ o \notin garbage /\ \A j \in Key : o \in chain[j] => j = k
    BY <2>1 DEF ChainPlaces
  <2>4. ASSUME NEW u \in Thread, NEW j \in DOMAIN space[u] PROVE space[u][j] # o
    <3>1. space[u][j] \notin chain[k]
      BY <2>1 DEF SpacePlaces
    <3> QED
      BY <2>1, <3>1
  <2> QED
    BY <2>2, <2>3, <2>4
<1>4. ASSUME NEW o \in Offset
      PROVE  /\ pm'[o].status = "Normal" => pm[o].status = "Normal" /\ o \notin S
             /\ pm'[o].status = "Outdated" <=> pm[o].status = "Outdated"
             /\ Live(o)' => Live(o) /\ pm'[o] = pm[o]
  <2>1. /\ pm'[o].status = IF o \in S /\ pm[o].status = "Normal" THEN "Dirty" ELSE pm[o].status
        /\ o \notin S => pm'[o] = pm[o]
    BY <1>2
  <2>2. ASSUME o \in S, pm[o].status # "Normal" PROVE pm'[o] = pm[o]
    BY SMT, <1>2, <2>1, <2>2, <1>0 DEF StoreType, PmType
  <2>3. CASE o \in S /\ pm[o].status = "Normal"
    BY <2>1, <2>3 DEF Live
  <2>4. CASE ~(o \in S /\ pm[o].status = "Normal")
    <3>1. pm'[o] = pm[o]
      BY <2>1, <2>2, <2>4
    <3> QED
      BY <2>4, <3>1 DEF Live
  <2> QED
    BY <2>3, <2>4
<1>5. Fewer
  BY <1>4 DEF Fewer
<1>6. RecordInv'
  <2>1. newest <= newest'
    BY SMT, <1>0, <1>1 DEF StoreType, Timestamp
  <2> QED
    BY <1>0, <1>1, <1>5, <2>1, ClockKept, RecordsKept
<1>7. PlaceInv'
  <2>1. ChainPlaces' /\ (free \cap garbage = {})'
    <3>1. ASSUME NEW j \in Key, NEW o \in chain'[j]
          PROVE  o \notin free' /\ o \notin garbage' /\ \A i \in Key : o \in chain'[i] => i = j
      <4>1. \A i \in Key : \A n \in chain'[i] : n \in chain[i] /\ (i = k => n \notin S)
        BY <1>2
      <4>2. o \in chain[j] /\ o \notin S
        BY <1>3, <3>1, <4>1
      <4>3. ChainPlaces
        BY <1>0 DEF PlaceInv
      <4> QED
        BY <1>1, <1>2, <4>1, <4>2, <4>3 DEF ChainPlaces
    <3>2. (free \cap garbage = {})'
      BY <1>0, <1>1, <1>2, <1>3 DEF PlaceInv
    <3> QED
      BY <3>1, <3>2 DEF ChainPlaces
  <2>2. SpacePlaces'
    <3>1. ASSUME NEW u \in Thread, NEW j \in DOMAIN space[u]
          PROVE  /\ space[u][j] \notin free' /\ space[u][j] \notin garbage'
                 /\ \A i \in Key : space[u][j] \notin chain'[i]
                 /\ \A v \in Thread : \A i \in DOMAIN space[v] : space[v][i] = space[u][j] => v = u /\ i = j
      <4>1. /\ space[u][j] \notin free /\ space[u][j] \notin garbage
            /\ \A i \in Key : space[u][j] \notin chain[i]
            /\ \A v \in Thread : \A i \in DOMAIN space[v] : space[v][i] = space[u][j] => v = u /\ i = j
        BY <1>0 DEF PlaceInv, SpacePlaces
      <4>2. space[u][j] \notin S
        BY <1>3
      <4>3. \A i \in Key : chain'[i] \subseteq chain[i]
        BY <1>2
      <4> QED
        BY <1>1, <1>2, <4>1, <4>2, <4>3
    <3> QED
      BY <1>1, <3>1 DEF SpacePlaces
  <2>3. Placed'
    <3>1. ASSUME NEW o \in Offset, NEW j \in Key, o \in chain[j] PROVE o \in garbage' \/ o \in chain'[j]
      BY <1>2, <3>1
    <3>2. \A o \in garbage : o \in garbage'
      BY <1>2
    <3>3. Placed /\ free' = free /\ space' = space
      BY <1>0, <1>1 DEF PlaceInv
    <3> QED
      BY <3>1, <3>2, <3>3 DEF Placed
  <2>4. DownPlaces'
    BY <1>1 DEF DownPlaces
  <2> QED
    BY <2>1, <2>2, <2>3, <2>4 DEF PlaceInv
<1>8. \A j \in Key : \/ index'[j] = index[j] /\ (j = k => index[k] \notin S)
                     \/ j = k /\ S = chain[k] /\ index'[k] = kNullPMemOffset
  BY <1>0 DEF StoreType
<1>9. ChainInv'
  <2>1. ASSUME NEW j \in Key
        PROVE  /\ \A o \in chain'[j] : Live(o)' /\ pm'[o].key = j /\ pm'[o].ts <= pm'[index'[j]].ts
               /\ IF index'[j] = kNullPMemOffset THEN chain'[j] = {} ELSE index'[j] \in chain'[j]
    <3>1. CASE j = k /\ S = chain[k] /\ index'[k] = kNullPMemOffset
      <4>1. chain'[j] = {}
        BY <1>2, <3>1
      <4> QED
        BY <3>1, <4>1
    <3>2. CASE index'[j] = index[j] /\ (j = k => index[k] \notin S)
      <4>1. \A o \in chain[j] : o \in Offset /\ Live(o) /\ pm[o].key = j /\ pm[o].ts <= pm[index[j]].ts
        BY <1>0 DEF ChainInv, StoreType
      <4>2. IF index[j] = kNullPMemOffset THEN chain[j] = {} ELSE index[j] \in chain[j]
        BY <1>0 DEF ChainInv
      <4>3. \A o \in chain'[j] : o \in chain[j] /\ o \notin S
        BY <1>2, <1>3, <2>1
      <4>4. index[j] # kNullPMemOffset => index[j] \in chain'[j]
        BY <1>2, <3>2, <4>2
      <4>5. \A o \in chain'[j] : pm'[o] = pm[o]
        BY <1>2, <4>1, <4>3
      <4>6. ASSUME NEW o \in chain'[j] PROVE pm'[index[j]] = pm[index[j]]
        BY <4>2, <4>3, <4>4, <4>5
      <4> QED
        BY <3>2, <4>1, <4>2, <4>3, <4>4, <4>5, <4>6 DEF Live
    <3> QED
      BY <1>8, <3>1, <3>2
  <2> QED
    BY <2>1 DEF ChainInv
<1>10. ASSUME NEW n \in S, NEW m \in Offset, pm[n].status = "Outdated", pm[m].status = "Normal",
              pm[m].key = k, m \notin S
       PROVE  pm[n].ts < pm[m].ts
  <2>1. ~Loose(m)
    BY <1>0, <1>10 DEF LooseInv
  <2>2. CASE \E j \in Key : m \in chain[j] /\ pm[m].key = j
    BY <1>10, <2>2
  <2>3. ASSUME NEW u \in Thread, NEW j \in DOMAIN space[u], Stamped(u), Written(u, j),
               space[u][j] = m, StampOf(u), pm[m].key = j, pm[m].ts = ts[u]
        PROVE  pm[n].ts < pm[m].ts
    <3>1. n \in Offset /\ Live(n) /\ pm[n].key = j /\ n # space[u][j] /\ j \in Keys(u)
      BY <1>0, <1>3, <1>10, <2>3 DEF ThreadType
    <3> QED
      BY <2>3, <3>1 DEF StampOf
  <2> QED
    BY <1>0, <2>1, <2>2, <2>3, Whereabouts
<1>11. LooseInv'
  <2>1. ASSUME NEW m \in Offset, Loose(m)' PROVE Loose(m) \/ m \in S
    BY <1>1, <1>2, <2>1 DEF Loose
  <2>2. ASSUME NEW m \in Offset, Loose(m)'
        PROVE  /\ pm'[m].status # "Normal"
               /\ pm'[m].status = "Outdated" =>
                    \A n \in Offset : pm'[n].status = "Normal" /\ pm'[n].key = pm'[m].key
                                      => pm'[m].ts < pm'[n].ts
    <3>1. pm'[m].status # "Normal"
      BY <1>0, <1>4, <2>1, <2>2 DEF LooseInv
    <3>2. ASSUME pm'[m].status = "Outdated", NEW n \in Offset, pm'[n].status = "Normal",
                 pm'[n].key = pm'[m].key
          PROVE  pm'[m].ts < pm'[n].ts
      <4>1. /\ pm[m].status = "Outdated" /\ pm[n].status = "Normal" /\ pm[n].key = pm[m].key
            /\ n \notin S
        BY <1>2, <1>4, <3>2
      <4>2. pm[m].ts < pm[n].ts
        <5>1. CASE m \in S
          BY <1>3, <1>10, <4>1, <5>1
        <5>2. CASE Loose(m)
          BY <1>0, <4>1, <5>2 DEF LooseInv
        <5> QED
          BY <2>1, <2>2, <5>1, <5>2
      <4> QED
        BY <1>2, <4>2
    <3> QED
      BY <3>1, <3>2
  <2> QED
    BY <1>1, <2>2 DEF LooseInv
<1>12. StampInv'
  <2>1. SUFFICES ASSUME NEW u \in Thread, Stamped(u)' PROVE StampOf(u)'
    BY DEF StampInv
  <2>2. Kept(u) /\ Stamped(u)
    BY <2>1 DEF Kept, Stamped
  <2>3. StampOf(u)
    BY <1>0, <2>2 DEF StampInv
  <2>4. \A j \in DOMAIN space[u] : pm'[space[u][j]] = pm[space[u][j]]
    <3>1. \A j \in DOMAIN space[u] : space[u][j] \in Offset /\ space[u][j] \notin S
      BY <1>0, <1>3, SpaceTypeDef DEF ThreadType
    <3> QED
      BY <1>2, <3>1
  <2>5. \A j \in Keys(u) : HasValue(j)' => HasValue(j)
    <3>1. \A j \in Keys(u) : j \in Key /\ index[j] \in Offset \cup {kNullPMemOffset}
      BY <1>0, KeysType DEF StoreType
    <3>2. SUFFICES ASSUME NEW j \in Keys(u), HasValue(j)' PROVE HasValue(j)
      OBVIOUS
    <3> QED
      BY <1>4, <1>8, <3>1, <3>2 DEF HasValue
  <2> QED
    BY <1>0, <1>1, <1>4, <2>2, <2>3, <2>4, <2>5, ClockKept, StampKept
<1> QED
  BY <1>6, <1>7, <1>9, <1>11, <1>12, BatchIntro

\* What removeOutDatedVersion unlinks is older than what it leaves, and the newest version stays.
LEMMA OutDatedOlder ==
  ASSUME StoreType, NEW k \in Key, NEW min \in Int, NEW n \in OutDated(k, min), NEW m \in chain[k],
         m \notin OutDated(k, min)
  PROVE  pm[n].ts < pm[m].ts
<1>1. PICK p \in chain[k] : pm[n].ts < pm[p].ts /\ pm[p].ts <= min
  BY DEF OutDated
<1>2. ~(pm[m].ts < pm[p].ts)
  BY <1>1 DEF OutDated
<1>3. n \in chain[k] /\ chain[k] \subseteq Offset
  BY DEF OutDated, StoreType
<1>4. pm[n].ts \in Nat /\ pm[m].ts \in Nat /\ pm[p].ts \in Nat
  BY SMT, <1>1, <1>3 DEF StoreType, PmType, Timestamp
<1> QED
  BY SMT, <1>1, <1>2, <1>4

LEMMA NewestStays ==
  ASSUME StoreType, ChainInv, NEW k \in Key, NEW min \in Int
  PROVE  index[k] \notin OutDated(k, min)
<1>1. SUFFICES ASSUME index[k] \in OutDated(k, min) PROVE FALSE
  OBVIOUS
<1>2. PICK p \in chain[k] : pm[index[k]].ts < pm[p].ts
  BY <1>1 DEF OutDated
<1>3. pm[p].ts <= pm[index[k]].ts /\ index[k] \in chain[k]
  BY <1>1, <1>2 DEF ChainInv, OutDated
<1>4. pm[p].ts \in Nat /\ pm[index[k]].ts \in Nat
  BY SMT, <1>2, <1>3 DEF StoreType, PmType, Timestamp
<1> QED
  BY SMT, <1>2, <1>3, <1>4

LEMMA RemoveOutDatedPreserves ==
  ASSUME BatchInv, NEW t \in Thread, RemoveOutDated(t)
  PROVE  BatchInv'
<1>0. /\ StoreType /\ ThreadType /\ StampsLeft /\ LockInv /\ CallInv(t)
      /\ (\A u \in Thread : CallInv(u)) /\ LogInv /\ ChainInv
  BY BatchParts
<1>1. StoreType' /\ ThreadType'
  BY <1>0, RemoveOutDatedType
<1>2. PICK k \in Keys(t), min \in Timestamp : Unlink(k, OutDated(k, min))
  BY DEF RemoveOutDated
<1>3. /\ pc[t] = "remove" /\ mode = "up" /\ pc' = [pc EXCEPT ![t] = "release"]
      /\ UNCHANGED <<log, index, free, lockVars, clock, recVars, kind, ops, todo, ts, space, crashes>>
  BY DEF RemoveOutDated, At, GoTo
<1>4. /\ Others(t) /\ pc'[t] = "release" /\ kind'[t] = kind[t] /\ ops'[t] = ops[t]
      /\ todo'[t] = todo[t] /\ ts'[t] = ts[t] /\ space'[t] = space[t]
  BY <1>0, <1>3 DEF Others, Kept, ThreadType
<1>5. k \in Key
  BY <1>0, OpsType DEF ThreadType, Keys
<1>6. PICK S : S = OutDated(k, min)
  OBVIOUS
<1>7. S \in SUBSET chain[k] /\ Unlink(k, S)
  BY <1>2, <1>6 DEF OutDated
<1>16. min \in Int
  BY SMT, BatchAssumption DEF Timestamp
<1>8. ASSUME NEW n \in S, NEW m \in chain[k], m \notin S PROVE pm[n].ts < pm[m].ts
  BY <1>0, <1>5, <1>6, <1>8, <1>16, OutDatedOlder
<1>9. index' = index /\ index[k] \notin S
  BY <1>0, <1>3, <1>5, <1>6, <1>16, NewestStays
<1>10. StampsLeft'
  BY <1>0, <1>3, <1>4, StampsKept DEF Others, Kept
<1>11. LockInv'
  BY <1>0, <1>3, <1>4, LockKept DEF lockVars, recVars
<1>12. \A u \in Thread : CallInv(u)'
  <2>1. CallInv(t)'
    BY <1>0, <1>3, <1>4 DEF CallInv, Keys
  <2> QED
    BY <1>0, <1>4, <2>1, CallsKept
<1>13. LogInv'
  <2>1. ~Processing(t) /\ ~Processing(t)' /\ pc'[t] # "process"
    BY <1>3, <1>4 DEF Processing
  <2> QED
    BY <1>0, <1>3, <1>4, <2>1, LogKept DEF recVars
<1>14. \A u \in Thread : Stamped(u)' => Kept(u)
  BY <1>4 DEF Stamped, Others
<1>15. \A u \in Thread : \A j \in DOMAIN space[u] : Written(u, j) => Written(u, j)'
  BY <1>3, <1>4 DEF Written, Others, Kept
<1> QED
  BY <1>1, <1>3, <1>5, <1>7, <1>8, <1>9, <1>10, <1>11, <1>12, <1>13, <1>14, <1>15, UnlinkStep

LEMMA CleanOutDatedPreserves ==
  ASSUME BatchInv, NEW k \in Key, CleanOutDated(k)
  PROVE  BatchInv'
<1>0. StoreType /\ ThreadType /\ ChainInv /\ RecordInv
  BY BatchParts
<1>1. StoreType' /\ ThreadType'
  BY <1>0, CleanOutDatedType
<1>2. /\ mode = "up" /\ index[k] # kNullPMemOffset
      /\ UNCHANGED <<log, free, lockVars, clock, recVars, threadVars, crashes>>
  BY DEF CleanOutDated
<1>3. PICK min \in 1 .. MaxTs + 1 :
        LET erase == pm[index[k]].status = "Outdated" /\ pm[index[k]].ts < min
        IN  /\ Unlink(k, OutDated(k, min) \cup (IF erase THEN {index[k]} ELSE {}))
            /\ index' = [index EXCEPT ![k] = IF erase THEN kNullPMemOffset ELSE @]
  BY DEF CleanOutDated
<1>4. /\ StampsLeft' /\ LockInv' /\ (\A u \in Thread : CallInv(u)') /\ LogInv'
      /\ \A u \in Thread : Kept(u)
  BY <1>2, NobodyMoves DEF recVars
<1>5. space' = space /\ \A u \in Thread : \A j \in DOMAIN space[u] : Written(u, j) => Written(u, j)'
  BY <1>2, <1>4 DEF Kept, Written, threadVars
<1>9. min \in Int
  BY SMT, BatchAssumption
<1>6. index[k] \in chain[k] /\ min \in Int
  BY <1>0, <1>2, <1>9 DEF ChainInv
<1>7. CASE pm[index[k]].status = "Outdated" /\ pm[index[k]].ts < min
  <2>1. /\ Unlink(k, OutDated(k, min) \cup {index[k]})
        /\ index' = [index EXCEPT ![k] = kNullPMemOffset]
    BY <1>3, <1>7
  <2>2. OutDated(k, min) \cup {index[k]} = chain[k]
    <3>1. ASSUME NEW o \in chain[k], o # index[k] PROVE o \in OutDated(k, min)
      <4>1. /\ o \in Offset /\ index[k] \in Offset /\ Live(o) /\ Live(index[k])
            /\ pm[o].key = k /\ pm[index[k]].key = k /\ pm[o].ts <= pm[index[k]].ts
        BY <1>0, <1>6, <3>1 DEF StoreType, ChainInv
      <4>2. pm[o].ts # pm[index[k]].ts
        BY <1>0, <3>1, <4>1 DEF RecordInv
      <4>3. pm[o].ts \in Nat /\ pm[index[k]].ts \in Nat
        BY SMT, <1>0, <4>1 DEF StoreType, PmType, Timestamp
      <4>4. pm[o].ts < pm[index[k]].ts /\ pm[index[k]].ts <= min
        BY SMT, <1>6, <1>7, <4>1, <4>2, <4>3
      <4> QED
        BY <1>6, <4>4 DEF OutDated
    <3> QED
      BY <1>6, <3>1 DEF OutDated
  <2>3. chain[k] \in SUBSET chain[k] /\ Unlink(k, chain[k])
    BY <2>1, <2>2
  <2> QED
    BY <1>1, <1>2, <1>4, <1>5, <2>1, <2>3, UnlinkStep
<1>8. CASE ~(pm[index[k]].status = "Outdated" /\ pm[index[k]].ts < min)
  <2>1. PICK S : S = OutDated(k, min)
    OBVIOUS
  <2>2. Unlink(k, S) /\ index' = [index EXCEPT ![k] = index[k]]
    <3>1. OutDated(k, min) \cup {} = S
      BY <2>1
    <3> QED
      BY <1>3, <1>8, <3>1
  <2>3. index' = index /\ index[k] \notin S
    <3>1. index' = index
      BY <1>0, <2>2 DEF StoreType
    <3> QED
      BY <1>0, <1>6, <2>1, <3>1, NewestStays
  <2>4. S \in SUBSET chain[k]
    BY <2>1 DEF OutDated
  <2>5. ASSUME NEW n \in S, NEW m \in chain[k], m \notin S PROVE pm[n].ts < pm[m].ts
    BY <1>0, <1>6, <2>1, <2>5, OutDatedOlder
  <2> QED
    BY <1>1, <1>2, <1>4, <1>5, <2>2, <2>3, <2>4, <2>5, UnlinkStep
<1> QED
  BY <1>7, <1>8

LEMMA PurgePreserves ==
  ASSUME BatchInv, NEW o \in Offset, PurgeAndFree(o)
  PROVE  BatchInv'
<1>0. StoreType /\ ThreadType /\ PlaceInv /\ RecordInv /\ ChainInv /\ LooseInv /\ StampInv
  BY BatchParts
<1>1. StoreType' /\ ThreadType'
  BY <1>0, PurgeType
<1>2. /\ mode = "up" /\ o \in garbage /\ garbage' = garbage \ {o} /\ free' = free \cup {o}
      /\ UNCHANGED <<log, index, chain, lockVars, clock, recVars, threadVars, crashes>>
  BY DEF PurgeAndFree
<1>3. pm' = pm
  BY <1>0, <1>2 DEF LooseInv, Loose, PurgeAndFree
<1>4. /\ StampsLeft' /\ LockInv' /\ (\A u \in Thread : CallInv(u)') /\ LogInv'
      /\ \A u \in Thread : Kept(u)
  BY <1>2, NobodyMoves DEF recVars
<1>5. space' = space /\ mode' = mode /\ scan' = scan /\ newest' = newest
  BY <1>2 DEF threadVars, recVars
<1>6. \A n \in Offset : n \in free' \/ n \in garbage' <=> n \in free \/ n \in garbage
  BY <1>2
<1>7. PlaceInv'
  <2>1. ChainPlaces' /\ (free \cap garbage = {})'
    BY <1>0, <1>2 DEF PlaceInv, ChainPlaces
  <2>2. SpacePlaces'
    <3>1. \A n : n \in free' \/ n \in garbage' => n \in free \/ n \in garbage
      BY <1>2
    <3>2. SpacePlaces
      BY <1>0 DEF PlaceInv
    <3>3. chain' = chain
      BY <1>2
    <3> QED
      BY SMT, <1>5, <3>1, <3>2, <3>3 DEF SpacePlaces
  <2>3. Placed' /\ DownPlaces'
    BY <1>0, <1>2, <1>5, <1>6 DEF PlaceInv, Placed, DownPlaces
  <2> QED
    BY <2>1, <2>2, <2>3 DEF PlaceInv
<1>8. RecordInv' /\ ChainInv'
  <2>1. newest <= newest'
    BY SMT, <1>0, <1>5 DEF StoreType, Timestamp
  <2> QED
    BY <1>0, <1>1, <1>2, <1>3, <1>5, <2>1, ClockKept, SamePm, RecordsKept, ChainKept
<1>9. LooseInv'
  <2>1. \A n \in Offset : Loose(n)' => Loose(n)
    BY <1>2, <1>4, <1>5, <1>6 DEF Loose, Written, Kept
  <2> QED
    BY <1>0, <1>2, <1>3, <1>5, <2>1, LooseKept
<1>10. StampInv'
  <2>1. SUFFICES ASSUME NEW u \in Thread, Stamped(u)' PROVE StampOf(u)'
    BY DEF StampInv
  <2>2. Kept(u) /\ Stamped(u)
    BY <1>4, <2>1 DEF Kept, Stamped
  <2>3. StampOf(u)
    BY <1>0, <2>2 DEF StampInv
  <2>4. \A j \in Keys(u) : HasValue(j)' => HasValue(j)
    BY <1>2, <1>3 DEF HasValue
  <2>5. \A n \in Offset : Live(n)' => Live(n) /\ pm'[n] = pm[n]
    BY <1>3 DEF Live
  <2> QED
    BY <1>0, <1>1, <1>2, <1>3, <2>2, <2>3, <2>4, <2>5, ClockKept, StampKept
<1> QED
  BY <1>1, <1>4, <1>7, <1>8, <1>9, <1>10, BatchIntro

\* A crash takes everything but PMem; a record that was being written may be torn.
LEMMA LoseDramPreserves ==
  ASSUME BatchInv, NEW torn \in SUBSET BeingWritten, LoseDram(torn), crashes' \in 0 .. MaxCrashes
  PROVE  BatchInv'
<1>0. StoreType /\ ThreadType /\ RecordInv
  BY BatchParts
<1>1. StoreType' /\ ThreadType'
  BY <1>0, LoseDramType
<1>2. /\ pm' = [o \in Offset |-> IF o \in torn THEN NoRecord ELSE pm[o]]
      /\ index' = [k \in Key |-> kNullPMemOffset] /\ chain' = [k \in Key |-> {}]
      /\ free' = {} /\ garbage' = {}
      /\ clock' = 0 /\ mode' = "rollback" /\ scan' = Slot
      /\ pc' = [t \in Thread |-> "idle"] /\ ops' = [t \in Thread |-> NoOps]
      /\ space' = [t \in Thread |-> NoSpace]
  BY DEF LoseDram
<1>3. /\ \A t \in Thread : pc'[t] = "idle" /\ ops'[t] = NoOps /\ DOMAIN space'[t] = {}
      /\ \A k \in Key : index'[k] = kNullPMemOffset /\ chain'[k] = {}
  BY <1>2, NoSpaceType
<1>4. StampsLeft'
  <2>1. Unstamped' = {}
    BY <1>3 DEF Unstamped
  <2>2. IsFiniteSet(Unstamped') /\ Cardinality(Unstamped') = 0
    BY <2>1, FS_EmptySet
  <2> QED
    BY SMT, <1>2, <2>2, BatchAssumption DEF StampsLeft
<1>5. LockInv'
  BY <1>3 DEF LockInv, HasLocked
<1>6. \A t \in Thread : CallInv(t)'
  <2>1. DOMAIN NoOps = {}
    BY DEF NoOps
  <2> QED
    BY <1>3, <2>1 DEF CallInv, Keys
<1>7. LogInv'
  BY <1>2, <1>3 DEF LogInv, Processing
<1>8. PlaceInv'
  BY <1>2, <1>3 DEF PlaceInv, ChainPlaces, SpacePlaces, Placed, DownPlaces
<1>9. RecordInv'
  <2>1. ASSUME NEW o \in Offset, Live(o)' PROVE Live(o) /\ pm'[o] = pm[o]
    BY <1>2, <2>1 DEF Live, NoRecord
  <2> QED
    BY <1>0, <1>2, <2>1 DEF RecordInv
<1>10. ChainInv' /\ LooseInv' /\ StampInv'
  BY <1>2, <1>3 DEF ChainInv, LooseInv, StampInv, Stamped
<1> QED
  BY <1>1, <1>4, <1>5, <1>6, <1>7, <1>8, <1>9, <1>10, BatchIntro

LEMMA CrashPreserves ==
  ASSUME BatchInv, Crash \/ \E t \in Thread : NullEntry(t)
  PROVE  BatchInv'
<1>0. crashes \in 0 .. MaxCrashes
  BY BatchParts DEF StoreType
<1>1. CASE Crash
  <2>1. crashes' \in 0 .. MaxCrashes
    BY SMT, <1>0, <1>1, BatchAssumption DEF Crash
  <2> QED
    BY <1>1, <2>1, LoseDramPreserves DEF Crash
<1>2. CASE \E t \in Thread : NullEntry(t)
  BY <1>0, <1>2, LoseDramPreserves DEF NullEntry
<1> QED
  BY <1>1, <1>2

----------------------------------------------------------------------------
\* While the instance is down nobody is in a call.
LEMMA DownFacts ==
  ASSUME BatchInv, mode # "up"
  PROVE  /\ garbage = {}
         /\ \A t \in Thread : /\ pc[t] = "idle" /\ DOMAIN space[t] = {} /\ ~Processing(t) /\ ~Stamped(t)
                              /\ \A k \in Key : ~HasLocked(t, k)
<1>0. PlaceInv /\ \A u \in Thread : CallInv(u)
  BY BatchParts
<1>1. garbage = {} /\ \A t \in Thread : pc[t] = "idle"
  BY <1>0 DEF PlaceInv, DownPlaces
<1> QED
  BY <1>0, <1>1 DEF CallInv, Processing, Stamped, HasLocked

LEMMA DownStep ==
  ASSUME BatchInv, mode # "up", UNCHANGED threadVars, StoreType'
  PROVE  /\ StampsLeft' /\ LockInv' /\ (\A u \in Thread : CallInv(u)') /\ StampInv' /\ SpacePlaces'
         /\ \A t \in Thread : pc'[t] = "idle" /\ DOMAIN space'[t] = {} /\ ~Processing(t)'
<1>0. \A u \in Thread : CallInv(u)
  BY BatchParts
<1>1. \A t \in Thread : pc'[t] = "idle" /\ DOMAIN space'[t] = {} /\ Kept(t)
  BY DownFacts DEF threadVars, Kept
<1>2. StampsLeft'
  <2>1. Unstamped' = {}
    BY <1>1 DEF Unstamped
  <2>2. IsFiniteSet(Unstamped') /\ Cardinality(Unstamped') = 0
    BY <2>1, FS_EmptySet
  <2> QED
    BY SMT, <2>2, BatchAssumption DEF StampsLeft, StoreType, Timestamp
<1>3. LockInv' /\ StampInv' /\ SpacePlaces'
  BY <1>1 DEF LockInv, HasLocked, StampInv, Stamped, SpacePlaces
<1> QED
  BY <1>0, <1>1, <1>2, <1>3, CallKept DEF Processing

LEMMA RollbackRecordPreserves ==
  ASSUME BatchInv, NEW s \in Slot, RollbackRecord(s)
  PROVE  BatchInv'
<1>0. StoreType /\ ThreadType /\ LogInv /\ PlaceInv /\ RecordInv /\ ChainInv
  BY BatchParts
<1>1. StoreType' /\ ThreadType'
  BY <1>0, RollbackType
<1>2. /\ mode = "rollback" /\ UNCHANGED <<log, storeVars, lockVars, clock, recVars, threadVars, crashes>>
  BY DEF RollbackRecord
<1>3. PICK o \in log[s].offs : Destroy(o)
  BY DEF RollbackRecord
<1>4. o \in Offset
  BY <1>0 DEF StoreType, LogType
<1>5. pm'[o].status = "Empty" /\ \A n \in Offset : n # o => pm'[n] = pm[n]
  BY <1>0, <1>3, <1>4, DestroyType
<1>6. Fewer
  BY <1>5 DEF Fewer, Live
<1>7. /\ index' = index /\ chain' = chain /\ free' = free /\ garbage' = garbage
      /\ mode' = mode /\ scan' = scan /\ newest' = newest /\ clock' = clock
  BY <1>2 DEF storeVars, recVars
<1>8. /\ StampsLeft' /\ LockInv' /\ (\A u \in Thread : CallInv(u)') /\ StampInv' /\ SpacePlaces'
      /\ \A t \in Thread : pc'[t] = "idle" /\ ~Processing(t)'
  BY <1>1, <1>2, DownStep
<1>9. LogInv'
  BY <1>2, NobodyMoves DEF recVars
<1>10. PlaceInv'
  BY <1>0, <1>2, <1>7, <1>8 DEF PlaceInv, ChainPlaces, Placed, DownPlaces
<1>11. RecordInv'
  <2>1. newest <= newest'
    BY SMT, <1>0, <1>7 DEF StoreType, Timestamp
  <2> QED
    BY <1>0, <1>1, <1>6, <1>7, <2>1, ClockKept, RecordsKept
<1>12. ChainInv'
  BY <1>0, <1>2, <1>7 DEF ChainInv, PlaceInv, DownPlaces
<1>13. LooseInv'
  BY <1>2, <1>7 DEF LooseInv
<1> QED
  BY <1>1, <1>8, <1>9, <1>10, <1>11, <1>12, <1>13, BatchIntro

LEMMA RollbackLogPreserves ==
  ASSUME BatchInv, NEW s \in Slot, RollbackLog(s)
  PROVE  BatchInv'
<1>0. StoreType /\ ThreadType /\ LogInv /\ PlaceInv /\ RecordInv /\ ChainInv
  BY BatchParts
<1>1. StoreType' /\ ThreadType'
  BY <1>0, RollbackType
<1>2. /\ mode = "rollback" /\ SetStage(s, "Initializing") /\ scan' = scan \ {s}
      /\ UNCHANGED <<pm, storeVars, lockVars, clock, mode, newest, threadVars, crashes>>
  BY DEF RollbackLog
<1>3. /\ index' = index /\ chain' = chain /\ free' = free /\ garbage' = garbage
      /\ mode' = mode /\ pm' = pm
  BY <1>2 DEF storeVars
<1>4. /\ StampsLeft' /\ LockInv' /\ (\A u \in Thread : CallInv(u)') /\ StampInv' /\ SpacePlaces'
      /\ \A t \in Thread : pc'[t] = "idle" /\ ~Processing(t)'
  BY <1>1, <1>2, DownStep
<1>5. LogInv'
  <2>1. log'[s].stage = "Initializing" /\ \A r \in Slot : r # s => log'[r] = log[r]
    BY <1>0, <1>2, SetStageType DEF StoreType
  <2>2. ASSUME NEW r \in Slot, log'[r].stage = "Processing" PROVE r \in scan'
    <3>1. r # s /\ log[r].stage = "Processing"
      BY <2>1, <2>2
    <3>2. r \in scan
      BY <1>0, <1>2, <3>1, DownFacts DEF LogInv
    <3> QED
      BY <1>2, <3>1, <3>2
  <2> QED
    BY <1>2, <1>3, <1>4, <2>2 DEF LogInv
<1>6. PlaceInv'
  BY <1>0, <1>2, <1>3, <1>4 DEF PlaceInv, ChainPlaces, Placed, DownPlaces
<1>7. RecordInv'
  BY <1>0, <1>2, <1>3 DEF RecordInv, Live
<1>8. ChainInv'
  BY <1>0, <1>3, ChainKept
<1>9. LooseInv'
  BY <1>2, <1>3 DEF LooseInv
<1> QED
  BY <1>1, <1>4, <1>5, <1>6, <1>7, <1>8, <1>9, BatchIntro

LEMMA RemoveLogsPreserves ==
  ASSUME BatchInv, RemoveLogs
  PROVE  BatchInv'
<1>0. StoreType /\ ThreadType /\ LogInv /\ PlaceInv /\ RecordInv /\ ChainInv
  BY BatchParts
<1>1. StoreType' /\ ThreadType'
  BY <1>0, RemoveLogsType
<1>2. /\ mode = "rollback" /\ log' = [s \in Slot |-> EmptyLog] /\ mode' = "restore" /\ scan' = Offset
      /\ UNCHANGED <<pm, storeVars, lockVars, clock, newest, threadVars, crashes>>
  BY DEF RemoveLogs
<1>3. index' = index /\ chain' = chain /\ free' = free /\ garbage' = garbage /\ pm' = pm
  BY <1>2 DEF storeVars
<1>4. /\ StampsLeft' /\ LockInv' /\ (\A u \in Thread : CallInv(u)') /\ StampInv' /\ SpacePlaces'
      /\ \A t \in Thread : pc'[t] = "idle" /\ ~Processing(t)'
  BY <1>1, <1>2, DownStep
<1>5. LogInv'
  <2>1. \A s \in Slot : log'[s].stage = "Initializing"
    BY SMT, <1>2 DEF EmptyLog
  <2> QED
    BY <1>4, <2>1 DEF LogInv
<1>6. garbage = {} /\ free = {} /\ \A k \in Key : chain[k] = {}
  BY <1>0, <1>2 DEF PlaceInv, DownPlaces
<1>7. PlaceInv'
  BY <1>2, <1>3, <1>4, <1>6 DEF PlaceInv, ChainPlaces, Placed, DownPlaces
<1>8. RecordInv'
  BY <1>0, <1>2, <1>3 DEF RecordInv, Live
<1>9. ChainInv' /\ LooseInv'
  BY <1>0, <1>2, <1>3, <1>6, ChainKept DEF LooseInv
<1> QED
  BY <1>1, <1>4, <1>5, <1>7, <1>8, <1>9, BatchIntro

\* After the rollback no log is being processed.
LEMMA RestoreLogs ==
  ASSUME BatchInv, mode = "restore", UNCHANGED <<log, threadVars>>
  PROVE  LogInv'
<1>1. LogInv /\ \A t \in Thread : pc[t] = "idle" /\ ~Processing(t)
  BY BatchParts, DownFacts
<1>2. \A s \in Slot : log[s].stage # "Processing"
  BY <1>1 DEF LogInv
<1> QED
  BY <1>1, <1>2 DEF LogInv, Processing, threadVars

LEMMA RestoreFreePreserves ==
  ASSUME BatchInv, NEW o \in Offset, RestoreFree(o)
  PROVE  BatchInv'
<1>0. StoreType /\ ThreadType /\ PlaceInv /\ RecordInv /\ ChainInv /\ LooseInv
  BY BatchParts
<1>1. StoreType' /\ ThreadType'
  BY <1>0, RestoreFreeType
<1>2. /\ mode = "restore" /\ o \in scan /\ pm[o].status \in {"Empty", "Dirty"}
      /\ free' = free \cup {o} /\ scan' = scan \ {o}
      /\ UNCHANGED <<pmemVars, index, chain, garbage, lockVars, clock, mode, newest, threadVars, crashes>>
  BY DEF RestoreFree
<1>3. pm' = pm /\ log' = log
  BY <1>2 DEF pmemVars
<1>4. /\ StampsLeft' /\ LockInv' /\ (\A u \in Thread : CallInv(u)') /\ StampInv' /\ SpacePlaces'
      /\ \A t \in Thread : pc'[t] = "idle"
  BY <1>1, <1>2, DownStep
<1>5. LogInv'
  BY <1>2, <1>3, RestoreLogs
<1>6. ~Live(o)
  BY <1>2 DEF Live
<1>7. garbage = {} /\ o \notin free /\ \A k \in Key : o \notin chain[k]
  BY <1>0, <1>2 DEF PlaceInv, DownPlaces
<1>8. PlaceInv'
  <2>1. ChainPlaces'
    BY <1>0, <1>2, <1>7 DEF PlaceInv, ChainPlaces
  <2>2. Placed' /\ DownPlaces'
    BY <1>0, <1>2, <1>4, <1>7 DEF PlaceInv, Placed, DownPlaces
  <2> QED
    BY <1>2, <1>4, <1>7, <2>1, <2>2 DEF PlaceInv
<1>9. RecordInv'
  BY <1>0, <1>2, <1>3, <1>6 DEF RecordInv, Live
<1>10. ChainInv'
  BY <1>0, <1>2, <1>3, ChainKept
<1>11. LooseInv'
  BY <1>0, <1>2, <1>3, <1>6 DEF LooseInv, Live
<1> QED
  BY <1>1, <1>4, <1>5, <1>8, <1>9, <1>10, <1>11, BatchIntro

LEMMA RestoreDonePreserves ==
  ASSUME BatchInv, RestoreDone
  PROVE  BatchInv'
<1>0. StoreType /\ ThreadType /\ PlaceInv /\ RecordInv /\ ChainInv /\ LooseInv
  BY BatchParts
<1>1. StoreType' /\ ThreadType'
  BY <1>0, RestoreDoneType
<1>2. /\ mode = "restore" /\ scan = {} /\ mode' = "up" /\ clock' = newest
      /\ UNCHANGED <<pmemVars, storeVars, lockVars, scan, newest, threadVars, crashes>>
  BY DEF RestoreDone
<1>3. pm' = pm /\ log' = log /\ index' = index /\ chain' = chain /\ free' = free /\ garbage' = garbage
  BY <1>2 DEF pmemVars, storeVars
<1>4. /\ StampsLeft' /\ LockInv' /\ (\A u \in Thread : CallInv(u)') /\ StampInv' /\ SpacePlaces'
      /\ \A t \in Thread : pc'[t] = "idle" /\ DOMAIN space'[t] = {}
  BY <1>1, <1>2, DownStep
<1>5. LogInv'
  BY <1>2, <1>3, RestoreLogs
<1>6. garbage = {}
  BY <1>0, <1>2 DEF PlaceInv, DownPlaces
<1>7. PlaceInv'
  <2>1. ChainPlaces'
    BY <1>0, <1>3 DEF PlaceInv, ChainPlaces
  <2>2. Placed' /\ DownPlaces'
    BY <1>0, <1>2, <1>3 DEF PlaceInv, Placed, DownPlaces
  <2> QED
    BY <1>3, <1>4, <1>6, <2>1, <2>2 DEF PlaceInv
<1>8. RecordInv'
  BY <1>0, <1>2, <1>3 DEF RecordInv, Live
<1>9. ChainInv'
  BY <1>0, <1>3, ChainKept
<1>10. LooseInv'
  <2>1. \A n \in Offset : Loose(n)' => n \in free
    BY <1>3, <1>4, <1>6 DEF Loose
  <2>2. \A n \in Offset : Loose(n)' => ~Live(n)
    BY <1>0, <1>2, <2>1 DEF LooseInv
  <2> QED
    BY <1>2, <1>3, <2>2 DEF LooseInv, Live
<1> QED
  BY <1>1, <1>4, <1>5, <1>7, <1>8, <1>9, <1>10, BatchIntro

LEMMA RestoreRecordPreserves ==
  ASSUME BatchInv, NEW o \in Offset, RestoreRecord(o)
  PROVE  BatchInv'
<1>0. StoreType /\ ThreadType /\ PlaceInv /\ RecordInv /\ ChainInv /\ LooseInv
  BY BatchParts
<1>1. StoreType' /\ ThreadType' /\ newest <= newest' /\ pm[o].ts <= newest'
  BY <1>0, RestoreRecordType
<1>2. /\ mode = "restore" /\ o \in scan /\ scan' = scan \ {o}
      /\ pm[o].status \notin {"Empty", "Dirty"}
      /\ UNCHANGED <<log, garbage, lockVars, clock, mode, threadVars, crashes>>
  BY DEF RestoreRecord
<1>3. PICK k \in Key, loser \in Offset \cup {kNullPMemOffset} :
        /\ k = pm[o].key
        /\ \/ /\ index[k] # kNullPMemOffset /\ pm[index[k]].ts >= pm[o].ts
              /\ loser = o /\ index' = index /\ chain' = chain
           \/ /\ index[k] # kNullPMemOffset => pm[index[k]].ts < pm[o].ts
              /\ loser = index[k]
              /\ index' = [index EXCEPT ![k] = o]
              /\ chain' = [chain EXCEPT ![k] = {o}]
        /\ IF loser = kNullPMemOffset THEN UNCHANGED <<pm, free>>
           ELSE Destroy(loser) /\ free' = free \cup {loser}
  BY <1>0, RestoreRecordCases
<1>4. /\ StampsLeft' /\ LockInv' /\ (\A u \in Thread : CallInv(u)') /\ StampInv' /\ SpacePlaces'
      /\ \A t \in Thread : pc'[t] = "idle"
  BY <1>1, <1>2, DownStep
<1>5. LogInv'
  BY <1>2, RestoreLogs
<1>6. /\ garbage = {} /\ o \notin free /\ (\A j \in Key : o \notin chain[j])
      /\ \A j \in Key : \A n \in chain[j] : n = index[j] /\ n \in Offset /\ n \notin scan
      /\ \A n \in Offset : n \notin scan => n \in free \/ \E j \in Key : n \in chain[j]
  <2>1. DownPlaces /\ \A j \in Key : chain[j] \subseteq Offset
    BY <1>0 DEF PlaceInv, StoreType
  <2>2. garbage = {} /\ \A j \in Key : \A n \in chain[j] : n = index[j]
    BY <1>2, <2>1 DEF DownPlaces
  <2>3. o \notin free /\ (\A j \in Key : o \notin chain[j])
    BY <1>2, <2>1 DEF DownPlaces
  <2>4. ASSUME NEW j \in Key, NEW n \in chain[j] PROVE n \in Offset /\ n \notin scan
    BY <1>2, <2>1 DEF DownPlaces
  <2>5. \A n \in Offset : n \notin scan => n \in free \/ \E j \in Key : n \in chain[j]
    BY <1>2, <2>1 DEF DownPlaces
  <2> QED
    BY <2>2, <2>3, <2>4, <2>5
<1>7. Live(o)
  BY <1>0, <1>2 DEF Live, StoreType, PmType
<1>8. kNullPMemOffset \notin Offset
  BY BatchAssumption
<1>9. ASSUME NEW n \in Offset
      PROVE  /\ n # loser => pm'[n] = pm[n]
             /\ n = loser => ~Live(n)'
             /\ n \in free' <=> n \in free \/ n = loser
             /\ Live(n)' => Live(n) /\ n # loser
  <2>1. CASE loser = kNullPMemOffset
    BY <1>3, <1>8, <2>1 DEF Live
  <2>2. CASE loser # kNullPMemOffset
    <3>1. loser \in Offset /\ Destroy(loser) /\ free' = free \cup {loser}
      BY <1>3, <2>2
    <3>2. pm'[loser].status = "Empty" /\ (n # loser => pm'[n] = pm[n])
      BY <1>0, <3>1, DestroyType
    <3>3. n = loser => ~Live(n)'
      BY <3>2 DEF Live
    <3> QED
      BY <3>1, <3>2, <3>3 DEF Live
  <2> QED
    BY <2>1, <2>2
<1>20. /\ \A j \in Key : index[j] = kNullPMemOffset => chain[j] = {}
       /\ \A j \in Key : index[j] # kNullPMemOffset => index[j] \in chain[j]
  BY <1>0 DEF ChainInv
<1>10. loser # kNullPMemOffset => loser = o \/ loser \in chain[k]
  <2>1. loser = o \/ loser = index[k]
    BY <1>3
  <2> QED
    BY <1>20, <2>1
<1>11. \/ loser = o /\ index' = index /\ chain' = chain
       \/ /\ loser = index[k] /\ loser # o
          /\ index'[k] = o /\ chain'[k] = {o}
          /\ \A j \in Key : j # k => index'[j] = index[j] /\ chain'[j] = chain[j]
  <2>1. CASE loser = o /\ index' = index /\ chain' = chain
    BY <2>1
  <2>2. CASE /\ loser = index[k]
             /\ index' = [index EXCEPT ![k] = o]
             /\ chain' = [chain EXCEPT ![k] = {o}]
    <3>1. index[k] # o
      BY <1>6, <1>8, <1>20
    <3> QED
      BY <1>0, <2>2, <3>1 DEF StoreType
  <2> QED
    BY <1>3, <2>1, <2>2
<1>12. ASSUME NEW j \in Key, NEW n \in chain'[j]
       PROVE  /\ n \in Offset /\ n # loser /\ n = index'[j] /\ Live(n) /\ pm[n].key = j
              /\ n \notin free /\ n \notin scan'
              /\ n = o => j = k
              /\ n # o => n \in chain[j]
  <2>1. ASSUME n \in chain[j], n # loser, index'[j] = index[j]
        PROVE  n = index'[j] /\ n \in Offset /\ Live(n) /\ pm[n].key = j /\ n \notin free /\ n \notin scan'
    <3>1. ChainPlaces
      BY <1>0 DEF PlaceInv
    <3> QED
      BY <1>0, <1>2, <1>6, <2>1, <3>1 DEF ChainInv, ChainPlaces
  <2>2. CASE loser = o /\ index' = index /\ chain' = chain
    <3>1. n \in chain[j] /\ n # o
      BY <1>6, <1>12, <2>2
    <3> QED
      BY <2>1, <2>2, <3>1
  <2>3. CASE /\ loser = index[k] /\ loser # o /\ index'[k] = o /\ chain'[k] = {o}
             /\ \A i \in Key : i # k => index'[i] = index[i] /\ chain'[i] = chain[i]
    <3>1. CASE j = k
      <4>1. n = o
        BY <1>12, <2>3, <3>1
      <4> QED
        BY <1>2, <1>3, <1>6, <1>7, <2>3, <3>1, <4>1
    <3>2. CASE j # k
      <4>1. n \in chain[j] /\ n # o /\ index'[j] = index[j]
        <5>1. index'[j] = index[j] /\ chain'[j] = chain[j]
          BY <2>3, <3>2
        <5> QED
          BY <1>6, <1>12, <5>1
      <4>2. n # loser
        <5>1. ChainPlaces
          BY <1>0 DEF PlaceInv
        <5>2. n \in Offset
          BY <1>6, <4>1
        <5>3. loser # kNullPMemOffset => loser \in chain[k]
          BY <1>10, <2>3
        <5>4. loser \in chain[k] => n # loser
          <6>1. \A i \in Key : n \in chain[i] => i = j
            BY <4>1, <5>1 DEF ChainPlaces
          <6> QED
            BY <3>2, <6>1
        <5> QED
          BY <1>8, <5>2, <5>3, <5>4
      <4> QED
        BY <2>1, <4>1, <4>2
    <3> QED
      BY <3>1, <3>2
  <2> QED
    BY <1>11, <2>2, <2>3
<1>13. ASSUME NEW j \in Key
       PROVE  IF index'[j] = kNullPMemOffset THEN chain'[j] = {} ELSE index'[j] \in chain'[j]
  <2>1. CASE index' = index /\ chain' = chain
    BY <1>20, <2>1
  <2>2. CASE j = k /\ index'[k] = o /\ chain'[k] = {o}
    BY <1>8, <2>2
  <2>3. CASE index'[j] = index[j] /\ chain'[j] = chain[j]
    BY <1>20, <2>3
  <2> QED
    BY <1>11, <2>1, <2>2, <2>3
<1>14. ASSUME NEW j \in Key, NEW n \in chain[j] PROVE n \in chain'[j] \/ n = loser
  BY <1>6, <1>11
<1>15. o \in chain'[k] \/ o = loser
  BY <1>11
<1>16. PlaceInv'
  <2>1. ChainPlaces'
    <3>1. ASSUME NEW j \in Key, NEW n \in chain'[j] PROVE \A i \in Key : n \in chain'[i] => i = j
      <4>1. pm[n].key = j /\ \A i \in Key : n \in chain'[i] => pm[n].key = i
        BY <1>12, <3>1
      <4> QED
        BY <4>1
    <3>2. ASSUME NEW j \in Key, NEW n \in chain'[j] PROVE n \notin free' /\ n \notin garbage'
      <4>1. n \in Offset /\ n # loser /\ n \notin free
        BY <1>12, <3>2
      <4>2. garbage' = {}
        BY <1>2, <1>6
      <4> QED
        BY <1>9, <4>1, <4>2
    <3> QED
      BY <3>1, <3>2 DEF ChainPlaces
  <2>2. DownPlaces'
    <3>1. ASSUME NEW n \in Offset, n \in scan' PROVE n \notin free' /\ \A j \in Key : n \notin chain'[j]
      <4>1. n \in scan /\ n # o
        BY <1>2, <3>1
      <4>2. n \notin free /\ \A j \in Key : n \notin chain[j]
        BY <1>0, <1>2, <4>1 DEF PlaceInv, DownPlaces
      <4>3. n # loser
        BY <1>8, <1>10, <4>1, <4>2
      <4> QED
        BY <1>9, <1>12, <3>1, <4>2, <4>3
    <3>2. ASSUME NEW n \in Offset, n \notin scan' PROVE n \in free' \/ \E j \in Key : n \in chain'[j]
      <4>1. CASE n = o
        BY <1>9, <1>15, <4>1
      <4>2. CASE n # o
        <5>1. n \notin scan
          BY <1>2, <3>2, <4>2
        <5> QED
          BY <1>6, <1>9, <1>14, <5>1
      <4> QED
        BY <4>1, <4>2
    <3>3. \A j \in Key : \A n \in chain'[j] : n = index'[j]
      BY <1>12
    <3>4. garbage' = {} /\ mode' = "restore"
      BY <1>2, <1>6
    <3> QED
      BY <1>4, <3>1, <3>2, <3>3, <3>4 DEF DownPlaces
  <2> QED
    BY <1>2, <1>4, <1>6, <2>1, <2>2 DEF PlaceInv, Placed
<1>17. RecordInv'
  <2>1. ASSUME NEW n \in Offset, Live(n)'
        PROVE  /\ Live(n) /\ pm'[n] = pm[n] /\ pm[n].key \in Key /\ pm[n].ts >= 1
               /\ n \notin scan' => pm[n].ts <= newest'
    <3>1. Live(n) /\ pm'[n] = pm[n] /\ pm[n].key \in Key /\ pm[n].ts >= 1
      BY <1>0, <1>9, <2>1 DEF RecordInv
    <3>2. ASSUME n \notin scan' PROVE pm[n].ts <= newest'
      <4>1. CASE n = o
        BY <1>1, <4>1
      <4>2. CASE n # o
        <5>1. pm[n].ts <= newest
          BY <1>0, <1>2, <3>1, <3>2, <4>2 DEF RecordInv
        <5>2. pm[n].ts \in Nat /\ newest \in Nat /\ newest' \in Nat
          BY SMT, <1>0, <1>1 DEF StoreType, PmType, Timestamp
        <5> QED
          BY SMT, <1>1, <5>1, <5>2
      <4> QED
        BY <4>1, <4>2
    <3> QED
      BY <3>1, <3>2
  <2>2. ASSUME NEW m \in Offset, NEW n \in Offset, Live(m)', Live(n)',
               pm'[m].key = pm'[n].key, pm'[m].ts = pm'[n].ts
        PROVE  m = n
    BY <1>0, <2>1, <2>2 DEF RecordInv
  <2> QED
    BY <1>2, <2>1, <2>2 DEF RecordInv
<1>18. ChainInv'
  <2>1. ASSUME NEW j \in Key, NEW n \in chain'[j]
        PROVE  Live(n)' /\ pm'[n].key = j /\ pm'[n].ts <= pm'[index'[j]].ts
    <3>1. n \in Offset /\ pm'[n] = pm[n] /\ n = index'[j] /\ Live(n) /\ pm[n].key = j
      BY <1>9, <1>12, <2>1
    <3>2. pm'[n].ts <= pm'[n].ts
      BY SMT, <1>1, <3>1 DEF StoreType, PmType, Timestamp
    <3> QED
      BY <3>1, <3>2 DEF Live
  <2> QED
    BY <1>13, <2>1 DEF ChainInv
<1>19. LooseInv'
  <2>1. \A n \in free' : n \in Offset
    BY <1>1 DEF StoreType
  <2>2. \A n \in free : ~Live(n)
    BY <1>0, <1>2 DEF LooseInv
  <2>3. \A n \in free' : ~Live(n)'
    BY <1>9, <2>1, <2>2
  <2> QED
    BY <1>2, <2>3 DEF LooseInv
<1> QED
  BY <1>1, <1>4, <1>5, <1>16, <1>17, <1>18, <1>19, BatchIntro

LEMMA BatchInitially == Init => BatchInv
<1> SUFFICES ASSUME Init PROVE BatchInv
  OBVIOUS
<1>1. /\ pm = [o \in Offset |-> NoRecord] /\ log = [s \in Slot |-> EmptyLog]
      /\ index = [k \in Key |-> kNullPMemOffset] /\ chain = [k \in Key |-> {}]
      /\ free = Offset /\ garbage = {} /\ lock = [k \in Key |-> None]
      /\ access = [s \in Slot |-> None] /\ clock = 0 /\ mode = "up" /\ scan = {} /\ newest = 0
      /\ pc = [t \in Thread |-> "idle"] /\ kind = [t \in Thread |-> "single"]
      /\ ops = [t \in Thread |-> NoOps] /\ todo = [t \in Thread |-> {}]
      /\ ts = [t \in Thread |-> 0] /\ space = [t \in Thread |-> NoSpace] /\ crashes = 0
  BY DEF Init
<1>2. 0 \in Timestamp /\ 0 \in 0 .. MaxCrashes
  BY SMT, BatchAssumption DEF Timestamp
<1>3. StoreType
  <2>1. pm \in PmType
    BY <1>1, <1>2 DEF PmType, NoRecord
  <2>2. log \in LogType
    BY <1>1 DEF LogType, EmptyLog
  <2> QED
    BY <1>1, <1>2, <2>1, <2>2 DEF StoreType
<1>4. /\ \A t \in Thread : pc[t] = "idle" /\ ops[t] = NoOps /\ DOMAIN space[t] = {}
      /\ \A k \in Key : index[k] = kNullPMemOffset /\ chain[k] = {}
      /\ \A o \in Offset : pm[o].status = "Empty"
      /\ \A s \in Slot : log[s].stage = "Initializing"
      /\ DOMAIN NoOps = {}
  BY <1>1, NoSpaceType DEF NoRecord, EmptyLog, NoOps
<1>5. ThreadType
  <2>1. space \in [Thread -> SpaceType] /\ \A u \in Thread : DOMAIN space[u] \subseteq DOMAIN ops[u]
    BY <1>1, NoSpaceType
  <2>2. /\ lock \in [Key -> Thread \cup {None}] /\ access \in [Slot -> Thread \cup {None}]
        /\ pc \in [Thread -> Label] /\ kind \in [Thread -> {"single", "batch"}]
        /\ ops \in [Thread -> Batches \cup {NoOps}] /\ todo \in [Thread -> SUBSET Key]
        /\ ts \in [Thread -> Timestamp]
    BY <1>1, <1>2 DEF Label
  <2> QED
    BY <2>1, <2>2 DEF ThreadType, Keys
<1>6. StampsLeft
  <2>1. Unstamped = {}
    BY <1>4 DEF Unstamped
  <2>2. IsFiniteSet(Unstamped) /\ Cardinality(Unstamped) = 0
    BY <2>1, FS_EmptySet
  <2> QED
    BY SMT, <1>1, <2>2, BatchAssumption DEF StampsLeft
<1>7. LockInv /\ \A t \in Thread : CallInv(t)
  BY <1>4 DEF LockInv, HasLocked, CallInv, Keys
<1>8. LogInv /\ StampInv /\ ChainInv
  BY <1>4 DEF LogInv, Processing, StampInv, Stamped, ChainInv
<1>9. PlaceInv
  BY <1>1, <1>4 DEF PlaceInv, ChainPlaces, SpacePlaces, Placed, DownPlaces
<1>10. RecordInv /\ LooseInv
  BY <1>1, <1>4 DEF RecordInv, LooseInv, Live
<1> QED
  BY <1>3, <1>5, <1>6, <1>7, <1>8, <1>9, <1>10, TypeParts DEF BatchInv

LEMMA BatchStep == BatchInv /\ [Next]_vars => BatchInv'
<1> SUFFICES ASSUME BatchInv, [Next]_vars PROVE BatchInv'
  OBVIOUS
<1>1. CASE UNCHANGED vars
  <2>1. /\ pm' = pm /\ log' = log /\ index' = index /\ chain' = chain /\ free' = free
        /\ garbage' = garbage /\ lock' = lock /\ access' = access /\ clock' = clock
        /\ mode' = mode /\ scan' = scan /\ newest' = newest
        /\ pc' = pc /\ kind' = kind /\ ops' = ops /\ todo' = todo /\ ts' = ts
        /\ space' = space /\ crashes' = crashes
    BY <1>1 DEF vars, pmemVars, storeVars, lockVars, recVars, threadVars
  <2>2. StoreType' /\ ThreadType'
    <3>1. StoreType /\ ThreadType
      BY BatchParts
    <3>2. StoreType'
      BY <2>1, <3>1 DEF StoreType
    <3>3. ThreadType'
      BY <2>1, <3>1 DEF ThreadType, Keys
    <3> QED
      BY <3>2, <3>3
  <2>3. /\ StampsLeft' /\ LockInv' /\ (\A u \in Thread : CallInv(u)') /\ LogInv'
        /\ \A u \in Thread : Kept(u)
    BY <2>1, NobodyMoves DEF lockVars, threadVars
  <2>4. PlaceInv' /\ RecordInv' /\ ChainInv' /\ LooseInv' /\ StampInv'
    <3>1. PlaceInv /\ RecordInv /\ ChainInv /\ LooseInv /\ StampInv
      BY BatchParts
    <3>2. PlaceInv'
      <4>1. free \cap garbage = {} /\ ChainPlaces /\ SpacePlaces /\ Placed /\ DownPlaces
        BY <3>1 DEF PlaceInv
      <4>2. ChainPlaces'
        BY <2>1, <4>1 DEF ChainPlaces
      <4>3. SpacePlaces'
        BY SMT, <2>1, <4>1 DEF SpacePlaces
      <4>4. Placed'
        BY <2>1, <4>1 DEF Placed
      <4>5. DownPlaces'
        BY <2>1, <4>1 DEF DownPlaces
      <4> QED
        BY <2>1, <4>1, <4>2, <4>3, <4>4, <4>5 DEF PlaceInv
    <3>3. RecordInv'
      BY <2>1, <3>1 DEF RecordInv, Live
    <3>4. ChainInv'
      BY <2>1, <3>1 DEF ChainInv, Live
    <3>5. LooseInv'
      BY <2>1, <3>1 DEF LooseInv, Live, Loose, Written
    <3>6. StampInv'
      <4>1. SUFFICES ASSUME NEW u \in Thread, Stamped(u)' PROVE StampOf(u)'
        BY DEF StampInv
      <4>2. StampOf(u)
        BY <2>1, <3>1, <4>1 DEF StampInv, Stamped
      <4>3. Kept(u) /\ Stamped(u) /\ StoreType
        BY <2>1, <2>3, <4>1, BatchParts DEF Stamped
      <4>4. /\ \A n \in Offset : Live(n)' => Live(n) /\ pm'[n] = pm[n]
            /\ \A k \in Keys(u) : HasValue(k)' => HasValue(k)
        BY <2>1 DEF Live, HasValue
      <4> QED
        BY <2>1, <2>2, <4>2, <4>3, <4>4, ClockKept, StampKept
    <3> QED
      BY <3>2, <3>3, <3>4, <3>5, <3>6
  <2> QED
    BY <2>2, <2>3, <2>4, BatchIntro
<1>2. ASSUME NEW t \in Thread, Call(t) \/ CallStep(t) PROVE BatchInv'
  BY <1>2, CallPreserves, RangeLockPreserves, GetTimestampPreserves, PrepareNothingPreserves,
     PreparePreserves, PrepareOverflowPreserves, CrashPreserves, EncodePreserves,
     MarkProcessingPreserves, StringWritePreserves, MarkCommittedPreserves,
     PersistSinglePreserves, PublishPreserves, RemoveOutDatedPreserves, ReturnPreserves
     DEF CallStep
<1>3. ASSUME NEW k \in Key, CleanOutDated(k) PROVE BatchInv'
  BY <1>3, CleanOutDatedPreserves
<1>4. ASSUME NEW o \in Offset, PurgeAndFree(o) PROVE BatchInv'
  BY <1>4, PurgePreserves
<1>5. CASE Recovery
  BY <1>5, RollbackRecordPreserves, RollbackLogPreserves, RemoveLogsPreserves,
     RestoreFreePreserves, RestoreRecordPreserves, RestoreDonePreserves DEF Recovery
<1> QED
  BY <1>1, <1>2, <1>3, <1>4, <1>5, CrashPreserves DEF Next

\* BatchInv is an invariant of the engine.
THEOREM BatchInvariant == Spec => []BatchInv
  BY BatchInitially, BatchStep, PTL DEF Spec

(***************************************************************************)
(* Whatever the threads, keys, slots and calls are, and however often the  *)
(* engine crashes: every space of PMem is in one place.  Failed calls,     *)
(* commits, the cleaner and the recovery lose none and use none twice.     *)
(***************************************************************************)
THEOREM SpaceInOnePlaceTheorem == Spec => []SpaceInOnePlace
<1>1. BatchInv => SpaceInOnePlace
  <2> SUFFICES ASSUME BatchInv, mode = "up" PROVE SpaceInOnePlace
    BY DEF SpaceInOnePlace, BatchInv
  <2>1. StoreType /\ ThreadType /\ PlaceInv /\ TypeOK
    BY BatchParts DEF BatchInv
  <2>2. free \cap garbage = {} /\ ChainPlaces /\ SpacePlaces /\ Placed
    BY <2>1 DEF PlaceInv
  <2>3. \A o : o \in Linked <=> \E k \in Key : o \in chain[k]
    BY DEF Linked
  <2>4. \A o : o \in Allocated <=> \E t \in Thread : \E k \in DOMAIN space[t] : space[t][k] = o
    <3>1. \A o : o \in Allocated <=> \E t \in Thread : o \in Spaces(t)
      BY DEF Allocated
    <3>2. \A o : \A t \in Thread : o \in Spaces(t) <=> \E k \in DOMAIN space[t] : space[t][k] = o
      BY DEF Spaces
    <3> QED
      BY SMT, <3>1, <3>2
  <2>5. \A o : o \in Linked => o \in Offset /\ o \notin free /\ o \notin garbage
    BY <2>1, <2>2, <2>3 DEF ChainPlaces, StoreType
  <2>6. ASSUME NEW o \in Allocated
        PROVE  o \in Offset /\ o \notin free /\ o \notin garbage /\ o \notin Linked
    <3>1. \A t \in Thread : \A k \in DOMAIN space[t] : space[t][k] \in Offset
      BY <2>1, SpaceTypeDef DEF ThreadType
    <3>2. PICK t \in Thread : \E k \in DOMAIN space[t] : space[t][k] = o
      BY <2>4
    <3>3. PICK k \in DOMAIN space[t] : space[t][k] = o
      BY <3>2
    <3>4. o \notin free /\ o \notin garbage /\ \A j \in Key : o \notin chain[j]
      BY <2>2, <3>3 DEF SpacePlaces
    <3> QED
      BY <2>3, <3>1, <3>3, <3>4
  <2>7. \A o \in Offset : o \in free \/ o \in garbage \/ o \in Linked \/ o \in Allocated
    BY <2>2, <2>3, <2>4 DEF Placed
  <2>8. free \subseteq Offset /\ garbage \subseteq Offset
    BY <2>1 DEF StoreType
  <2>9. free \cup garbage \cup Linked \cup Allocated = Offset
    BY <2>5, <2>6, <2>7, <2>8
  <2>10. /\ Linked \cap Allocated = {}
         /\ (free \cup garbage) \cap (Linked \cup Allocated) = {}
    BY <2>5, <2>6
  <2>11. \A j, k \in Key : j # k => chain[j] \cap chain[k] = {}
    BY <2>2 DEF ChainPlaces
  <2>12. \A t, u \in Thread : \A j \in DOMAIN space[t], k \in DOMAIN space[u] :
           space[t][j] = space[u][k] => t = u /\ j = k
    BY <2>2 DEF SpacePlaces
  <2> QED
    BY <2>1, <2>2, <2>9, <2>10, <2>11, <2>12 DEF SpaceInOnePlace
<1> QED
  BY <1>1, BatchInvariant, PTL
=============================================================================
