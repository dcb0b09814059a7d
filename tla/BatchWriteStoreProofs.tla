----------------------- MODULE BatchWriteStoreProofs ------------------------
(***************************************************************************)
(* Proofs about BatchWrite, third part: what a recovery would find, and    *)
(* that the writes implement AtomicStore.                                  *)
(***************************************************************************)
EXTENDS BatchWriteProofs

USE Zenon

----------------------------------------------------------------------------
(***************************************************************************)
(* What a recovery would find.                                             *)
(***************************************************************************)
Top(k, o) ==
  o \in Valid(k) /\ pm[o].status = "Normal" /\ \A n \in Valid(k) : pm[n].ts <= pm[o].ts

LEMMA ValidDef ==
  ASSUME NEW k, NEW o \in Offset
  PROVE  o \in Valid(k) <=> o \notin Undone /\ pm[o].key = k /\ Live(o)
  BY DEF Valid, Live

LEMMA StampNat == ASSUME StoreType PROVE \A o \in Offset : pm[o].ts \in Nat
  BY SMT DEF StoreType, PmType, Timestamp

LEMMA DurableTop ==
  ASSUME StoreType, NEW k, NEW o, Top(k, o)
  PROVE  Durable(k) = pm[o].ts
<1> DEFINE value == {x \in Valid(k) : pm[x].status = "Normal" /\ \A n \in Valid(k) : pm[n].ts <= pm[x].ts}
<1>1. Durable(k) = IF value = {} THEN 0 ELSE pm[CHOOSE x \in value : TRUE].ts
  BY DEF Durable
<1>2. o \in value
  BY DEF Top
<1>3. PICK x : x = CHOOSE y \in value : TRUE
  OBVIOUS
<1>4. x \in value
  BY <1>2, <1>3
<1>5. x \in Valid(k) /\ o \in Valid(k) /\ pm[o].ts <= pm[x].ts /\ pm[x].ts <= pm[o].ts
  BY <1>2, <1>4
<1>6. pm[o].ts \in Nat /\ pm[x].ts \in Nat
  BY <1>5, StampNat DEF Valid
<1>7. pm[x].ts = pm[o].ts
  BY SMT, <1>5, <1>6
<1> HIDE DEF value
<1> QED
  BY <1>1, <1>2, <1>3, <1>7

LEMMA DurableNone ==
  ASSUME NEW k, \A o \in Offset : ~Top(k, o)
  PROVE  Durable(k) = 0
<1> DEFINE value == {x \in Valid(k) : pm[x].status = "Normal" /\ \A n \in Valid(k) : pm[n].ts <= pm[x].ts}
<1>1. Durable(k) = IF value = {} THEN 0 ELSE pm[CHOOSE x \in value : TRUE].ts
  BY DEF Durable
<1>2. value = {}
  BY DEF Top, Valid
<1> HIDE DEF value
<1> QED
  BY <1>1, <1>2

\* The same for the next state.
LEMMA DurableTopNext ==
  ASSUME StoreType', NEW k, NEW o, Top(k, o)'
  PROVE  Durable(k)' = pm'[o].ts
<1> DEFINE value == {x \in Valid(k)' : pm'[x].status = "Normal" /\ \A n \in Valid(k)' : pm'[n].ts <= pm'[x].ts}
<1>1. Durable(k)' = IF value = {} THEN 0 ELSE pm'[CHOOSE x \in value : TRUE].ts
  BY DEF Durable
<1>2. o \in value
  BY DEF Top
<1>3. PICK x : x = CHOOSE y \in value : TRUE
  OBVIOUS
<1>4. x \in value
  BY <1>2, <1>3
<1>5. x \in Valid(k)' /\ o \in Valid(k)' /\ pm'[o].ts <= pm'[x].ts /\ pm'[x].ts <= pm'[o].ts
  BY <1>2, <1>4
<1>6. pm'[o].ts \in Nat /\ pm'[x].ts \in Nat
  BY SMT, <1>5 DEF Valid, StoreType, PmType, Timestamp
<1>7. pm'[x].ts = pm'[o].ts
  BY SMT, <1>5, <1>6
<1> HIDE DEF value
<1> QED
  BY <1>1, <1>2, <1>3, <1>7

LEMMA DurableNoneNext ==
  ASSUME NEW k, \A o \in Offset : ~Top(k, o)'
  PROVE  Durable(k)' = 0
<1> DEFINE value == {x \in Valid(k)' : pm'[x].status = "Normal" /\ \A n \in Valid(k)' : pm'[n].ts <= pm'[x].ts}
<1>1. Durable(k)' = IF value = {} THEN 0 ELSE pm'[CHOOSE x \in value : TRUE].ts
  BY DEF Durable
<1>2. value = {}
  BY DEF Top, Valid
<1> HIDE DEF value
<1> QED
  BY <1>1, <1>2

\* Records that disappear and are not the newest of their key, or are of no account because
\* every value of the key is newer, leave the store as it is.
LEMMA DurableKept ==
  ASSUME StoreType, StoreType', NEW k,
         \A n \in Valid(k)' : n \in Valid(k) /\ pm'[n] = pm[n],
         \A n \in Valid(k) : n \notin Valid(k)' =>
           \/ \E m \in Valid(k)' : pm[n].ts < pm[m].ts
           \/ /\ pm[n].status # "Normal"
              /\ \A m \in Valid(k)' : pm[m].status = "Normal" => pm[n].ts < pm[m].ts
  PROVE  Durable(k)' = Durable(k)
<1>1. \A n \in Valid(k) : pm[n].ts \in Nat
  BY StampNat DEF Valid
<1>2. ASSUME NEW o \in Offset, Top(k, o) PROVE Top(k, o)'
  <2>1. o \in Valid(k) /\ pm[o].status = "Normal" /\ \A n \in Valid(k) : pm[n].ts <= pm[o].ts
    BY <1>2 DEF Top
  <2>2. ~\E m \in Valid(k)' : pm[o].ts < pm[m].ts
    <3>1. SUFFICES ASSUME NEW m \in Valid(k)', pm[o].ts < pm[m].ts PROVE FALSE
      OBVIOUS
    <3>2. m \in Valid(k) /\ pm[m].ts <= pm[o].ts
      BY <2>1
    <3> QED
      BY SMT, <1>1, <2>1, <3>1, <3>2
  <2>3. o \in Valid(k)' /\ pm'[o] = pm[o]
    BY <2>1, <2>2
  <2>4. \A n \in Valid(k)' : pm'[n].ts <= pm'[o].ts
    BY <2>1, <2>3
  <2> QED
    BY <2>1, <2>3, <2>4 DEF Top
<1>3. ASSUME NEW o \in Offset, Top(k, o)' PROVE Top(k, o)
  <2>1. /\ o \in Valid(k)' /\ o \in Valid(k) /\ pm[o].status = "Normal" /\ pm'[o] = pm[o]
        /\ \A n \in Valid(k)' : pm[n].ts <= pm[o].ts
    BY <1>3 DEF Top
  <2>2. ASSUME NEW n \in Valid(k) PROVE pm[n].ts <= pm[o].ts
    <3>1. CASE n \in Valid(k)'
      BY <2>1, <3>1
    <3>2. ASSUME NEW m \in Valid(k)', pm[n].ts < pm[m].ts PROVE pm[n].ts <= pm[o].ts
      <4>1. pm[m].ts <= pm[o].ts /\ m \in Valid(k)
        BY <2>1
      <4> QED
        BY SMT, <1>1, <2>1, <3>2, <4>1
    <3>3. ASSUME pm[n].ts < pm[o].ts PROVE pm[n].ts <= pm[o].ts
      BY SMT, <1>1, <2>1, <3>3
    <3> QED
      BY <2>1, <3>1, <3>2, <3>3
  <2> QED
    BY <2>1, <2>2 DEF Top
<1>4. CASE \E o \in Offset : Top(k, o)
  <2>1. PICK o \in Offset : Top(k, o)
    BY <1>4
  <2>2. Top(k, o)' /\ o \in Valid(k)'
    BY <1>2, <2>1 DEF Top
  <2>3. pm'[o] = pm[o]
    BY <2>2
  <2>4. Durable(k) = pm[o].ts
    BY <2>1, DurableTop
  <2>5. Durable(k)' = pm'[o].ts
    BY <2>2, DurableTopNext
  <2> QED
    BY <2>3, <2>4, <2>5
<1>5. CASE \A o \in Offset : ~Top(k, o)
  BY <1>3, <1>5, DurableNone, DurableNoneNext
<1> QED
  BY <1>4, <1>5

\* Nothing that counts changes.
LEMMA DurableSame ==
  ASSUME StoreType, StoreType', NEW k,
         \A n \in Offset : n \in Valid(k)' <=> n \in Valid(k),
         \A n \in Valid(k) : pm'[n] = pm[n]
  PROVE  Durable(k)' = Durable(k)
<1>1. \A n \in Valid(k)' : n \in Offset
  BY DEF Valid
<1>2. \A n \in Valid(k) : n \in Offset
  BY DEF Valid
<1> QED
  BY <1>1, <1>2, DurableKept

LEMMA UndoneKept == ASSUME log' = log PROVE Undone' = Undone
  BY DEF Undone

\* What the logs would undo while the instance is up.
LEMMA UndoneUp ==
  ASSUME LogInv, mode = "up", NEW o
  PROVE  o \in Undone <=> \E t \in Thread : Processing(t) /\ o \in Spaces(t)
<1>1. ASSUME o \in Undone PROVE \E t \in Thread : Processing(t) /\ o \in Spaces(t)
  <2>1. PICK s \in Slot : log[s].stage = "Processing" /\ o \in log[s].offs
    BY <1>1 DEF Undone
  <2>2. PICK t \in Thread : SlotOf[t] = s /\ Processing(t)
    BY <2>1 DEF LogInv
  <2> QED
    BY <2>1, <2>2 DEF LogInv
<1>2. ASSUME NEW t \in Thread, Processing(t), o \in Spaces(t) PROVE o \in Undone
  <2>1. SlotOf[t] \in Slot /\ log[SlotOf[t]].stage = "Processing" /\ log[SlotOf[t]].offs = Spaces(t)
    BY <1>2, BatchAssumption DEF LogInv
  <2> QED
    BY <1>2, <2>1 DEF Undone
<1> QED
  BY <1>1, <1>2

\* A space that is linked, free or garbage, or allocated by a call that is not being
\* processed, is not in a log that would be undone.
LEMMA NotUndone ==
  ASSUME LogInv, PlaceInv, mode = "up", NEW o,
         \/ \E k \in Key : o \in chain[k]
         \/ \E t \in Thread : \E k \in DOMAIN space[t] : space[t][k] = o /\ ~Processing(t)
  PROVE  o \notin Undone
<1>1. SUFFICES ASSUME NEW u \in Thread, Processing(u), o \in Spaces(u) PROVE FALSE
  BY UndoneUp
<1>2. PICK j \in DOMAIN space[u] : space[u][j] = o
  BY <1>1 DEF Spaces
<1>3. SpacePlaces
  BY DEF PlaceInv
<1>4. \A k \in Key : o \notin chain[k]
  BY <1>2, <1>3 DEF SpacePlaces
<1>5. \A t \in Thread : \A k \in DOMAIN space[t] : space[t][k] = o => t = u
  BY <1>2, <1>3 DEF SpacePlaces
<1> QED
  BY <1>1, <1>4, <1>5

\* The records of a key that count are its versions, unless a call is about to publish one;
\* the others are in spaces that are not in use.
LEMMA CountedWhere ==
  ASSUME BatchInv, mode = "up", NEW k \in Key,
         \A u \in Thread : ~(pc[u] = "publish" /\ k \in DOMAIN space[u]),
         NEW n \in Valid(k), ~Loose(n)
  PROVE  n \in chain[k]
<1>1. /\ PlaceInv /\ ChainInv /\ StampInv /\ LogInv /\ (\A u \in Thread : CallInv(u)) /\ ThreadType
  BY BatchParts
<1>2. n \in Offset /\ n \notin Undone /\ pm[n].key = k
  BY DEF Valid
<1>3. \/ \E j \in Key : n \in chain[j] /\ pm[n].key = j /\ Live(n)
      \/ \E u \in Thread : \E j \in DOMAIN space[u] :
           /\ Stamped(u) /\ Written(u, j) /\ space[u][j] = n /\ StampOf(u)
           /\ pm[n].key = j /\ pm[n].ts = ts[u] /\ Live(n)
  BY <1>1, <1>2, Whereabouts
<1>4. ASSUME NEW u \in Thread, NEW j \in DOMAIN space[u], Written(u, j), space[u][j] = n, pm[n].key = j
      PROVE  FALSE
  <2>1. j = k
    BY <1>2, <1>4
  <2>2. n \in Spaces(u)
    BY <1>4 DEF Spaces
  <2>3. ~Processing(u)
    BY <1>1, <1>2, <2>2, UndoneUp
  <2>4. CallInv(u) /\ kind[u] \in {"single", "batch"}
    BY <1>1 DEF ThreadType
  <2>5. pc[u] # "commit"
    BY <2>3, <2>4 DEF CallInv, Processing
  <2>6. pc[u] = "write" /\ k \notin todo[u] /\ k \in DOMAIN space[u]
    BY <1>4, <2>1, <2>5 DEF Written
  <2>7. kind[u] = "single"
    BY <2>3, <2>4, <2>6 DEF Processing
  <2> QED
    BY <2>4, <2>6, <2>7 DEF CallInv
<1> QED
  BY <1>2, <1>3, <1>4

\* The version the index points to counts.
LEMMA IndexValid ==
  ASSUME BatchInv, mode = "up", NEW k \in Key, index[k] # kNullPMemOffset
  PROVE  index[k] \in Valid(k) /\ index[k] \in chain[k] /\ index[k] \in Offset
<1>1. PlaceInv /\ ChainInv /\ LogInv /\ StoreType
  BY BatchParts
<1>2. index[k] \in chain[k]
  BY <1>1 DEF ChainInv
<1>3. index[k] \in Offset /\ Live(index[k]) /\ pm[index[k]].key = k
  BY <1>1, <1>2 DEF ChainInv, StoreType
<1>4. index[k] \notin Undone
  BY <1>1, <1>2, NotUndone
<1> QED
  BY <1>2, <1>3, <1>4, ValidDef

\* Readers see what a recovery would find.
LEMMA KeyDurable ==
  ASSUME BatchInv, mode = "up", NEW k \in Key,
         \A u \in Thread : ~(pc[u] = "publish" /\ k \in DOMAIN space[u])
  PROVE  Visible(k) = Durable(k)
<1>1. ChainInv /\ LooseInv /\ StoreType /\ RecordInv
  BY BatchParts
<1>2. \A n \in Valid(k) : n \in Offset /\ Live(n) /\ pm[n].key = k
  BY DEF Valid, Live
<1>3. \A n \in Valid(k) : pm[n].status = "Normal" => n \in chain[k] /\ index[k] # kNullPMemOffset
  <2>1. \A n \in Valid(k) : pm[n].status = "Normal" => ~Loose(n)
    BY <1>1, <1>2 DEF LooseInv
  <2> QED
    BY <1>1, <2>1, CountedWhere DEF ChainInv
<1>4. CASE HasValue(k)
  <2>1. /\ index[k] # kNullPMemOffset /\ pm[index[k]].status = "Normal"
        /\ Visible(k) = pm[index[k]].ts
    BY <1>4 DEF HasValue, Visible
  <2>2. index[k] \in Valid(k) /\ index[k] \in Offset
    BY <2>1, IndexValid
  <2>3. ASSUME NEW n \in Valid(k) PROVE pm[n].ts <= pm[index[k]].ts
    <3>1. CASE Loose(n)
      <4>1. pm[n].status # "Normal" /\ pm[n].status = "Outdated" /\ n \in Offset /\ pm[n].key = k
        BY <1>1, <1>2, <3>1 DEF LooseInv, Live
      <4>2. pm[index[k]].key = k
        BY <1>2, <2>2
      <4>3. pm[n].ts < pm[index[k]].ts
        BY <1>1, <2>1, <2>2, <3>1, <4>1, <4>2 DEF LooseInv
      <4> QED
        BY SMT, <1>1, <2>2, <4>1, <4>3, StampNat
    <3>2. CASE ~Loose(n)
      BY <1>1, <3>2, CountedWhere DEF ChainInv
    <3> QED
      BY <3>1, <3>2
  <2>4. Top(k, index[k])
    BY <2>1, <2>2, <2>3 DEF Top
  <2> QED
    BY <1>1, <2>1, <2>4, DurableTop
<1>5. CASE ~HasValue(k)
  <2>1. Visible(k) = 0
    BY <1>5 DEF Visible
  <2>2. ASSUME NEW o \in Offset, Top(k, o) PROVE FALSE
    <3>1. /\ o \in Valid(k) /\ pm[o].status = "Normal"
          /\ \A n \in Valid(k) : pm[n].ts <= pm[o].ts
      BY <2>2 DEF Top
    <3>2. o \in chain[k] /\ index[k] # kNullPMemOffset
      BY <1>3, <3>1
    <3>3. index[k] \in Valid(k) /\ index[k] \in Offset /\ Live(index[k]) /\ pm[index[k]].key = k
      BY <1>2, <3>2, IndexValid
    <3>4. pm[o].ts <= pm[index[k]].ts /\ pm[index[k]].ts <= pm[o].ts
      BY <1>1, <3>1, <3>2, <3>3 DEF ChainInv
    <3>5. pm[o].ts = pm[index[k]].ts
      BY SMT, <1>1, <3>3, <3>4, StampNat
    <3>6. o = index[k]
      BY <1>1, <1>2, <3>1, <3>3, <3>5 DEF RecordInv
    <3> QED
      BY <1>5, <3>1, <3>2, <3>6 DEF HasValue
  <2> QED
    BY <2>1, <2>2, DurableNone
<1> QED
  BY <1>4, <1>5

(***************************************************************************)
(* Whatever the threads, keys, slots and calls are, and however often the  *)
(* engine crashes: a lockless read never sees a value that a crash could   *)
(* take back.                                                              *)
(***************************************************************************)
THEOREM NoDirtyReadTheorem == Spec => []NoDirtyRead
<1>1. BatchInv => NoDirtyRead
  <2> SUFFICES ASSUME BatchInv, mode = "up", NEW k \in Key, Visible(k) # Durable(k)
               PROVE  lock[k] # None /\ pc[lock[k]] = "publish" /\ k \in todo[lock[k]]
    BY DEF NoDirtyRead
  <2>1. PICK u \in Thread : pc[u] = "publish" /\ k \in DOMAIN space[u]
    BY KeyDurable
  <2>2. LockInv /\ CallInv(u) /\ ThreadType
    BY BatchParts
  <2>3. k \in Keys(u) /\ k \in todo[u]
    BY <2>1, <2>2 DEF CallInv, ThreadType
  <2>4. lock[k] = u
    BY <2>1, <2>2, <2>3 DEF LockInv, HasLocked
  <2> QED
    BY <2>1, <2>3, <2>4, BatchAssumption
<1> QED
  BY <1>1, BatchInvariant, PTL

----------------------------------------------------------------------------
(***************************************************************************)
(* The steps that leave the durable store as it is.                        *)
(***************************************************************************)
LEMMA SlotsKept ==
  ASSUME \A s \in Slot : /\ log'[s].stage = "Processing" <=> log[s].stage = "Processing"
                         /\ log[s].stage = "Processing" => log'[s].offs = log[s].offs
  PROVE  Undone' = Undone
<1>1. \A o : o \in Undone' <=> \E s \in Slot : log'[s].stage = "Processing" /\ o \in log'[s].offs
  BY DEF Undone
<1>2. \A o : o \in Undone <=> \E s \in Slot : log[s].stage = "Processing" /\ o \in log[s].offs
  BY DEF Undone
<1>3. \A o : o \in Undone' <=> o \in Undone
  BY SMT, <1>1, <1>2
<1> QED
  BY <1>3

\* Only records change that would be undone.
LEMMA OutsideUndone ==
  ASSUME StoreType, StoreType', Undone' = Undone,
         \A n \in Offset : n \notin Undone => pm'[n] = pm[n],
         NEW k \in Key
  PROVE  Durable(k)' = Durable(k)
<1>1. \A n \in Offset : n \in Valid(k)' <=> n \in Valid(k)
  BY DEF Valid
<1>2. \A n \in Valid(k) : pm'[n] = pm[n]
  BY DEF Valid
<1> QED
  BY <1>1, <1>2, DurableSame

LEMMA EncodeDurable ==
  ASSUME BatchInv, BatchInv', NEW t \in Thread, EncodeTo(t), NEW k \in Key
  PROVE  Durable(k)' = Durable(k)
<1>1. StoreType /\ LogInv /\ LockInv
  BY BatchParts
<1>2. StoreType'
  BY TypePartsNext DEF BatchInv
<1>3. /\ pc[t] = "encode" /\ mode = "up" /\ pm' = pm
      /\ log' = [log EXCEPT ![SlotOf[t]] = [stage |-> "Initializing", offs |-> Spaces(t)]]
  BY DEF EncodeTo, At
<1>4. SlotOf[t] \in Slot /\ DOMAIN log = Slot
  BY <1>1, BatchAssumption DEF StoreType, LogType
<1>5. log[SlotOf[t]].stage # "Processing"
  <2>1. ASSUME log[SlotOf[t]].stage = "Processing" PROVE FALSE
    <3>1. PICK u \in Thread : SlotOf[u] = SlotOf[t] /\ Processing(u)
      BY <1>1, <1>3, <1>4, <2>1 DEF LogInv
    <3>2. u = t
      BY <1>1, <1>3, <3>1, OwnSlot DEF Processing
    <3> QED
      BY <1>3, <3>1, <3>2 DEF Processing
  <2> QED
    BY <2>1
<1>6. log'[SlotOf[t]].stage = "Initializing" /\ \A s \in Slot \ {SlotOf[t]} : log'[s] = log[s]
  BY SMT, <1>3, <1>4
<1>7. Undone' = Undone
  BY <1>5, <1>6, SlotsKept
<1> QED
  BY <1>1, <1>2, <1>3, <1>7, OutsideUndone

\* A space that is not in use may vanish from the store.
LEMMA LooseVanish ==
  ASSUME BatchInv, BatchInv', mode = "up", NEW k \in Key,
         \A n \in Valid(k)' : n \in Valid(k) /\ pm'[n] = pm[n],
         \A n \in Valid(k) : n \notin Valid(k)' => Loose(n)
  PROVE  Durable(k)' = Durable(k)
<1>1. StoreType /\ LooseInv
  BY BatchParts
<1>2. StoreType'
  BY TypePartsNext DEF BatchInv
<1>3. \A n \in Valid(k) : n \in Offset /\ pm[n].key = k /\ pm[n].status \in {"Normal", "Outdated"}
  BY DEF Valid
<1>4. ASSUME NEW n \in Valid(k), n \notin Valid(k)'
      PROVE  /\ pm[n].status # "Normal"
             /\ \A m \in Valid(k)' : pm[m].status = "Normal" => pm[n].ts < pm[m].ts
  <2>1. Loose(n) /\ n \in Offset
    BY <1>3, <1>4
  <2>2. pm[n].status # "Normal"
    BY <1>1, <2>1 DEF LooseInv
  <2>3. pm[n].status = "Outdated" /\ pm[n].key = k
    BY <1>3, <2>2
  <2>4. \A m \in Valid(k)' : m \in Offset /\ pm[m].key = k
    BY <1>3
  <2> QED
    BY <1>1, <2>1, <2>2, <2>3, <2>4 DEF LooseInv
<1> QED
  BY <1>1, <1>2, <1>4, DurableKept

LEMMA MarkProcessingDurable ==
  ASSUME BatchInv, BatchInv', NEW t \in Thread, MarkProcessing(t), NEW k \in Key
  PROVE  Durable(k)' = Durable(k)
<1>1. StoreType /\ ThreadType /\ LogInv
  BY BatchParts
<1>2. /\ pc[t] = "process" /\ mode = "up" /\ pm' = pm
      /\ log' = [log EXCEPT ![SlotOf[t]].stage = "Processing"]
  BY DEF MarkProcessing, At, SetStage
<1>3. SlotOf[t] \in Slot /\ DOMAIN log = Slot /\ log[SlotOf[t]].offs = Spaces(t)
  BY <1>1, <1>2, BatchAssumption DEF StoreType, LogType, LogInv
<1>4. /\ log'[SlotOf[t]].stage = "Processing" /\ log'[SlotOf[t]].offs = log[SlotOf[t]].offs
      /\ \A s \in Slot \ {SlotOf[t]} : log'[s] = log[s]
  BY SMT, <1>1, <1>2, <1>3 DEF StoreType, LogType
<1>5. \A o : o \in Undone' <=> \E s \in Slot : log'[s].stage = "Processing" /\ o \in log'[s].offs
  BY DEF Undone
<1>6. \A o : o \in Undone <=> \E s \in Slot : log[s].stage = "Processing" /\ o \in log[s].offs
  BY DEF Undone
<1>7. \A o : o \in Undone' <=> o \in Undone \/ o \in Spaces(t)
  BY SMT, <1>3, <1>4, <1>5, <1>6
<1>8. \A n \in Valid(k)' : n \in Valid(k) /\ pm'[n] = pm[n]
  BY <1>2, <1>7 DEF Valid
<1>9. ASSUME NEW n \in Valid(k), n \notin Valid(k)' PROVE Loose(n)
  <2>1. n \in Spaces(t)
    BY <1>2, <1>7, <1>9 DEF Valid
  <2>2. PICK j \in DOMAIN space[t] : space[t][j] = n
    BY <2>1 DEF Spaces
  <2>3. ~Written(t, j)
    BY <1>2 DEF Written
  <2> QED
    BY <2>2, <2>3 DEF Loose
<1> QED
  BY <1>2, <1>8, <1>9, LooseVanish

LEMMA StringWriteDurable ==
  ASSUME BatchInv, BatchInv', NEW t \in Thread, StringWrite(t), NEW k \in Key
  PROVE  Durable(k)' = Durable(k)
<1>1. StoreType /\ LogInv /\ CallInv(t)
  BY BatchParts
<1>2. StoreType'
  BY TypePartsNext DEF BatchInv
<1>3. PICK j \in todo[t] : Persist(space[t][j], j, t)
  BY DEF StringWrite
<1>4. pc[t] = "write" /\ kind[t] = "batch" /\ mode = "up" /\ log' = log
  BY DEF StringWrite, At
<1>5. space[t][j] \in Undone
  <2>1. j \in DOMAIN space[t]
    BY <1>1, <1>4 DEF CallInv
  <2>2. Processing(t) /\ space[t][j] \in Spaces(t)
    BY <1>4, <2>1 DEF Processing, Spaces
  <2> QED
    BY <1>1, <1>4, <2>2, UndoneUp
<1>6. \A n \in Offset : n \notin Undone => pm'[n] = pm[n]
  BY <1>1, <1>3, <1>5 DEF Persist, StoreType, PmType
<1> QED
  BY <1>1, <1>2, <1>4, <1>6, UndoneKept, OutsideUndone

\* Versions are unlinked that are older than the one in the index, or mark a deletion.
LEMMA UnlinkDurable ==
  ASSUME BatchInv, BatchInv', mode = "up", NEW j \in Key, NEW S \in SUBSET chain[j], Unlink(j, S),
         log' = log, index[j] \in S => pm[index[j]].status # "Normal", NEW k \in Key
  PROVE  Durable(k)' = Durable(k)
<1>1. StoreType /\ ChainInv /\ RecordInv
  BY BatchParts
<1>2. StoreType' /\ Undone' = Undone
  BY TypePartsNext, UndoneKept DEF BatchInv
<1>3. /\ \A o \in Offset : o \in S /\ pm[o].status = "Normal" => pm'[o].status = "Dirty"
      /\ \A o \in Offset : ~(o \in S /\ pm[o].status = "Normal") => pm'[o] = pm[o]
  <2>1. pm' = [o \in Offset |-> IF o \in S /\ pm[o].status = "Normal"
                                THEN [pm[o] EXCEPT !.status = "Dirty"] ELSE pm[o]]
    BY DEF Unlink
  <2> QED
    BY SMT, <1>1, <2>1 DEF StoreType, PmType
<1>4. \A n \in Valid(k)' : n \in Valid(k) /\ pm'[n] = pm[n]
  <2>1. \A n \in Valid(k)' : n \in Offset /\ pm'[n].status # "Dirty" /\ n \notin Undone
    BY <1>2 DEF Valid
  <2>2. \A n \in Valid(k)' : pm'[n] = pm[n]
    BY <1>3, <2>1
  <2> QED
    BY <1>2, <2>2 DEF Valid
<1>5. ASSUME NEW n \in Valid(k), n \notin Valid(k)'
      PROVE  \E m \in Valid(k)' : pm[n].ts < pm[m].ts
  <2>1. n \in Offset /\ pm[n].key = k /\ Live(n) /\ n \notin Undone
    BY DEF Valid, Live
  <2>2. n \in S /\ pm[n].status = "Normal"
    BY <1>2, <1>3, <1>5, <2>1 DEF Valid
  <2>3. n \in chain[j] /\ k = j /\ index[k] # kNullPMemOffset /\ pm[n].ts <= pm[index[k]].ts
    BY <1>1, <2>1, <2>2 DEF ChainInv
  <2>4. index[k] \in Valid(k) /\ index[k] \in Offset
    BY <2>3, IndexValid
  <2>5. n # index[k] /\ pm'[index[k]] = pm[index[k]]
    BY <1>3, <2>2, <2>3, <2>4
  <2>6. index[k] \in Valid(k)'
    BY <1>2, <2>4, <2>5 DEF Valid
  <2>7. pm[n].ts # pm[index[k]].ts
    BY <1>1, <2>1, <2>4, <2>5 DEF RecordInv, Valid, Live
  <2>8. pm[n].ts < pm[index[k]].ts
    BY SMT, <1>1, <2>1, <2>3, <2>4, <2>7, StampNat
  <2> QED
    BY <2>6, <2>8
<1> QED
  BY <1>1, <1>2, <1>4, <1>5, DurableKept

LEMMA RemoveOutDatedDurable ==
  ASSUME BatchInv, BatchInv', NEW t \in Thread, RemoveOutDated(t), NEW k \in Key
  PROVE  Durable(k)' = Durable(k)
<1>1. StoreType /\ ThreadType /\ ChainInv
  BY BatchParts
<1>2. PICK j \in Keys(t), min \in Timestamp : Unlink(j, OutDated(j, min))
  BY DEF RemoveOutDated
<1>3. mode = "up" /\ log' = log
  BY DEF RemoveOutDated, At
<1>4. j \in Key
  BY <1>1, KeysType
<1>5. min \in Int
  BY SMT, <1>2 DEF Timestamp
<1>6. index[j] \notin OutDated(j, min) /\ OutDated(j, min) \in SUBSET chain[j]
  BY <1>1, <1>4, <1>5, NewestStays DEF OutDated
<1> QED
  BY <1>2, <1>3, <1>4, <1>6, UnlinkDurable

LEMMA CleanOutDatedDurable ==
  ASSUME BatchInv, BatchInv', NEW j \in Key, CleanOutDated(j), NEW k \in Key
  PROVE  Durable(k)' = Durable(k)
<1>1. StoreType /\ ChainInv
  BY BatchParts
<1>2. mode = "up" /\ log' = log /\ index[j] # kNullPMemOffset
  BY DEF CleanOutDated
<1>3. PICK min \in 1 .. MaxTs + 1 :
        LET erase == pm[index[j]].status = "Outdated" /\ pm[index[j]].ts < min
        IN  Unlink(j, OutDated(j, min) \cup (IF erase THEN {index[j]} ELSE {}))
  BY DEF CleanOutDated
<1> DEFINE erase == pm[index[j]].status = "Outdated" /\ pm[index[j]].ts < min
           S == OutDated(j, min) \cup (IF erase THEN {index[j]} ELSE {})
<1>4. Unlink(j, S)
  BY <1>3
<1>5. min \in Int
  BY SMT, <1>3
<1>6. index[j] \notin OutDated(j, min) /\ OutDated(j, min) \in SUBSET chain[j] /\ index[j] \in chain[j]
  BY <1>1, <1>2, <1>5, NewestStays DEF OutDated, ChainInv
<1>7. S \in SUBSET chain[j] /\ (index[j] \in S => pm[index[j]].status # "Normal")
  BY <1>6
<1> HIDE DEF S
<1> QED
  BY <1>2, <1>4, <1>7, UnlinkDurable

LEMMA PurgeDurable ==
  ASSUME BatchInv, BatchInv', NEW o \in Offset, PurgeAndFree(o), NEW k \in Key
  PROVE  Durable(k)' = Durable(k)
<1>1. StoreType /\ LooseInv
  BY BatchParts
<1>2. StoreType'
  BY TypePartsNext DEF BatchInv
<1>3. mode = "up" /\ o \in garbage /\ log' = log
  BY DEF PurgeAndFree
<1>4. pm[o].status # "Normal"
  BY <1>1, <1>3 DEF LooseInv, Loose
<1>5. pm' = pm
  BY <1>4 DEF PurgeAndFree
<1> QED
  BY <1>1, <1>2, <1>3, <1>5, UndoneKept, OutsideUndone

\* Losing DRAM, and the records that were being written, loses nothing of the store.
LEMMA LoseDramDurable ==
  ASSUME BatchInv, BatchInv', NEW torn \in SUBSET BeingWritten, LoseDram(torn), NEW k \in Key
  PROVE  Durable(k)' = Durable(k)
<1>1. StoreType /\ LogInv /\ LockInv /\ ThreadType /\ \A u \in Thread : CallInv(u)
  BY BatchParts
<1>2. StoreType'
  BY TypePartsNext DEF BatchInv
<1>3. /\ pm' = [o \in Offset |-> IF o \in torn THEN NoRecord ELSE pm[o]]
      /\ log' = log
  BY DEF LoseDram
<1>4. Undone' = Undone
  BY <1>3, UndoneKept
<1>5. /\ \A o \in Offset : o \in torn => pm'[o].status = "Empty"
      /\ \A o \in Offset : o \notin torn => pm'[o] = pm[o]
  BY SMT, <1>3 DEF NoRecord
<1>6. \A n \in Valid(k)' : n \in Valid(k) /\ pm'[n] = pm[n]
  <2>1. \A n \in Valid(k)' : n \in Offset /\ pm'[n].status # "Empty" /\ n \notin Undone
    BY <1>4 DEF Valid
  <2>2. \A n \in Valid(k)' : pm'[n] = pm[n]
    BY <1>5, <2>1
  <2> QED
    BY <1>4, <2>2 DEF Valid
<1>7. ASSUME NEW n \in Valid(k), n \notin Valid(k)' PROVE Loose(n) /\ mode = "up"
  <2>1. n \in Offset /\ n \notin Undone
    BY DEF Valid
  <2>2. n \in torn
    BY <1>4, <1>5, <1>7, <2>1 DEF Valid
  <2>3. n \in BeingWritten
    BY <2>2
  <2>4. PICK u \in Thread : pc[u] = "write" /\ \E j \in todo[u] : n = space[u][j]
    BY <2>3 DEF BeingWritten
  <2>5. PICK j \in todo[u] : n = space[u][j]
    BY <2>4
  <2>6. mode = "up" /\ j \in DOMAIN space[u]
    BY <1>1, <2>4, <2>5 DEF LockInv, CallInv
  <2>7. ~Written(u, j)
    BY <2>4, <2>5 DEF Written
  <2> QED
    BY <2>5, <2>6, <2>7 DEF Loose
<1>8. CASE mode = "up"
  BY <1>6, <1>7, <1>8, LooseVanish
<1>9. CASE mode # "up"
  <2>1. \A n \in Offset : n \in Valid(k)' <=> n \in Valid(k)
    BY <1>6, <1>7, <1>9
  <2>2. \A n \in Valid(k) : pm'[n] = pm[n]
    BY <1>6, <1>7, <1>9
  <2> QED
    BY <1>1, <1>2, <2>1, <2>2, DurableSame
<1> QED
  BY <1>8, <1>9

LEMMA RollbackRecordDurable ==
  ASSUME BatchInv, BatchInv', NEW s \in Slot, RollbackRecord(s), NEW k \in Key
  PROVE  Durable(k)' = Durable(k)
<1>1. StoreType
  BY BatchParts
<1>2. StoreType'
  BY TypePartsNext DEF BatchInv
<1>3. PICK o \in log[s].offs : Destroy(o)
  BY DEF RollbackRecord
<1>4. log' = log /\ o \in Undone
  BY <1>3 DEF RollbackRecord, Undone
<1>5. \A n \in Offset : n \notin Undone => pm'[n] = pm[n]
  BY <1>1, <1>3, <1>4 DEF Destroy, StoreType, PmType
<1> QED
  BY <1>1, <1>2, <1>4, <1>5, UndoneKept, OutsideUndone

LEMMA RollbackLogDurable ==
  ASSUME BatchInv, BatchInv', NEW s \in Slot, RollbackLog(s), NEW k \in Key
  PROVE  Durable(k)' = Durable(k)
<1>1. StoreType
  BY BatchParts
<1>2. StoreType'
  BY TypePartsNext DEF BatchInv
<1>3. /\ log[s].stage = "Processing" => \A o \in log[s].offs : pm[o].status = "Empty"
      /\ log' = [log EXCEPT ![s].stage = "Initializing"] /\ pm' = pm
  BY DEF RollbackLog, SetStage
<1>4. log'[s].stage = "Initializing" /\ \A r \in Slot \ {s} : log'[r] = log[r]
  BY SMT, <1>1, <1>3 DEF StoreType, LogType
<1>5. \A o : o \in Undone' <=> \E r \in Slot : log'[r].stage = "Processing" /\ o \in log'[r].offs
  BY DEF Undone
<1>6. \A o : o \in Undone <=> \E r \in Slot : log[r].stage = "Processing" /\ o \in log[r].offs
  BY DEF Undone
<1>7. \A o \in Offset : pm[o].status # "Empty" => (o \in Undone' <=> o \in Undone)
  BY SMT, <1>3, <1>4, <1>5, <1>6
<1>8. \A n \in Offset : n \in Valid(k)' <=> n \in Valid(k)
  BY <1>3, <1>7 DEF Valid
<1> QED
  BY <1>1, <1>2, <1>3, <1>8, DurableSame

\* Nothing is undone once the logs are rolled back.
LEMMA NothingUndone ==
  ASSUME BatchInv, mode # "up", mode = "rollback" => scan = {}
  PROVE  \A s \in Slot : log[s].stage # "Processing"
<1>1. LogInv /\ \A t \in Thread : ~Processing(t)
  BY BatchParts, DownFacts
<1> QED
  BY <1>1 DEF LogInv

LEMMA RemoveLogsDurable ==
  ASSUME BatchInv, BatchInv', RemoveLogs, NEW k \in Key
  PROVE  Durable(k)' = Durable(k)
<1>1. StoreType
  BY BatchParts
<1>2. StoreType'
  BY TypePartsNext DEF BatchInv
<1>3. mode = "rollback" /\ scan = {} /\ log' = [s \in Slot |-> EmptyLog] /\ pm' = pm
  BY DEF RemoveLogs
<1>4. \A s \in Slot : log[s].stage # "Processing"
  BY <1>3, NothingUndone
<1>5. \A s \in Slot : log'[s].stage # "Processing"
  BY SMT, <1>3 DEF EmptyLog
<1>6. Undone' = Undone
  BY <1>4, <1>5, SlotsKept
<1> QED
  BY <1>1, <1>2, <1>3, <1>6, OutsideUndone

LEMMA RestoreRecordDurable ==
  ASSUME BatchInv, BatchInv', NEW o \in Offset, RestoreRecord(o), NEW k \in Key
  PROVE  Durable(k)' = Durable(k)
<1>1. StoreType /\ ThreadType /\ PlaceInv /\ RecordInv /\ ChainInv
  BY BatchParts
<1>2. StoreType'
  BY TypePartsNext DEF BatchInv
<1>3. /\ mode = "restore" /\ o \in scan /\ log' = log
      /\ pm[o].status \notin {"Empty", "Dirty"}
  BY DEF RestoreRecord
<1>4. PICK j \in Key, loser \in Offset \cup {kNullPMemOffset} :
        /\ j = pm[o].key
        /\ \/ /\ index[j] # kNullPMemOffset /\ pm[index[j]].ts >= pm[o].ts
              /\ loser = o /\ index' = index /\ chain' = chain
           \/ /\ index[j] # kNullPMemOffset => pm[index[j]].ts < pm[o].ts
              /\ loser = index[j]
              /\ index' = [index EXCEPT ![j] = o]
              /\ chain' = [chain EXCEPT ![j] = {o}]
        /\ IF loser = kNullPMemOffset THEN UNCHANGED <<pm, free>>
           ELSE Destroy(loser) /\ free' = free \cup {loser}
  BY <1>1, RestoreRecordCases
<1>5. Undone' = Undone /\ \A n : n \notin Undone
  <2>1. \A s \in Slot : log[s].stage # "Processing"
    BY <1>3, NothingUndone
  <2> QED
    BY <1>3, <2>1, UndoneKept DEF Undone
<1>6. Live(o) /\ kNullPMemOffset \notin Offset
  BY <1>1, <1>3, BatchAssumption DEF Live, StoreType, PmType
<1>7. /\ \A n \in Offset : n # loser => pm'[n] = pm[n]
      /\ loser \in Offset => pm'[loser].status = "Empty"
  <2>1. CASE loser = kNullPMemOffset
    BY <1>4, <1>6, <2>1
  <2>2. CASE loser \in Offset
    <3>1. pm' = [pm EXCEPT ![loser].status = "Empty"]
      BY <1>4, <1>6, <2>2 DEF Destroy
    <3> QED
      BY SMT, <1>1, <2>2, <3>1 DEF StoreType, PmType
  <2> QED
    BY <2>1, <2>2
<1>8. \A n \in Valid(k)' : n \in Valid(k) /\ pm'[n] = pm[n]
  <2>1. \A n \in Valid(k)' : n \in Offset /\ n # loser
    BY <1>7 DEF Valid
  <2>2. \A n \in Valid(k)' : pm'[n] = pm[n]
    BY <1>7, <2>1
  <2> QED
    BY <1>5, <2>2 DEF Valid
<1>9. index[j] # kNullPMemOffset =>
        /\ index[j] \in Offset /\ index[j] # o /\ Live(index[j]) /\ pm[index[j]].key = j
        /\ pm[index[j]].ts # pm[o].ts
  <2>1. SUFFICES ASSUME index[j] # kNullPMemOffset
                 PROVE  /\ index[j] \in Offset /\ index[j] # o /\ Live(index[j])
                        /\ pm[index[j]].key = j /\ pm[index[j]].ts # pm[o].ts
    OBVIOUS
  <2>2. index[j] \in chain[j]
    BY <1>1, <2>1 DEF ChainInv
  <2>3. index[j] \in Offset /\ Live(index[j]) /\ pm[index[j]].key = j
    BY <1>1, <2>2 DEF ChainInv, StoreType
  <2>4. o \notin chain[j]
    BY <1>1, <1>3 DEF PlaceInv, DownPlaces
  <2> QED
    BY <1>1, <1>4, <1>6, <2>2, <2>3, <2>4 DEF RecordInv
<1>10. ASSUME NEW n \in Valid(k), n \notin Valid(k)'
       PROVE  \E m \in Valid(k)' : pm[n].ts < pm[m].ts
  <2>1. n \in Offset /\ pm[n].key = k
    BY DEF Valid
  <2>2. n = loser
    BY <1>5, <1>7, <1>10, <2>1 DEF Valid
  <2>3. CASE loser = o /\ index[j] # kNullPMemOffset /\ pm[index[j]].ts >= pm[o].ts
    <3>1. j = k /\ index[k] \in Offset /\ pm'[index[k]] = pm[index[k]]
      BY <1>4, <1>7, <1>9, <2>1, <2>2, <2>3
    <3>2. index[k] \in Valid(k)'
      BY <1>5, <1>9, <2>3, <3>1 DEF Valid, Live
    <3>3. pm[o].ts < pm[index[k]].ts
      BY SMT, <1>1, <1>9, <2>3, <3>1, StampNat
    <3> QED
      BY <2>2, <2>3, <3>2, <3>3
  <2>4. CASE loser = index[j] /\ (index[j] # kNullPMemOffset => pm[index[j]].ts < pm[o].ts)
    <3>1. index[j] # kNullPMemOffset
      BY <1>6, <2>1, <2>2, <2>4
    <3>2. j = k /\ pm'[o] = pm[o]
      BY <1>7, <1>9, <2>1, <2>2, <2>4, <3>1
    <3>3. o \in Valid(k)'
      BY <1>4, <1>5, <1>6, <3>2 DEF Valid, Live
    <3> QED
      BY <2>2, <2>4, <3>1, <3>3
  <2> QED
    BY <1>4, <2>3, <2>4
<1> QED
  BY <1>1, <1>2, <1>8, <1>10, DurableKept

----------------------------------------------------------------------------
(***************************************************************************)
(* The steps at which a call takes effect.                                 *)
(***************************************************************************)
\* The newest record of a key decides.
LEMMA NewestDecides ==
  ASSUME StoreType', NEW k \in Key, NEW o \in Valid(k)',
         \A n \in Valid(k)' : n # o => pm'[n].ts < pm'[o].ts
  PROVE  Durable(k)' = IF pm'[o].status = "Normal" THEN pm'[o].ts ELSE 0
<1>1. \A n \in Valid(k)' : n \in Offset /\ pm'[n].ts \in Nat
  BY SMT DEF Valid, StoreType, PmType, Timestamp
<1>2. CASE pm'[o].status = "Normal"
  <2>1. \A n \in Valid(k)' : pm'[n].ts <= pm'[o].ts
    BY SMT, <1>1
  <2>2. Top(k, o)'
    BY <1>2, <2>1 DEF Top
  <2> QED
    BY <1>2, <2>2, DurableTopNext
<1>3. CASE pm'[o].status # "Normal"
  <2>1. ASSUME NEW x \in Offset, Top(k, x)' PROVE FALSE
    <3>1. x \in Valid(k)' /\ pm'[x].status = "Normal" /\ pm'[o].ts <= pm'[x].ts
      BY <2>1 DEF Top
    <3>2. pm'[x].ts < pm'[o].ts
      BY <1>3, <3>1
    <3> QED
      BY SMT, <1>1, <3>1, <3>2
  <2> QED
    BY <1>3, <2>1, DurableNoneNext
<1> QED
  BY <1>2, <1>3

\* A key that a call holds and has no value for is free of values.
LEMMA HeldDurable ==
  ASSUME BatchInv, mode = "up", NEW t \in Thread, NEW k \in Keys(t),
         pc[t] \in {"prepare", "commit"}, ~HasValue(k)
  PROVE  Durable(k) = 0
<1>1. LockInv /\ ThreadType
  BY BatchParts
<1>2. k \in Key
  BY <1>1, KeysType
<1>3. ASSUME NEW u \in Thread, pc[u] = "publish", k \in DOMAIN space[u] PROVE FALSE
  <2>1. HasLocked(u, k)
    BY <1>1, <1>3 DEF HasLocked, ThreadType
  <2>2. HasLocked(t, k)
    BY DEF HasLocked
  <2>3. u = t
    BY <1>1, <2>1, <2>2, OwnKey
  <2> QED
    BY <1>3, <2>3
<1>4. Visible(k) = Durable(k)
  BY <1>2, <1>3, KeyDurable
<1> QED
  BY <1>4 DEF Visible

LEMMA MarkCommittedDurable ==
  ASSUME BatchInv, BatchInv', NEW t \in Thread, MarkCommitted(t), NEW k \in Key
  PROVE  Durable(k)' = IF k \notin Keys(t) THEN Durable(k)
                       ELSE IF ops[t][k] = "Put" THEN ts[t] ELSE 0
<1>1. StoreType /\ ThreadType /\ LogInv /\ StampInv /\ LockInv /\ PlaceInv /\ CallInv(t)
  BY BatchParts
<1>2. StoreType'
  BY TypePartsNext DEF BatchInv
<1>3. /\ pc[t] = "commit" /\ mode = "up" /\ pm' = pm
      /\ log' = [log EXCEPT ![SlotOf[t]].stage = "Committed"]
  BY DEF MarkCommitted, At, SetStage
<1>4. Processing(t) /\ Stamped(t) /\ StampOf(t)
  BY <1>1, <1>3 DEF CallInv, Processing, Stamped, StampInv
<1>5. SlotOf[t] \in Slot /\ DOMAIN log = Slot /\ log[SlotOf[t]].offs = Spaces(t)
  BY <1>1, <1>4, BatchAssumption DEF StoreType, LogType, LogInv
<1>6. /\ log'[SlotOf[t]].stage = "Committed"
      /\ \A s \in Slot \ {SlotOf[t]} : log'[s] = log[s]
  BY SMT, <1>1, <1>3, <1>5 DEF StoreType, LogType
<1>7. \A o : o \in Undone' <=> o \in Undone /\ o \notin Spaces(t)
  <2>1. \A o : o \in Undone' <=> \E s \in Slot : log'[s].stage = "Processing" /\ o \in log'[s].offs
    BY DEF Undone
  <2>2. \A o : o \in Undone <=> \E s \in Slot : log[s].stage = "Processing" /\ o \in log[s].offs
    BY DEF Undone
  <2>3. ASSUME NEW s \in Slot, s # SlotOf[t], log[s].stage = "Processing", NEW o \in log[s].offs
        PROVE  o \notin Spaces(t)
    <3>1. PICK u \in Thread : SlotOf[u] = s /\ Processing(u)
      BY <1>1, <1>3, <2>3 DEF LogInv
    <3>2. o \in Spaces(u) /\ u # t
      BY <1>1, <2>3, <3>1 DEF LogInv
    <3>3. SpacePlaces
      BY <1>1 DEF PlaceInv
    <3> QED
      BY <3>2, <3>3 DEF SpacePlaces, Spaces
  <2> QED
    BY SMT, <1>5, <1>6, <2>1, <2>2, <2>3
<1>8. \A j \in DOMAIN space[t] : Written(t, j)
  BY <1>3 DEF Written
<1>9. \A j \in DOMAIN space[t] :
        /\ space[t][j] \in Offset /\ pm[space[t][j]].key = j /\ pm[space[t][j]].ts = ts[t]
        /\ pm[space[t][j]].status = IF ops[t][j] = "Put" THEN "Normal" ELSE "Outdated"
  <2>1. \A j \in DOMAIN space[t] :
          pm[space[t][j]] = [key |-> j, ts |-> ts[t],
                             status |-> IF ops[t][j] = "Put" THEN "Normal" ELSE "Outdated"]
    BY <1>4, <1>8 DEF StampOf
  <2>2. \A j \in DOMAIN space[t] : space[t][j] \in Offset
    BY <1>1, SpaceTypeDef DEF ThreadType
  <2>3. ASSUME NEW j \in DOMAIN space[t]
        PROVE  /\ pm[space[t][j]].key = j /\ pm[space[t][j]].ts = ts[t]
               /\ pm[space[t][j]].status = IF ops[t][j] = "Put" THEN "Normal" ELSE "Outdated"
    <3>1. PICK r : r = pm[space[t][j]]
      OBVIOUS
    <3>2. r = [key |-> j, ts |-> ts[t],
               status |-> IF ops[t][j] = "Put" THEN "Normal" ELSE "Outdated"]
      BY <2>1, <3>1
    <3>3. /\ r.key = j /\ r.ts = ts[t]
          /\ r.status = IF ops[t][j] = "Put" THEN "Normal" ELSE "Outdated"
      BY SMT, <3>2
    <3> QED
      BY <3>1, <3>3
  <2> QED
    BY <2>2, <2>3
<1>10. CASE k \in DOMAIN space[t]
  <2> DEFINE o == space[t][k]
  <2>1. o \in Offset /\ o \in Spaces(t) /\ k \in Keys(t)
    BY <1>1, <1>9, <1>10 DEF Spaces, ThreadType
  <2>2. o \in Valid(k)'
    BY <1>3, <1>7, <1>9, <1>10, <2>1 DEF Valid
  <2>3. \A n \in Valid(k)' : n # o => pm'[n].ts < pm'[o].ts
    <3>1. \A n \in Valid(k)' : n \in Offset /\ Live(n) /\ pm[n].key = k
      BY <1>3 DEF Valid, Live
    <3>2. \A n \in Offset : Live(n) /\ pm[n].key = k /\ n # o => pm[n].ts < ts[t]
      BY <1>3, <1>4, <2>1 DEF StampOf
    <3> QED
      BY <1>3, <1>9, <1>10, <3>1, <3>2
  <2>4. Durable(k)' = IF pm'[o].status = "Normal" THEN pm'[o].ts ELSE 0
    <3> HIDE DEF o
    <3> QED
      BY <1>2, <2>2, <2>3, NewestDecides
  <2> QED
    BY <1>3, <1>9, <1>10, <2>1, <2>4
<1>11. CASE k \notin DOMAIN space[t]
  <2>1. \A n \in Spaces(t) : pm[n].key # k
    <3>1. SUFFICES ASSUME NEW n \in Spaces(t) PROVE pm[n].key # k
      OBVIOUS
    <3>2. PICK j \in DOMAIN space[t] : n = space[t][j]
      BY DEF Spaces
    <3> QED
      BY <1>9, <1>11, <3>2
  <2>2. \A n \in Offset : n \in Valid(k)' <=> n \in Valid(k)
    BY <1>3, <1>7, <2>1 DEF Valid
  <2>3. Durable(k)' = Durable(k)
    BY <1>1, <1>2, <1>3, <2>2, DurableSame
  <2>4. CASE k \notin Keys(t)
    BY <2>3, <2>4
  <2>5. CASE k \in Keys(t)
    <3>1. Nothing(t, k)
      BY <1>3, <1>11, <2>5 DEF Nothing
    <3>2. ops[t][k] = "Delete" /\ ~HasValue(k)
      BY <1>4, <3>1 DEF StampOf
    <3>3. Durable(k) = 0
      BY <1>3, <2>5, <3>2, HeldDurable
    <3> QED
      BY <2>3, <2>5, <3>2, <3>3
  <2> QED
    BY <2>4, <2>5
<1> QED
  BY <1>10, <1>11

LEMMA PersistSingleDurable ==
  ASSUME BatchInv, BatchInv', NEW t \in Thread, PersistSingle(t), NEW k \in Key
  PROVE  Durable(k)' = IF k \notin Keys(t) THEN Durable(k)
                       ELSE IF ops[t][k] = "Put" THEN ts[t] ELSE 0
<1>1. StoreType /\ ThreadType /\ LogInv /\ StampInv /\ PlaceInv /\ CallInv(t)
  BY BatchParts
<1>2. StoreType'
  BY TypePartsNext DEF BatchInv
<1>3. PICK j \in todo[t] : Persist(space[t][j], j, t)
  BY DEF PersistSingle
<1>4. pc[t] = "write" /\ kind[t] = "single" /\ mode = "up" /\ log' = log
  BY DEF PersistSingle, At
<1>5. DOMAIN space[t] = Keys(t) /\ todo[t] = Keys(t) /\ \E i \in Key : Keys(t) = {i}
  BY <1>1, <1>4 DEF CallInv
<1>6. Keys(t) = {j} /\ j \in DOMAIN space[t] /\ j \in Key
  BY <1>5
<1> DEFINE o == space[t][j]
<1>7. o \in Offset
  BY <1>1, <1>6, SpaceTypeDef DEF ThreadType
<1>8. /\ pm'[o].key = j /\ pm'[o].ts = ts[t]
      /\ pm'[o].status = IF ops[t][j] = "Put" THEN "Normal" ELSE "Outdated"
      /\ \A n \in Offset : n # o => pm'[n] = pm[n]
  <2>1. pm' = [pm EXCEPT ![o] = [key |-> j, ts |-> ts[t],
                                 status |-> IF ops[t][j] = "Put" THEN "Normal" ELSE "Outdated"]]
    BY <1>3 DEF Persist
  <2>2. pm'[o] = [key |-> j, ts |-> ts[t],
                  status |-> IF ops[t][j] = "Put" THEN "Normal" ELSE "Outdated"]
    BY <1>1, <1>7, <2>1 DEF StoreType, PmType
  <2>3. \A n \in Offset : n # o => pm'[n] = pm[n]
    BY <1>1, <2>1 DEF StoreType, PmType
  <2> HIDE DEF o
  <2>4. PICK r : r = pm'[o]
    OBVIOUS
  <2>5. r = [key |-> j, ts |-> ts[t],
             status |-> IF ops[t][j] = "Put" THEN "Normal" ELSE "Outdated"]
    BY <2>2, <2>4
  <2>6. /\ r.key = j /\ r.ts = ts[t]
        /\ r.status = IF ops[t][j] = "Put" THEN "Normal" ELSE "Outdated"
    BY SMT, <2>5
  <2> QED
    BY <2>3, <2>4, <2>6
<1>9. Undone' = Undone /\ o \notin Undone
  <2>1. ~Processing(t)
    BY <1>4 DEF Processing
  <2> QED
    BY <1>1, <1>4, <1>6, <2>1, UndoneKept, NotUndone
<1>10. ~Written(t, j) /\ Stamped(t) /\ StampOf(t)
  BY <1>1, <1>4 DEF Written, Stamped, StampInv
<1>11. CASE k = j
  <2>1. o \in Valid(k)'
    BY <1>7, <1>8, <1>9, <1>11 DEF Valid
  <2>2. \A n \in Valid(k)' : n # o => pm'[n].ts < pm'[o].ts
    <3>1. \A n \in Valid(k)' : n # o => n \in Offset /\ Live(n) /\ pm[n].key = j /\ pm'[n] = pm[n]
      BY <1>8, <1>11 DEF Valid, Live
    <3>2. \A n \in Offset : Live(n) /\ pm[n].key = j => pm[n].ts < ts[t]
      BY <1>4, <1>6, <1>10 DEF StampOf
    <3> QED
      BY <1>8, <3>1, <3>2
  <2>3. Durable(k)' = IF pm'[o].status = "Normal" THEN pm'[o].ts ELSE 0
    <3> HIDE DEF o
    <3> QED
      BY <1>2, <2>1, <2>2, NewestDecides
  <2> QED
    BY <1>6, <1>8, <1>11, <2>3
<1>12. CASE k # j
  <2>1. \A n \in Valid(k)' : n \in Offset /\ n # o
    BY <1>8, <1>12 DEF Valid
  <2>2. \A n \in Valid(k)' : n \in Valid(k) /\ pm'[n] = pm[n]
    BY <1>8, <1>9, <2>1 DEF Valid
  <2>3. \A n \in Valid(k) : n \notin Valid(k)' => n = o
    BY <1>8, <1>9 DEF Valid
  <2>4. Loose(o)
    BY <1>6, <1>10 DEF Loose
  <2>5. Durable(k)' = Durable(k)
    BY <1>4, <2>2, <2>3, <2>4, LooseVanish
  <2> QED
    BY <1>6, <1>12, <2>5
<1> QED
  BY <1>11, <1>12

----------------------------------------------------------------------------
(***************************************************************************)
(* The refinement, action by action.                                       *)
(***************************************************************************)
CallOf(t) ==
  [state |-> CallState(t), ops |-> IF pc[t] = "idle" THEN <<>> ELSE ops[t]]

Pending == {"lock", "stamp", "prepare", "encode", "process", "write", "commit"}
Done == {"publish", "remove", "release"}

SameStore == \A k \in Key : Durable(k)' = Durable(k)
SameCall(t) == CallOf(t)' = CallOf(t)

LEMMA UnwrittenDurable ==
  ASSUME BatchInv, BatchInv', UNCHANGED <<pm, log>> PROVE SameStore
<1>1. StoreType /\ pm' = pm /\ log' = log
  BY BatchParts
<1>2. StoreType'
  BY TypePartsNext DEF BatchInv
<1> QED
  BY <1>1, <1>2, UndoneKept, OutsideUndone DEF SameStore

LEMMA States ==
  ASSUME NEW t
  PROVE  /\ pc[t] \in Pending => CallState(t) = "pending"
         /\ pc[t] \in Done => CallState(t) = "done"
         /\ pc[t] = "fail" => CallState(t) = "failed"
         /\ pc[t] = "idle" => CallState(t) = "none"
  BY DEF CallState, Pending, Done

LEMMA StatesNext ==
  ASSUME NEW t
  PROVE  /\ pc'[t] \in Pending => CallState(t)' = "pending"
         /\ pc'[t] \in Done => CallState(t)' = "done"
         /\ pc'[t] = "fail" => CallState(t)' = "failed"
         /\ pc'[t] = "idle" => CallState(t)' = "none"
  BY DEF CallState, Pending, Done

LEMMA CallStays ==
  ASSUME NEW t, ops'[t] = ops[t],
         \/ pc'[t] = pc[t]
         \/ pc[t] \in Pending /\ pc'[t] \in Pending
         \/ pc[t] \in Done /\ pc'[t] \in Done
  PROVE  SameCall(t)
<1>1. CallState(t)' = CallState(t)
  BY States, StatesNext DEF CallState
<1>2. pc'[t] = "idle" <=> pc[t] = "idle"
  BY DEF Pending, Done
<1> QED
  BY <1>1, <1>2 DEF SameCall, CallOf

LEMMA Stutters ==
  ASSUME SameStore, \A u \in Thread : SameCall(u)
  PROVE  UNCHANGED Store!storeVars
  BY DEF Store!storeVars, SameStore, SameCall, CallOf

\* One thread moves.
LEMMA OneMoves ==
  ASSUME NEW t \in Thread, \A u \in Thread \ {t} : SameCall(u)
  PROVE  [u \in Thread |-> CallOf(u)]' = [[u \in Thread |-> CallOf(u)] EXCEPT ![t] = CallOf(t)']
  BY DEF SameCall

LEMMA InvokeStep ==
  ASSUME BatchInv, BatchInv', NEW t \in Thread, Call(t)
  PROVE  Store!Invoke(t)
<1>1. ThreadType
  BY BatchParts
<1>2. /\ pc[t] = "idle" /\ pc' = [pc EXCEPT ![t] = "lock"] /\ UNCHANGED <<pm, log>>
  BY DEF Call, At, GoTo, pmemVars
<1>3. PICK c \in CallsOf[t] : ops' = [ops EXCEPT ![t] = c.ops]
  BY DEF Call
<1>4. c.ops \in Store!Ops
  <2>1. c \in Calls
    BY <1>3, BatchAssumption
  <2>2. c.ops \in Batches
    BY SMT, <2>1 DEF Calls
  <2> QED
    BY <2>2 DEF Batches, Store!Ops
<1>5. /\ pc'[t] = "lock" /\ ops'[t] = c.ops
      /\ \A u \in Thread \ {t} : pc'[u] = pc[u] /\ ops'[u] = ops[u]
  BY <1>1, <1>2, <1>3 DEF ThreadType
<1>6. \A u \in Thread \ {t} : SameCall(u)
  BY <1>5, CallStays
<1>7. CallOf(t).state = "none" /\ CallOf(t)' = [state |-> "pending", ops |-> c.ops]
  <2>1. CallState(t) = "none" /\ CallState(t)' = "pending"
    BY <1>2, <1>5, States, StatesNext DEF Pending
  <2> QED
    BY SMT, <1>5, <2>1 DEF CallOf
<1>8. SameStore
  BY <1>2, UnwrittenDurable
<1>9. [u \in Thread |-> CallOf(u)]' = [[u \in Thread |-> CallOf(u)] EXCEPT ![t] = CallOf(t)']
  BY <1>6, OneMoves
<1> QED
  BY <1>4, <1>7, <1>8, <1>9 DEF Store!Invoke, CallOf, SameStore

\* A call that changes its state.
LEMMA StateMoves ==
  ASSUME NEW t \in Thread, ops'[t] = ops[t], pc[t] # "idle", pc'[t] # "idle",
         \A u \in Thread \ {t} : SameCall(u)
  PROVE  [u \in Thread |-> CallOf(u)]' =
           [[u \in Thread |-> CallOf(u)] EXCEPT ![t].state = CallState(t)']
<1>1. CallOf(t)' = [CallOf(t) EXCEPT !.state = CallState(t)']
  BY SMT DEF CallOf
<1>2. [u \in Thread |-> CallOf(u)]' = [[u \in Thread |-> CallOf(u)] EXCEPT ![t] = CallOf(t)']
  BY OneMoves
<1> QED
  BY <1>1, <1>2

LEMMA FailStep ==
  ASSUME BatchInv, BatchInv', NEW t \in Thread, PrepareOverflow(t)
  PROVE  Store!Fail(t)
<1>1. ThreadType
  BY BatchParts
<1>2. pc[t] = "prepare" /\ pc' = [pc EXCEPT ![t] = "fail"] /\ ops' = ops /\ UNCHANGED <<pm, log>>
  BY DEF PrepareOverflow, At, GoTo, pmemVars
<1>3. pc'[t] = "fail" /\ \A u \in Thread \ {t} : pc'[u] = pc[u]
  BY <1>1, <1>2 DEF ThreadType
<1>4. \A u \in Thread \ {t} : SameCall(u)
  BY <1>2, <1>3, CallStays
<1>5. CallState(t) = "pending" /\ CallState(t)' = "failed"
  BY <1>2, <1>3, States, StatesNext DEF Pending
<1>6. [u \in Thread |-> CallOf(u)]' = [[u \in Thread |-> CallOf(u)] EXCEPT ![t].state = "failed"]
  BY <1>2, <1>3, <1>4, <1>5, StateMoves
<1>7. CallOf(t).state = "pending"
  BY SMT, <1>5 DEF CallOf
<1>8. SameStore
  BY <1>2, UnwrittenDurable
<1> QED
  BY <1>6, <1>7, <1>8 DEF Store!Fail, CallOf, SameStore

LEMMA ReturnStep ==
  ASSUME BatchInv, BatchInv', NEW t \in Thread, Return(t)
  PROVE  Store!Return(t)
<1>1. ThreadType
  BY BatchParts
<1>2. /\ pc[t] \in {"release", "fail"} /\ pc' = [pc EXCEPT ![t] = "idle"]
      /\ ops' = [ops EXCEPT ![t] = NoOps] /\ UNCHANGED <<pm, log>>
  BY DEF Return, At, GoTo, pmemVars
<1>3. pc'[t] = "idle" /\ \A u \in Thread \ {t} : pc'[u] = pc[u] /\ ops'[u] = ops[u]
  BY <1>1, <1>2 DEF ThreadType
<1>4. \A u \in Thread \ {t} : SameCall(u)
  BY <1>3, CallStays
<1>5. CallState(t) \in {"done", "failed"} /\ CallState(t)' = "none"
  BY <1>2, <1>3, States, StatesNext DEF Done
<1>6. CallOf(t)' = Store!NoCall /\ CallOf(t).state \in {"done", "failed"}
  BY SMT, <1>3, <1>5 DEF CallOf, Store!NoCall
<1>7. [u \in Thread |-> CallOf(u)]' = [[u \in Thread |-> CallOf(u)] EXCEPT ![t] = CallOf(t)']
  BY <1>4, OneMoves
<1>8. SameStore
  BY <1>2, UnwrittenDurable
<1> QED
  BY <1>6, <1>7, <1>8 DEF Store!Return, CallOf, SameStore

\* A call that is pending becomes done, and all its keys change at once.
LEMMA EffectStep ==
  ASSUME BatchInv, NEW t \in Thread, pc[t] \in {"prepare", "write", "commit"}, pc'[t] \in Done,
         ops' = ops, \A u \in Thread \ {t} : pc'[u] = pc[u],
         \A k \in Key : Durable(k)' = IF k \notin Keys(t) THEN Durable(k)
                                      ELSE IF ops[t][k] = "Put" THEN ts[t] ELSE 0
  PROVE  Store!TakeEffect(t)
<1>1. ThreadType /\ StoreType /\ StampInv
  BY BatchParts
<1>2. ts[t] \in 1 .. MaxTs
  <2>1. ts[t] \in 1 .. clock /\ clock \in Timestamp
    BY <1>1 DEF StampInv, Stamped, StampOf, StoreType
  <2> QED
    BY SMT, <2>1, BatchAssumption DEF Timestamp
<1>3. \A u \in Thread \ {t} : SameCall(u)
  BY CallStays
<1>4. CallState(t) = "pending" /\ CallState(t)' = "done" /\ pc[t] # "idle" /\ pc'[t] # "idle"
  BY States, StatesNext DEF Pending, Done
<1>5. [u \in Thread |-> CallOf(u)]' = [[u \in Thread |-> CallOf(u)] EXCEPT ![t].state = "done"]
  BY <1>3, <1>4, StateMoves
<1>6. CallOf(t).state = "pending" /\ CallOf(t).ops = ops[t]
  BY SMT, <1>4 DEF CallOf
<1>7. [u \in Thread |-> CallOf(u)][t].state = "pending" /\ [u \in Thread |-> CallOf(u)][t].ops = ops[t]
  BY <1>6
<1>8. [k \in Key |-> Durable(k)]' =
        [k \in Key |-> IF k \notin DOMAIN [u \in Thread |-> CallOf(u)][t].ops
                       THEN [j \in Key |-> Durable(j)][k]
                       ELSE IF [u \in Thread |-> CallOf(u)][t].ops[k] = "Put" THEN ts[t] ELSE 0]
  <2>1. [k \in Key |-> Durable(k)]' =
          [k \in Key |-> IF k \notin DOMAIN ops[t] THEN Durable(k)
                         ELSE IF ops[t][k] = "Put" THEN ts[t] ELSE 0]
    BY DEF Keys
  <2> QED
    BY <1>7, <2>1
<1> QED
  BY <1>2, <1>5, <1>7, <1>8 DEF Store!TakeEffect, CallOf

LEMMA MarkCommittedStep ==
  ASSUME BatchInv, BatchInv', NEW t \in Thread, MarkCommitted(t)
  PROVE  Store!TakeEffect(t)
<1>1. ThreadType
  BY BatchParts
<1>2. /\ pc[t] = "commit" /\ ops' = ops
      /\ pc' = [pc EXCEPT ![t] = IF DOMAIN space[t] = {} THEN "release" ELSE "publish"]
  BY DEF MarkCommitted, At, GoTo
<1>3. pc'[t] \in Done /\ \A u \in Thread \ {t} : pc'[u] = pc[u]
  BY <1>1, <1>2 DEF ThreadType, Done
<1> QED
  BY <1>2, <1>3, MarkCommittedDurable, EffectStep

LEMMA PersistSingleStep ==
  ASSUME BatchInv, BatchInv', NEW t \in Thread, PersistSingle(t)
  PROVE  Store!TakeEffect(t)
<1>1. ThreadType
  BY BatchParts
<1>2. pc[t] = "write" /\ ops' = ops /\ pc' = [pc EXCEPT ![t] = "publish"]
  BY DEF PersistSingle, At, GoTo
<1>3. pc'[t] \in Done /\ \A u \in Thread \ {t} : pc'[u] = pc[u]
  BY <1>1, <1>2 DEF ThreadType, Done
<1> QED
  BY <1>2, <1>3, PersistSingleDurable, EffectStep

LEMMA PrepareNothingStep ==
  ASSUME BatchInv, BatchInv', NEW t \in Thread, PrepareNothing(t)
  PROVE  UNCHANGED Store!storeVars \/ Store!TakeEffect(t)
<1>1. ThreadType /\ CallInv(t)
  BY BatchParts
<1>2. mode = "up" /\ pc[t] = "prepare" /\ ops' = ops /\ UNCHANGED <<pm, log>>
  BY DEF PrepareNothing, At, pmemVars
<1>3. PICK k \in todo[t] :
        /\ ops[t][k] = "Delete" /\ ~HasValue(k)
        /\ pc' = [pc EXCEPT ![t] = IF kind[t] = "single" THEN "release"
                                   ELSE IF todo[t] = {k} THEN "encode" ELSE "prepare"]
  BY DEF PrepareNothing, GoTo
<1>4. SameStore
  BY <1>2, UnwrittenDurable
<1>5. /\ pc'[t] = IF kind[t] = "single" THEN "release"
                  ELSE IF todo[t] = {k} THEN "encode" ELSE "prepare"
      /\ \A u \in Thread \ {t} : pc'[u] = pc[u]
  BY <1>1, <1>3 DEF ThreadType
<1>6. CASE kind[t] = "single"
  <2>1. pc'[t] \in Done
    BY <1>5, <1>6 DEF Done
  <2>2. Keys(t) = {k}
    BY <1>1, <1>2, <1>3, <1>6 DEF CallInv
  <2>3. Durable(k) = 0
    BY <1>2, <1>3, <2>2, HeldDurable
  <2>4. \A j \in Key : Durable(j)' = IF j \notin Keys(t) THEN Durable(j)
                                     ELSE IF ops[t][j] = "Put" THEN ts[t] ELSE 0
    BY <1>3, <1>4, <2>2, <2>3 DEF SameStore
  <2> QED
    BY <1>2, <1>5, <2>1, <2>4, EffectStep
<1>7. CASE kind[t] # "single"
  <2>1. pc[t] \in Pending /\ pc'[t] \in Pending
    BY <1>2, <1>5, <1>7 DEF Pending
  <2>2. \A u \in Thread : SameCall(u)
    BY <1>2, <1>5, <2>1, CallStays
  <2> QED
    BY <1>4, <2>2, Stutters
<1> QED
  BY <1>6, <1>7

LEMMA CrashStep ==
  ASSUME BatchInv, BatchInv', Crash \/ \E t \in Thread : NullEntry(t)
  PROVE  Store!StoreCrash
<1>1. PICK torn \in SUBSET BeingWritten : LoseDram(torn)
  BY DEF Crash, NullEntry
<1>2. SameStore
  BY <1>1, LoseDramDurable DEF SameStore
<1>3. \A u \in Thread : pc'[u] = "idle"
  BY <1>1 DEF LoseDram
<1>4. \A u \in Thread : CallOf(u)' = Store!NoCall
  BY <1>3, StatesNext DEF CallOf, Store!NoCall
<1> QED
  BY <1>2, <1>4 DEF Store!StoreCrash, SameStore, CallOf

\* The other steps of a call change neither the store nor the state of a call.
LEMMA QuietCall ==
  ASSUME BatchInv, BatchInv', NEW t \in Thread,
         \/ RangeLock(t) \/ GetTimestamp(t) \/ Prepare(t) \/ EncodeTo(t) \/ MarkProcessing(t)
         \/ StringWrite(t) \/ Publish(t) \/ RemoveOutDated(t)
  PROVE  UNCHANGED Store!storeVars
<1>1. ThreadType
  BY BatchParts
<1>2. SameStore
  <2>1. CASE RangeLock(t) \/ GetTimestamp(t) \/ Prepare(t) \/ Publish(t)
    <3>1. pm' = pm /\ log' = log
      BY <2>1 DEF RangeLock, GetTimestamp, Prepare, Publish, pmemVars
    <3> QED
      BY <3>1, UnwrittenDurable
  <2>2. CASE EncodeTo(t) \/ MarkProcessing(t) \/ StringWrite(t) \/ RemoveOutDated(t)
    BY <2>2, EncodeDurable, MarkProcessingDurable, StringWriteDurable, RemoveOutDatedDurable
       DEF SameStore
  <2> QED
    BY <2>1, <2>2
<1>3. ops' = ops
  BY DEF RangeLock, GetTimestamp, Prepare, EncodeTo, MarkProcessing, StringWrite, Publish,
         RemoveOutDated
<1>4. \/ pc' = pc
      \/ \E l \in Pending : pc[t] \in Pending /\ pc' = [pc EXCEPT ![t] = l]
      \/ \E l \in Done : pc[t] \in Done /\ pc' = [pc EXCEPT ![t] = l]
  <2>1. CASE RangeLock(t)
    <3>1. pc[t] = "lock" /\ (GoTo(t, "stamp") \/ GoTo(t, "lock"))
      BY <2>1 DEF RangeLock, At
    <3> QED
      BY <3>1 DEF GoTo, Pending
  <2>2. CASE GetTimestamp(t)
    BY <2>2 DEF GetTimestamp, At, GoTo, Pending
  <2>3. CASE Prepare(t)
    <3>1. pc[t] = "prepare" /\ (GoTo(t, "encode") \/ GoTo(t, "write") \/ pc' = pc)
      BY <2>3 DEF Prepare, At
    <3> QED
      BY <3>1 DEF GoTo, Pending
  <2>4. CASE EncodeTo(t)
    BY <2>4 DEF EncodeTo, At, GoTo, Pending
  <2>5. CASE MarkProcessing(t)
    <3>1. pc[t] = "process" /\ (GoTo(t, "commit") \/ GoTo(t, "write"))
      BY <2>5 DEF MarkProcessing, At
    <3> QED
      BY <3>1 DEF GoTo, Pending
  <2>6. CASE StringWrite(t)
    <3>1. pc[t] = "write" /\ (GoTo(t, "commit") \/ GoTo(t, "write"))
      BY <2>6 DEF StringWrite, At
    <3> QED
      BY <3>1 DEF GoTo, Pending
  <2>7. CASE Publish(t)
    <3>1. pc[t] = "publish" /\ (GoTo(t, "publish") \/ GoTo(t, "release") \/ GoTo(t, "remove"))
      BY <2>7 DEF Publish, At
    <3> QED
      BY <3>1 DEF GoTo, Done
  <2>8. CASE RemoveOutDated(t)
    BY <2>8 DEF RemoveOutDated, At, GoTo, Done
  <2> QED
    BY <2>1, <2>2, <2>3, <2>4, <2>5, <2>6, <2>7, <2>8
<1>5. /\ \A u \in Thread \ {t} : pc'[u] = pc[u]
      /\ \/ pc'[t] = pc[t]
         \/ pc[t] \in Pending /\ pc'[t] \in Pending
         \/ pc[t] \in Done /\ pc'[t] \in Done
  BY <1>1, <1>4 DEF ThreadType
<1>6. \A u \in Thread : SameCall(u)
  BY <1>3, <1>5, CallStays
<1> QED
  BY <1>2, <1>6, Stutters

\* So do the cleaner and the recovery.
LEMMA QuietEngine ==
  ASSUME BatchInv, BatchInv',
         \/ \E k \in Key : CleanOutDated(k)
         \/ \E o \in Offset : PurgeAndFree(o)
         \/ Recovery
  PROVE  UNCHANGED Store!storeVars
<1>1. threadVars' = threadVars
  BY DEF CleanOutDated, PurgeAndFree, Recovery, RollbackRecord, RollbackLog, RemoveLogs,
         RestoreFree, RestoreRecord, RestoreDone
<1>2. \A u \in Thread : SameCall(u)
  BY <1>1, CallStays DEF threadVars
<1>3. SameStore
  <2>1. ASSUME NEW k \in Key, CleanOutDated(k) PROVE SameStore
    BY <2>1, CleanOutDatedDurable DEF SameStore
  <2>2. ASSUME NEW o \in Offset, PurgeAndFree(o) PROVE SameStore
    BY <2>2, PurgeDurable DEF SameStore
  <2>3. ASSUME NEW s \in Slot, RollbackRecord(s) \/ RollbackLog(s) PROVE SameStore
    BY <2>3, RollbackRecordDurable, RollbackLogDurable DEF SameStore
  <2>4. CASE RemoveLogs
    BY <2>4, RemoveLogsDurable DEF SameStore
  <2>5. ASSUME NEW o \in Offset, RestoreRecord(o) PROVE SameStore
    BY <2>5, RestoreRecordDurable DEF SameStore
  <2>6. ASSUME RestoreDone \/ \E o \in Offset : RestoreFree(o) PROVE SameStore
    <3>1. pm' = pm /\ log' = log
      BY <2>6 DEF RestoreDone, RestoreFree, pmemVars
    <3> QED
      BY <3>1, UnwrittenDurable
  <2> QED
    BY <2>1, <2>2, <2>3, <2>4, <2>5, <2>6 DEF Recovery
<1> QED
  BY <1>2, <1>3, Stutters

LEMMA StoreStarts == Init => Store!StoreInit
<1> SUFFICES ASSUME Init PROVE Store!StoreInit
  OBVIOUS
<1>1. \A o \in Offset : pm[o].status = "Empty"
  BY SMT DEF Init, NoRecord
<1>2. \A k \in Key : Durable(k) = 0
  <2>1. \A k \in Key : \A o \in Offset : ~Top(k, o)
    BY <1>1 DEF Top
  <2> QED
    BY <2>1, DurableNone
<1>3. \A t \in Thread : CallOf(t) = Store!NoCall
  <2>1. \A t \in Thread : pc[t] = "idle"
    BY DEF Init
  <2> QED
    BY <2>1, States DEF CallOf, Store!NoCall
<1>4. [k \in Key |-> Durable(k)] \in [Key -> (1 .. MaxTs) \cup {0}]
  BY <1>2
<1> QED
  BY <1>3, <1>4 DEF Store!StoreInit, CallOf

LEMMA StoreStep ==
  BatchInv /\ BatchInv' /\ [Next]_vars => [Store!StoreNext]_Store!storeVars
<1> SUFFICES ASSUME BatchInv, BatchInv', [Next]_vars
             PROVE  UNCHANGED Store!storeVars \/ Store!StoreNext
  OBVIOUS
<1>1. CASE UNCHANGED vars
  <2>1. pm' = pm /\ log' = log /\ pc' = pc /\ ops' = ops
    BY <1>1 DEF vars, pmemVars, threadVars
  <2>2. SameStore /\ \A u \in Thread : SameCall(u)
    BY <2>1, UnwrittenDurable, CallStays
  <2> QED
    BY <2>2, Stutters
<1>2. ASSUME NEW t \in Thread, Call(t) \/ CallStep(t)
      PROVE  UNCHANGED Store!storeVars \/ Store!StoreNext
  <2>1. CASE \/ RangeLock(t) \/ GetTimestamp(t) \/ Prepare(t) \/ EncodeTo(t) \/ MarkProcessing(t)
             \/ StringWrite(t) \/ Publish(t) \/ RemoveOutDated(t)
    BY <2>1, QuietCall
  <2>2. CASE NullEntry(t)
    BY <2>2, CrashStep DEF Store!StoreNext
  <2>3. CASE Call(t) \/ PrepareOverflow(t) \/ Return(t)
    BY <2>3, InvokeStep, FailStep, ReturnStep DEF Store!StoreNext
  <2>4. CASE PrepareNothing(t) \/ MarkCommitted(t) \/ PersistSingle(t)
    BY <2>4, PrepareNothingStep, MarkCommittedStep, PersistSingleStep DEF Store!StoreNext
  <2> QED
    BY <1>2, <2>1, <2>2, <2>3, <2>4 DEF CallStep
<1>3. CASE Crash
  BY <1>3, CrashStep DEF Store!StoreNext
<1>4. CASE \/ \E k \in Key : CleanOutDated(k)
           \/ \E o \in Offset : PurgeAndFree(o)
           \/ Recovery
  BY <1>4, QuietEngine
<1> QED
  BY <1>1, <1>2, <1>3, <1>4 DEF Next

(***************************************************************************)
(* Whatever the threads, keys, slots and calls are, and however often the  *)
(* engine crashes, at any point of a write or of a recovery: a batch takes *)
(* effect for all of its keys in the step that commits its log, a single   *)
(* write in the step that persists its record, a call that fails never;    *)
(* no other step, and no crash, changes what a recovery would find.        *)
(***************************************************************************)
THEOREM WritesAreAtomic == Spec => ImplementsAtomicStore
  BY BatchInvariant, StoreStarts, StoreStep, PTL
     DEF Spec, ImplementsAtomicStore, Store!AtomicStoreSpec
=============================================================================
