------------------------ MODULE HashTableTableProofs ------------------------
(***************************************************************************)
(* The inductive invariant of HashTable, and what a step does to its types,*)
(* its locks and the entries of the table.                                 *)
(***************************************************************************)
EXTENDS HashTable, TLAPS

USE Zenon

\* What happens to be in the memory of a new HashBucket, which nothing clears before an
\* entry of it is counted, does not look like the entry of a key.
FreshMemory == \A e \in Unwritten : e.type # "Record"

\* Entry i of bucket b is the entry of a key.
IsRecord(b, i) == i < count[b] /\ entry[b][i].type = "Record"

TableInv ==
  /\ \A b \in Bucket : \A i, j \in Index :
       IsRecord(b, i) /\ IsRecord(b, j) /\ entry[b][i].key = entry[b][j].key => i = j
  /\ \A b \in Bucket : \A i \in Index : IsRecord(b, i) =>
       /\ entry[b][i].key \in Key /\ BucketOf[entry[b][i].key] = b
       /\ db[entry[b][i].key] = Content(entry[b][i])
  /\ \A k \in Key : db[k] # Absent =>
       \E i \in Index : IsRecord(BucketOf[k], i) /\ entry[BucketOf[k]][i].key = k
  /\ \A b \in Bucket : \A i \in Index : i >= count[b] => entry[b][i].type # "Record"

LocksHeld == \A t \in Thread : \A s \in held[t] : lock[s] = t

\* Nothing in the table is the entry of k.
Missing(k) == \A i \in Index : IsRecord(BucketOf[k], i) => entry[BucketOf[k]][i].key # k

\* entry_ptr of k is its entry, or one that is taken for it.
Placed(t, k) ==
  LET e == entry[BucketOf[k]][pos[t][k]] IN
  /\ pos[t][k] \in Index /\ pos[t][k] < count[BucketOf[k]]
  /\ \/ e.type = "Record" /\ e.key = k
     \/ Missing(k) /\ (e.type = "Allocated" \/ (e.type # "Record" /\ At(t, "clear") /\ key[t] = k))

Writing(t) == pc[t] \in {"lookup", "allocate", "count", "clear", "insert"}

CallInv(t) ==
  /\ todo[t] \subseteq Keys(t) /\ publish[t] \subseteq Keys(t)
  /\ \A k \in publish[t] : pos[t][k] # -1
  /\ Writing(t) => \A k \in Keys(t) : SlotOf(k) \in held[t]
  /\ \A k \in Key : pos[t][k] # -1 =>
       Writing(t) /\ k \in Keys(t) /\ k \notin todo[t] /\ Placed(t, k)
  /\ \A j, k \in Key :
       pos[t][j] # -1 /\ BucketOf[j] = BucketOf[k] /\ pos[t][j] = pos[t][k] => j = k
  /\ pc[t] \in {"allocate", "count"} =>
       key[t] \in Keys(t) /\ pos[t][key[t]] = -1 /\ Missing(key[t]) /\ key[t] \notin todo[t]
  /\ At(t, "clear") =>
       /\ key[t] \in Keys(t) /\ pos[t][key[t]] # -1
       /\ entry[BucketOf[key[t]]][pos[t][key[t]]].type # "Record"
  /\ At(t, "visit") =>
       /\ bucket[t] \in Bucket /\ idx[t] \in Index /\ idx[t] < count[bucket[t]]
       /\ get_slot_num(bucket[t]) \in held[t]
  /\ pc[t] \in {"idle", "slot"} => bucket[t] \in Bucket

\* The variables of which TypeOK says nothing are arrays over the threads.
Arrays == idx = [u \in Thread |-> idx[u]] /\ bucket = [u \in Thread |-> bucket[u]]

HashTableInv == TypeOK /\ Arrays /\ TableInv /\ LocksHeld /\ \A t \in Thread : CallInv(t)

----------------------------------------------------------------------------
LEMMA InitHolds == FreshMemory /\ Init => HashTableInv
<1> SUFFICES ASSUME FreshMemory, Init PROVE HashTableInv
  OBVIOUS
<1> USE HashTableAssumption
<1>1. entry \in [Bucket -> [Index -> Entry]]
  <2>1. Zero \in Entry
    BY DEF Zero, Entry, Status
  <2>2. {[i \in Index |-> IF i < kNumEntryPerBucket THEN Zero ELSE e] : e \in Unwritten}
          \subseteq [Index -> Entry]
    BY <2>1
  <2> QED
    BY <2>2 DEF Init
<1>2. \A b \in Bucket : \A i \in Index : entry[b][i].type # "Record"
  <2> SUFFICES ASSUME NEW b \in Bucket, NEW i \in Index PROVE entry[b][i].type # "Record"
    OBVIOUS
  <2>1. PICK e \in Unwritten :
          entry[b] = [j \in Index |-> IF j < kNumEntryPerBucket THEN Zero ELSE e]
    BY SMT DEF Init
  <2> QED
    BY SMT, <2>1 DEF FreshMemory, Zero
<1>3. /\ NoCall \in Call /\ \A t \in Thread : Keys(t) = {}
      /\ Absent \in [by : Thread \union {None}, status : Status]
  <2>1. NoOps \in [{} -> {"Put", "Delete"}] /\ DOMAIN NoOps = {}
    BY DEF NoOps
  <2>2. NoOps \in Ops
    BY <2>1 DEF Ops
  <2>3. NoCall \in Call /\ NoCall.ops = NoOps
    BY <2>2 DEF NoCall, Call
  <2>4. Absent \in [by : Thread \union {None}, status : Status]
    BY DEF Absent, Status
  <2> QED
    BY <2>1, <2>3, <2>4 DEF Init, Keys
<1>4. TypeOK
  <2>1. count \in [Bucket -> 0 .. MaxEntries] /\ chain \in [Bucket -> Nat]
    BY SMT DEF Init
  <2>2. /\ lock \in [Slot -> Thread \union {None}] /\ call \in [Thread -> Call]
        /\ workload \in Workloads /\ held \in [Thread -> SUBSET Slot]
        /\ todo \in [Thread -> SUBSET Key] /\ key \in [Thread -> Key \union {None}]
        /\ publish \in [Thread -> SUBSET Key]
        /\ db \in [Key -> [by : Thread \union {None}, status : Status]]
    BY <1>3 DEF Init
  <2>3. pos \in [Thread -> [Key -> Index \union {-1}]]
    BY DEF Init
  <2> QED
    BY <1>1, <2>1, <2>2, <2>3 DEF Init, TypeOK, Location
<1>5. TableInv
  BY <1>2 DEF TableInv, Init, IsRecord
<1>6. LocksHeld /\ \A t \in Thread : CallInv(t)
  BY SMT, <1>3 DEF Init, LocksHeld, CallInv, Writing, At, Bucket
<1>7. Arrays
  BY DEF Init, Arrays
<1> QED
  BY <1>4, <1>5, <1>6, <1>7 DEF HashTableInv

(***************************************************************************)
(* What a step of t leaves alone: the calls of the others, and every       *)
(* bucket whose slot t has not locked.                                     *)
(***************************************************************************)
OnlyOf(t) ==
  \A u \in Thread \ {t} :
    /\ pc'[u] = pc[u] /\ call'[u] = call[u] /\ todo'[u] = todo[u] /\ key'[u] = key[u]
    /\ pos'[u] = pos[u] /\ publish'[u] = publish[u] /\ held'[u] = held[u]
    /\ bucket'[u] = bucket[u] /\ idx'[u] = idx[u]

Untouched(t) ==
  \A b \in Bucket : get_slot_num(b) \notin held[t] => entry'[b] = entry[b] /\ count'[b] = count[b]

LEMMA OthersStay ==
  ASSUME TypeOK, LocksHeld, NEW t \in Thread, NEW u \in Thread, u # t, CallInv(u),
         OnlyOf(t), Untouched(t)
  PROVE  CallInv(u)'
<1> USE HashTableAssumption
<1>1. \A s \in held[u] : s \notin held[t]
  BY DEF LocksHeld
<1>2. /\ pc'[u] = pc[u] /\ call'[u] = call[u] /\ todo'[u] = todo[u] /\ key'[u] = key[u]
      /\ pos'[u] = pos[u] /\ publish'[u] = publish[u] /\ held'[u] = held[u]
      /\ bucket'[u] = bucket[u] /\ idx'[u] = idx[u]
  BY DEF OnlyOf
<1>3. Keys(u)' = Keys(u) /\ (Writing(u)' <=> Writing(u))
  BY <1>2 DEF Keys, Writing
<1>4. ASSUME NEW k \in Key, k \in Keys(u), Writing(u)
      PROVE  /\ entry'[BucketOf[k]] = entry[BucketOf[k]] /\ count'[BucketOf[k]] = count[BucketOf[k]]
             /\ Missing(k)' <=> Missing(k)
             /\ Placed(u, k)' <=> Placed(u, k)
  <2>1. BucketOf[k] \in Bucket /\ SlotOf(k) \in held[u]
    BY <1>4 DEF CallInv
  <2>2. entry'[BucketOf[k]] = entry[BucketOf[k]] /\ count'[BucketOf[k]] = count[BucketOf[k]]
    BY <2>1, <1>1 DEF Untouched, SlotOf
  <2>3. Missing(k)' <=> Missing(k)
    BY <2>2 DEF Missing, IsRecord
  <2> QED
    BY <2>2, <2>3, <1>2 DEF Placed, At
<1>5. Keys(u) \subseteq Key
  BY SMT DEF TypeOK, Call, Ops, Keys
<1>6. \A k \in Key : pos'[u][k] # -1 =>
        Writing(u)' /\ k \in Keys(u)' /\ k \notin todo'[u] /\ Placed(u, k)'
  BY <1>2, <1>3, <1>4 DEF CallInv
<1>7. pc'[u] \in {"allocate", "count"} =>
        /\ key'[u] \in Keys(u)' /\ pos'[u][key'[u]] = -1
        /\ Missing(key[u])' /\ key'[u] \notin todo'[u]
  BY <1>2, <1>3, <1>4, <1>5 DEF CallInv, Writing
<1>8. At(u, "clear")' =>
        /\ key'[u] \in Keys(u)' /\ pos'[u][key'[u]] # -1
        /\ entry'[BucketOf[key'[u]]][pos'[u][key'[u]]].type # "Record"
  <2>1. SUFFICES ASSUME pc[u] = "clear"
                 PROVE  /\ key[u] \in Keys(u) /\ pos[u][key[u]] # -1
                        /\ entry'[BucketOf[key[u]]][pos[u][key[u]]].type # "Record"
    BY <1>2, <1>3 DEF At
  <2>2. Writing(u) /\ At(u, "clear")
    BY <2>1 DEF Writing, At
  <2>3. /\ key[u] \in Keys(u) /\ pos[u][key[u]] # -1
        /\ entry[BucketOf[key[u]]][pos[u][key[u]]].type # "Record"
    BY <2>2 DEF CallInv
  <2>4. entry'[BucketOf[key[u]]] = entry[BucketOf[key[u]]]
    BY <1>4, <1>5, <2>2, <2>3
  <2> QED
    BY <2>3, <2>4
<1>9. At(u, "visit")' =>
        /\ bucket'[u] \in Bucket /\ idx'[u] \in Index /\ idx'[u] < count'[bucket'[u]]
        /\ get_slot_num(bucket'[u]) \in held'[u]
  BY <1>1, <1>2 DEF CallInv, Untouched, At
<1> QED
  <2>1. /\ todo'[u] \subseteq Keys(u)' /\ publish'[u] \subseteq Keys(u)'
        /\ \A k \in publish'[u] : pos'[u][k] # -1
        /\ Writing(u)' => \A k \in Keys(u)' : SlotOf(k) \in held'[u]
    BY <1>2, <1>3 DEF CallInv
  <2>2. /\ \A j, k \in Key :
             pos'[u][j] # -1 /\ BucketOf[j] = BucketOf[k] /\ pos'[u][j] = pos'[u][k] => j = k
        /\ pc'[u] \in {"idle", "slot"} => bucket'[u] \in Bucket
    BY <1>2 DEF CallInv
  <2> QED
    BY <1>6, <1>7, <1>8, <1>9, <2>1, <2>2 DEF CallInv

LEMMA OnlyOwnCall ==
  ASSUME TypeOK, Arrays, NEW t \in Thread, Step(t)
  PROVE  OnlyOf(t) /\ Arrays'
<1> USE DEF OnlyOf, Goto, TypeOK, Arrays
<1>0. /\ \A u \in Thread \ {t} : \A v : [idx EXCEPT ![t] = v][u] = idx[u]
      /\ \A u \in Thread \ {t} : \A v : [bucket EXCEPT ![t] = v][u] = bucket[u]
      /\ \A v : [idx EXCEPT ![t] = v] = [u \in Thread |-> [idx EXCEPT ![t] = v][u]]
      /\ \A v : [bucket EXCEPT ![t] = v] = [u \in Thread |-> [bucket EXCEPT ![t] = v][u]]
  OBVIOUS
<1>1. CASE Start(t)
  BY <1>1 DEF Start, writeVars, readVars, iterVars
<1>2. CASE Lock(t)
  BY <1>2 DEF Lock, readVars, iterVars
<1>3. CASE Lookup(t)
  <2>1. PICK k \in todo[t] :
          /\ todo' = [todo EXCEPT ![t] = @ \ {k}]
          /\ LookupFinds(t, k) \/ LookupReuses(t, k) \/ LookupAllocates(t, k) \/ LookupFails(t, k)
    BY <1>3 DEF Lookup
  <2>2. UNCHANGED <<call, held, idx, bucket>>
    BY <1>3 DEF Lookup, readVars, iterVars
  <2>3. \A u \in Thread \ {t} : pc'[u] = pc[u] /\ key'[u] = key[u] /\ publish'[u] = publish[u]
    BY <2>1 DEF LookupFinds, LookupReuses, LookupAllocates, LookupFails
  <2>4. \A u \in Thread \ {t} : pos'[u] = pos[u]
    BY <2>1 DEF LookupFinds, LookupReuses, LookupAllocates, LookupFails
  <2> QED
    BY <2>1, <2>2, <2>3, <2>4
<1>4. CASE Link(t) \/ CountEntry(t) \/ MarkAsAllocated(t)
  BY <1>4 DEF Link, CountEntry, MarkAsAllocated, writeVars, readVars, iterVars
<1>5. CASE Return(t)
  BY <1>5 DEF Return
<1>6. CASE Insert(t)
  BY <1>6 DEF Insert, readVars, iterVars
<1>7. CASE GetCache(t) \/ GetCached(t) \/ GetValid(t) \/ GetLoad(t) \/ GetNext(t)
  BY SMT, <1>7, <1>0 DEF GetCache, GetCached, GetValid, GetLoad, GetNext, GetUnchanged, writeVars, readVars
<1>8. ASSUME NEW b, NEW s, Move(t, b, s), UNCHANGED <<call, todo, key, pos, publish>>
      PROVE  OnlyOf(t) /\ Arrays'
  BY <1>8, <1>0 DEF Move
<1>9. CASE SlotBegin(t)
  BY <1>8, <1>9 DEF SlotBegin
<1>10. CASE Visit(t)
  <2>1. CASE idx[t] + 1 < count[bucket[t]]
    BY <1>10, <1>0, <2>1 DEF Visit
  <2>2. CASE ~(idx[t] + 1 < count[bucket[t]])
    BY <1>8, <1>10, <2>2 DEF Visit
  <2> QED
    BY <2>1, <2>2
<1> QED
  BY <1>1, <1>2, <1>3, <1>4, <1>5, <1>6, <1>7, <1>9, <1>10
  DEF Step, MemoryOverflow, PmemOverflow, Fail, Finish, GetReturn, IterationEnds

(***************************************************************************)
(* SetType changes the type of the entries it is given, and nothing else.  *)
(***************************************************************************)
LEMMA SetTypeAt ==
  ASSUME entry \in [Bucket -> [Index -> Entry]], NEW S, NEW ty, ty \in {"Empty", "Allocated"},
         NEW b \in Bucket, NEW i \in Index
  PROVE  /\ SetType(S, ty)[b][i] \in Entry
         /\ <<b, i>> \in S => SetType(S, ty)[b][i].type = ty
         /\ <<b, i>> \notin S => SetType(S, ty)[b][i] = entry[b][i]
<1>1. entry[b][i] \in Entry
  OBVIOUS
<1>2. \A e \in Entry : [e EXCEPT !.type = ty] \in Entry /\ [e EXCEPT !.type = ty].type = ty
  BY DEF Entry
<1> QED
  BY <1>1, <1>2 DEF SetType

\* A bucket that is not among the positions stays as it is.
LEMMA SetTypeKeeps ==
  ASSUME entry \in [Bucket -> [Index -> Entry]], NEW S, NEW ty, NEW b \in Bucket,
         \A i \in Index : <<b, i>> \notin S
  PROVE  SetType(S, ty)[b] = entry[b]
BY DEF SetType

(***************************************************************************)
(* The types.                                                              *)
(***************************************************************************)
LEMMA KeyTypes ==
  ASSUME TypeOK, NEW t \in Thread
  PROVE  /\ Keys(t) \subseteq Key /\ todo[t] \subseteq Key /\ publish[t] \subseteq Key
         /\ \A k \in Key : BucketOf[k] \in Bucket /\ SlotOf(k) \in Slot
         /\ \A b \in Bucket : get_slot_num(b) \in Slot
BY SMT, HashTableAssumption DEF TypeOK, Call, Ops, Keys, Slot, SlotOf

LEMMA NoCallType == NoCall \in Call /\ DOMAIN NoCall.ops = {}
<1>1. NoOps \in [{} -> {"Put", "Delete"}] /\ DOMAIN NoOps = {}
  BY DEF NoOps
<1>2. NoOps \in Ops
  BY <1>1 DEF Ops
<1> QED
  BY <1>1, <1>2 DEF NoCall, Call

LEMMA SetTypeType ==
  ASSUME TypeOK, NEW S, NEW ty \in {"Empty", "Allocated"}
  PROVE  SetType(S, ty) \in [Bucket -> [Index -> Entry]]
<1>1. entry \in [Bucket -> [Index -> Entry]]
  BY DEF TypeOK
<1>2. \A b \in Bucket : \A i \in Index : SetType(S, ty)[b][i] \in Entry
  BY <1>1, SetTypeAt
<1> QED
  BY <1>2 DEF SetType

LEMMA BecomesType ==
  ASSUME TypeOK, NEW k, NEW c \in [by : Thread \union {None}, status : Status], Becomes(k, c)
  PROVE  db' \in [Key -> [by : Thread \union {None}, status : Status]]
BY DEF TypeOK, Becomes

LEMMA ReturnType ==
  ASSUME TypeOK, NEW t \in Thread, Return(t), entry' \in [Bucket -> [Index -> Entry]]
  PROVE  TypeOK'
BY NoCallType DEF TypeOK, Return, Goto, Location

LEMMA GotoType ==
  ASSUME TypeOK, NEW t \in Thread, NEW p \in Location, Goto(t, p)
  PROVE  pc' \in [Thread -> Location]
BY DEF TypeOK, Goto

LEMMA PosType ==
  ASSUME TypeOK, NEW t \in Thread, NEW k, NEW i \in Index, pos' = [pos EXCEPT ![t][k] = i]
  PROVE  pos' \in [Thread -> [Key -> Index \union {-1}]]
<1>1. pos \in [Thread -> [Key -> Index \union {-1}]]
  BY DEF TypeOK
<1>2. [pos[t] EXCEPT ![k] = i] \in [Key -> Index \union {-1}]
  BY <1>1
<1> QED
  BY <1>1, <1>2

LEMMA MoveType ==
  ASSUME TypeOK, NEW t \in Thread, NEW b, NEW s \in Slot, Move(t, b, s)
  PROVE  /\ lock' \in [Slot -> Thread \union {None}] /\ held' \in [Thread -> SUBSET Slot]
         /\ pc' \in [Thread -> Location]
<1>1. lock' = [lock EXCEPT ![s] = t] \/ lock' = [lock EXCEPT ![s] = None]
  BY DEF Move
<1>2. held' = [held EXCEPT ![t] = {s}] \/ held' = [held EXCEPT ![t] = {}]
  BY DEF Move
<1>3. \E p \in Location : Goto(t, p)
  BY DEF Move, Location
<1>4. lock \in [Slot -> Thread \union {None}] /\ held \in [Thread -> SUBSET Slot]
  BY DEF TypeOK
<1>5. pc' \in [Thread -> Location]
  BY <1>3, GotoType
<1>6. lock' \in [Slot -> Thread \union {None}]
  BY <1>1, <1>4
<1>7. held' \in [Thread -> SUBSET Slot]
  BY <1>2, <1>4
<1> QED
  BY <1>5, <1>6, <1>7

LEMMA TypeStep ==
  ASSUME TypeOK, NEW t \in Thread, CallInv(t), Step(t)
  PROVE  TypeOK'
<1> USE HashTableAssumption
<1>0. Absent \in [by : Thread \union {None}, status : Status]
  BY DEF Absent, Status
<1>1. CASE Start(t)
  <2>1. PICK c \in workload.calls[t] :
          /\ call' = [call EXCEPT ![t] = c]
          /\ Goto(t, CASE c.op = "Get" -> "cache" [] c.op = "Clean" -> "slot" [] OTHER -> "lock")
          /\ todo' = [todo EXCEPT ![t] = IF c.op \in {"Single", "Batch"} THEN DOMAIN c.ops ELSE {}]
    BY <1>1 DEF Start
  <2>2. c \in Call
    BY SMT DEF TypeOK, Workload
  <2>3. DOMAIN c.ops \subseteq Key
    BY SMT, <2>2 DEF Call, Ops
  <2>4. call' \in [Thread -> Call] /\ todo' \in [Thread -> SUBSET Key]
    BY <2>1, <2>2, <2>3 DEF TypeOK
  <2>5. pc' \in [Thread -> Location]
    BY <2>1 DEF TypeOK, Goto, Location
  <2> QED
    BY <1>1, <2>4, <2>5 DEF TypeOK, Start, tableVars
<1>2. CASE Lock(t)
  <2>1. PICK s \in {SlotOf(k) : k \in Keys(t)} :
          /\ lock' = [lock EXCEPT ![s] = t] /\ held' = [held EXCEPT ![t] = @ \union {s}]
          /\ Goto(t, IF \A k \in Keys(t) : SlotOf(k) \in held'[t] THEN "lookup" ELSE "lock")
    BY <1>2 DEF Lock
  <2>2. s \in Slot
    BY KeyTypes
  <2> QED
    BY SMT, <1>2, <2>1, <2>2 DEF TypeOK, Lock, tableVars, ghostVars, Goto, Location
<1>3. CASE Lookup(t)
  <2>1. PICK k \in todo[t] :
          /\ todo' = [todo EXCEPT ![t] = @ \ {k}]
          /\ LookupFinds(t, k) \/ LookupReuses(t, k) \/ LookupAllocates(t, k) \/ LookupFails(t, k)
    BY <1>3 DEF Lookup
  <2>2. k \in Key
    BY KeyTypes
  <2>3. entry' = entry \/ \E S : entry' = SetType(S, "Allocated")
    BY <2>1 DEF LookupFinds, LookupReuses, LookupAllocates, LookupFails
  <2>4. entry' \in [Bucket -> [Index -> Entry]]
    BY SMT, <2>3, SetTypeType DEF TypeOK
  <2>5. (pc' = pc /\ key' = key) \/ (Goto(t, "allocate") /\ key' = [key EXCEPT ![t] = k])
    BY <2>1 DEF LookupFinds, LookupReuses, LookupAllocates, LookupFails
  <2>6. pc \in [Thread -> Location] /\ key \in [Thread -> Key \union {None}]
        /\ publish \in [Thread -> SUBSET Key] /\ todo \in [Thread -> SUBSET Key]
    BY DEF TypeOK
  <2>7. pc' \in [Thread -> Location]
    BY <2>5, <2>6, GotoType DEF Location
  <2>8. key' \in [Thread -> Key \union {None}]
    BY <2>2, <2>5, <2>6
  <2>9. pos' = pos \/ \E i \in Index : pos' = [pos EXCEPT ![t][k] = i]
    BY <2>1 DEF LookupFinds, LookupReuses, LookupAllocates, LookupFails, Empties
  <2>10. pos' \in [Thread -> [Key -> Index \union {-1}]]
    BY <2>9, PosType DEF TypeOK
  <2>11. publish' = publish \/ publish' = [publish EXCEPT ![t] = @ \union {k}]
    BY <2>1 DEF LookupFinds, LookupReuses, LookupAllocates, LookupFails
  <2>12. publish' \in [Thread -> SUBSET Key]
    BY SMT, <2>2, <2>6, <2>11
  <2>13. todo' \in [Thread -> SUBSET Key]
    BY <2>1, <2>6
  <2> QED
    BY <1>3, <2>4, <2>7, <2>8, <2>10, <2>12, <2>13 DEF TypeOK, Lookup, ghostVars
<1>4. CASE Link(t)
  <2>1. chain \in [Bucket -> Nat] /\ chain' = [chain EXCEPT ![BucketOf[key[t]]] = @ + 1]
    BY <1>4 DEF TypeOK, Link
  <2>2. chain' \in [Bucket -> Nat]
    <3>1. BucketOf[key[t]] \in Bucket
      BY <1>4, KeyTypes DEF Link, CallInv, At
    <3>2. chain[BucketOf[key[t]]] + 1 \in Nat
      BY SMT, <2>1, <3>1
    <3> QED
      BY <2>1, <3>2
  <2>3. pc' \in [Thread -> Location]
    BY <1>4, GotoType DEF Link, Location
  <2> QED
    BY <1>4, <2>2, <2>3 DEF TypeOK, Link, writeVars, ghostVars
<1>5. CASE CountEntry(t)
  <2>1. key[t] \in Key
    BY <1>5, KeyTypes DEF CountEntry, CallInv, At
  <2>2. /\ count \in [Bucket -> 0 .. MaxEntries] /\ count[BucketOf[key[t]]] < MaxEntries
        /\ count' = [count EXCEPT ![BucketOf[key[t]]] = @ + 1]
        /\ pos' = [pos EXCEPT ![t][key[t]] = count[BucketOf[key[t]]]]
    BY <1>5 DEF TypeOK, CountEntry
  <2>3. count[BucketOf[key[t]]] \in Index /\ count' \in [Bucket -> 0 .. MaxEntries]
    BY SMT, <2>1, <2>2 DEF Index
  <2>4. pos' \in [Thread -> [Key -> Index \union {-1}]]
    BY <2>2, <2>3, PosType
  <2>5. pc' \in [Thread -> Location]
    BY <1>5, GotoType DEF CountEntry, Location
  <2> QED
    BY <1>5, <2>3, <2>4, <2>5 DEF TypeOK, CountEntry, ghostVars
<1>6. CASE MarkAsAllocated(t)
  <2>1. entry' \in [Bucket -> [Index -> Entry]]
    BY <1>6, SetTypeType DEF MarkAsAllocated
  <2>2. key[t] \in Key
    BY <1>6, KeyTypes DEF MarkAsAllocated, CallInv
  <2>3. publish' \in [Thread -> SUBSET Key] /\ pc' \in [Thread -> Location]
    BY <1>6, <2>2 DEF TypeOK, MarkAsAllocated, Goto, Location
  <2> QED
    BY <1>6, <2>1, <2>3 DEF TypeOK, MarkAsAllocated, ghostVars
<1>7. CASE MemoryOverflow(t) \/ PmemOverflow(t)
  <2>1. entry' \in [Bucket -> [Index -> Entry]] /\ Return(t)
    BY SMT, <1>7, SetTypeType DEF TypeOK, MemoryOverflow, PmemOverflow, Fail
  <2> QED
    BY <2>1, ReturnType
<1>8. CASE Insert(t)
  <2>1. PICK k \in publish[t] :
          /\ entry' = [entry EXCEPT ![BucketOf[k]][pos[t][k]] = Inserted(t, k)]
          /\ publish' = [publish EXCEPT ![t] = @ \ {k}]
          /\ Becomes(k, Content(Inserted(t, k)))
    BY <1>8 DEF Insert
  <2>2. Inserted(t, k) \in Entry
    BY KeyTypes DEF Inserted, Entry, Status
  <2>3. Content(Inserted(t, k)) \in [by : Thread \union {None}, status : Status]
    BY <2>2 DEF Content, Entry
  <2>4. entry' \in [Bucket -> [Index -> Entry]] /\ publish' \in [Thread -> SUBSET Key]
    BY <2>1, <2>2 DEF TypeOK
  <2>5. db' \in [Key -> [by : Thread \union {None}, status : Status]]
    BY <2>1, <2>3, BecomesType
  <2>6. pc' \in [Thread -> Location]
    BY <1>8 DEF TypeOK, Insert, Goto, Location
  <2> QED
    BY <1>8, <2>4, <2>5, <2>6 DEF TypeOK, Insert
<1>9. CASE Finish(t) \/ GetReturn(t) \/ IterationEnds(t)
  <2>1. Return(t) /\ entry' \in [Bucket -> [Index -> Entry]]
    BY <1>9 DEF TypeOK, Finish, GetReturn, IterationEnds
  <2> QED
    BY <2>1, ReturnType
<1>10. CASE GetCache(t) \/ GetCached(t) \/ GetValid(t) \/ GetLoad(t) \/ GetNext(t)
  <2>1. \E p \in Location : Goto(t, p)
    BY <1>10 DEF GetCache, GetCached, GetValid, GetLoad, GetNext, Location
  <2>2. GetUnchanged
    BY <1>10 DEF GetCache, GetCached, GetValid, GetLoad, GetNext
  <2> QED
    BY SMT, <2>1, <2>2 DEF TypeOK, Goto, GetUnchanged, writeVars, ghostVars
<1>11. CASE SlotBegin(t)
  <2>1. get_slot_num(bucket[t]) \in Slot
    BY <1>11, KeyTypes DEF SlotBegin, CallInv, At
  <2>2. Move(t, bucket[t], get_slot_num(bucket[t]))
    BY <1>11 DEF SlotBegin
  <2> QED
    BY <1>11, <2>1, <2>2, MoveType DEF SlotBegin, TypeOK, tableVars, ghostVars
<1>12. CASE Visit(t)
  <2>1. get_slot_num(bucket[t]) \in Slot
    BY <1>12, KeyTypes DEF Visit, CallInv
  <2>2. /\ lock' \in [Slot -> Thread \union {None}] /\ held' \in [Thread -> SUBSET Slot]
        /\ pc' \in [Thread -> Location]
    <3>1. CASE idx[t] + 1 < count[bucket[t]]
      BY <1>12, <3>1 DEF Visit, TypeOK
    <3>2. CASE ~(idx[t] + 1 < count[bucket[t]])
      <4>1. Move(t, bucket[t] + 1, get_slot_num(bucket[t]))
        BY <1>12, <3>2 DEF Visit
      <4> QED
        BY <4>1, <2>1, MoveType
    <3> QED
      BY <3>1, <3>2
  <2>3. \/ /\ entry' = SetType({<<bucket[t], idx[t]>>}, "Empty")
           /\ Becomes(entry[bucket[t]][idx[t]].key, Absent)
        \/ UNCHANGED <<entry, db>>
    BY <1>12 DEF Visit, ghostVars
  <2>4. entry' \in [Bucket -> [Index -> Entry]]
    BY SMT, <2>3, SetTypeType DEF TypeOK
  <2>5. db' \in [Key -> [by : Thread \union {None}, status : Status]]
    BY <2>3, <1>0, BecomesType DEF TypeOK
  <2> QED
    BY <1>12, <2>2, <2>4, <2>5 DEF Visit, TypeOK
<1> QED
  BY <1>1, <1>2, <1>3, <1>4, <1>5, <1>6, <1>7, <1>8, <1>9, <1>10, <1>11, <1>12 DEF Step

(***************************************************************************)
(* The locks: a slot that a thread holds is locked by it, and a step       *)
(* changes only the buckets of slots that its thread holds.                *)
(***************************************************************************)
LEMMA LocksStep ==
  ASSUME TypeOK, LocksHeld, NEW t \in Thread, CallInv(t), Step(t), OnlyOf(t)
  PROVE  LocksHeld'
<1> USE HashTableAssumption
<1>0. lock \in [Slot -> Thread \union {None}] /\ held \in [Thread -> SUBSET Slot]
  BY DEF TypeOK
<1>1. \A u \in Thread \ {t} : held'[u] = held[u]
  BY DEF OnlyOf
<1>2. CASE lock' = lock /\ held' = held
  BY <1>2 DEF LocksHeld
<1>3. CASE Return(t)
  <2>1. held'[t] = {} /\ \A s \in Slot : s \notin held[t] => lock'[s] = lock[s]
    BY <1>3, <1>0 DEF Return
  <2> QED
    BY <1>0, <1>1, <2>1 DEF LocksHeld
<1>4. CASE Lock(t)
  <2>1. PICK s \in {SlotOf(k) : k \in Keys(t)} :
          /\ lock[s] = None
          /\ lock' = [lock EXCEPT ![s] = t] /\ held' = [held EXCEPT ![t] = @ \union {s}]
    BY <1>4 DEF Lock
  <2>2. s \in Slot
    BY KeyTypes
  <2>3. held'[t] = held[t] \union {s} /\ lock'[s] = t /\ \A r \in Slot \ {s} : lock'[r] = lock[r]
    BY <1>0, <2>1, <2>2
  <2>4. \A u \in Thread : s \notin held[u]
    BY <2>1 DEF LocksHeld
  <2> QED
    BY SMT, <1>0, <1>1, <2>3, <2>4 DEF LocksHeld
<1>5. ASSUME NEW b, NEW s \in Slot, Move(t, b, s), lock[s] \in {None, t}
      PROVE  LocksHeld'
  <2>1. \A u \in Thread \ {t} : s \notin held[u]
    BY SMT, <1>5 DEF LocksHeld
  <2>2. \A r \in Slot \ {s} : lock'[r] = lock[r]
    BY <1>0, <1>5 DEF Move
  <2>3. held'[t] = {} \/ (held'[t] = {s} /\ lock'[s] = t)
    BY <1>0, <1>5 DEF Move
  <2> QED
    BY SMT, <1>0, <1>1, <2>1, <2>2, <2>3 DEF LocksHeld
<1>6. CASE SlotBegin(t)
  <2>1. get_slot_num(bucket[t]) \in Slot
    BY <1>6, KeyTypes DEF SlotBegin, CallInv, At
  <2> QED
    BY <1>5, <1>6, <2>1 DEF SlotBegin
<1>7. CASE Visit(t)
  <2>1. get_slot_num(bucket[t]) \in Slot /\ lock[get_slot_num(bucket[t])] = t
    BY <1>7, KeyTypes DEF Visit, CallInv, LocksHeld
  <2>2. \/ lock' = lock /\ held' = held
        \/ Move(t, bucket[t] + 1, get_slot_num(bucket[t]))
    BY <1>7 DEF Visit
  <2> QED
    BY <1>2, <1>5, <2>1, <2>2
<1>8. CASE Start(t) \/ Lookup(t) \/ Link(t) \/ CountEntry(t) \/ MarkAsAllocated(t) \/ Insert(t)
  BY <1>2, <1>8 DEF Start, Lookup, Link, CountEntry, MarkAsAllocated, Insert, writeVars
<1>9. CASE GetCache(t) \/ GetCached(t) \/ GetValid(t) \/ GetLoad(t) \/ GetNext(t)
  BY <1>2, <1>9 DEF GetCache, GetCached, GetValid, GetLoad, GetNext, GetUnchanged, writeVars
<1> QED
  BY <1>3, <1>4, <1>6, <1>7, <1>8, <1>9
  DEF Step, MemoryOverflow, PmemOverflow, Fail, Finish, GetReturn, IterationEnds

\* The positions that a call holds are in buckets it has locked.
LEMMA PointersHeld ==
  ASSUME TypeOK, NEW t \in Thread, CallInv(t)
  PROVE  \A p \in Pointers(t) : /\ p[1] \in Bucket /\ get_slot_num(p[1]) \in held[t]
                                /\ p[2] \in Index /\ p[2] < count[p[1]]
<1> SUFFICES ASSUME NEW k \in Keys(t), pos[t][k] # -1
             PROVE  /\ BucketOf[k] \in Bucket /\ get_slot_num(BucketOf[k]) \in held[t]
                    /\ pos[t][k] \in Index /\ pos[t][k] < count[BucketOf[k]]
  BY SMT DEF Pointers
<1>1. k \in Key /\ BucketOf[k] \in Bucket
  BY KeyTypes
<1> QED
  BY <1>1 DEF CallInv, Placed, SlotOf

LEMMA TouchesHeld ==
  ASSUME TypeOK, NEW t \in Thread, CallInv(t), Step(t)
  PROVE  Untouched(t)
<1> SUFFICES ASSUME NEW b \in Bucket, get_slot_num(b) \notin held[t]
             PROVE  entry'[b] = entry[b] /\ count'[b] = count[b]
  BY DEF Untouched
<1>0. /\ entry \in [Bucket -> [Index -> Entry]] /\ count \in [Bucket -> 0 .. MaxEntries]
      /\ \A S, ty : (\A i \in Index : <<b, i>> \notin S) => SetType(S, ty)[b] = entry[b]
  BY SMT, SetTypeKeeps DEF TypeOK
<1>1. \A k \in Keys(t) : Writing(t) => BucketOf[k] # b
  BY DEF CallInv, SlotOf
<1>2. CASE Lookup(t)
  <2>1. PICK k \in todo[t] :
          LookupFinds(t, k) \/ LookupReuses(t, k) \/ LookupAllocates(t, k) \/ LookupFails(t, k)
    BY <1>2 DEF Lookup
  <2>2. BucketOf[k] # b
    BY <1>1, <1>2 DEF Lookup, At, Writing, CallInv
  <2>3. entry' = entry \/ \E i : entry' = SetType({<<BucketOf[k], i>>}, "Allocated")
    BY <2>1 DEF LookupFinds, LookupReuses, LookupAllocates, LookupFails
  <2>4. ASSUME NEW i, entry' = SetType({<<BucketOf[k], i>>}, "Allocated")
        PROVE  entry'[b] = entry[b]
    <3>1. \A j \in Index : <<b, j>> \notin {<<BucketOf[k], i>>}
      BY <2>2
    <3> HIDE DEF SetType
    <3> QED
      BY <1>0, <2>4, <3>1, SetTypeKeeps
  <2>5. entry'[b] = entry[b]
    BY <2>3, <2>4
  <2> QED
    BY <1>2, <2>5 DEF Lookup
<1>3. CASE CountEntry(t)
  <2>1. BucketOf[key[t]] # b
    BY <1>1, <1>3 DEF CountEntry, At, Writing, CallInv
  <2> QED
    BY <1>0, <1>3, <2>1 DEF CountEntry
<1>4. CASE MarkAsAllocated(t)
  <2>1. BucketOf[key[t]] # b
    BY <1>1, <1>4 DEF MarkAsAllocated, At, Writing, CallInv
  <2> QED
    BY <1>0, <1>4, <2>1 DEF MarkAsAllocated
<1>5. CASE MemoryOverflow(t)
  <2>1. BucketOf[key[t]] # b
    BY <1>1, <1>5 DEF MemoryOverflow, At, Writing, CallInv
  <2>2. \A i \in Index : <<b, i>> \notin Pointers(t)
    BY PointersHeld
  <2> QED
    BY <1>0, <1>5, <2>1, <2>2 DEF MemoryOverflow, Fail, Return
<1>6. CASE PmemOverflow(t)
  <2>1. \A i \in Index : <<b, i>> \notin Pointers(t)
    BY PointersHeld
  <2> QED
    BY <1>0, <1>6, <2>1 DEF PmemOverflow, Fail, Return
<1>7. CASE Insert(t)
  <2>1. PICK k \in publish[t] : entry' = [entry EXCEPT ![BucketOf[k]][pos[t][k]] = Inserted(t, k)]
    BY <1>7 DEF Insert
  <2>2. BucketOf[k] # b
    BY <1>1, <1>7 DEF Insert, Writing, CallInv
  <2> QED
    BY <1>0, <1>7, <2>1, <2>2 DEF Insert
<1>8. CASE Visit(t)
  <2>1. bucket[t] # b
    BY <1>8 DEF Visit, CallInv
  <2>2. entry' = entry \/ entry' = SetType({<<bucket[t], idx[t]>>}, "Empty")
    BY <1>8 DEF Visit
  <2>3. count' = count
    BY <1>8 DEF Visit
  <2> QED
    BY SMT, <1>0, <2>1, <2>2, <2>3
<1>9. CASE Start(t) \/ Lock(t) \/ Link(t) \/ SlotBegin(t)
  BY <1>9 DEF Start, Lock, Link, SlotBegin, tableVars
<1>10. CASE GetCache(t) \/ GetCached(t) \/ GetValid(t) \/ GetLoad(t) \/ GetNext(t)
  BY <1>10 DEF GetCache, GetCached, GetValid, GetLoad, GetNext, GetUnchanged
<1>11. CASE Finish(t) \/ GetReturn(t) \/ IterationEnds(t)
  BY <1>11 DEF Finish, GetReturn, IterationEnds, Return
<1> QED
  BY <1>2, <1>3, <1>4, <1>5, <1>6, <1>7, <1>8, <1>9, <1>10, <1>11 DEF Step

(***************************************************************************)
(* The table.  A change of types that leaves the entries of keys alone     *)
(* keeps all that is said of them.                                         *)
(***************************************************************************)
SameRecords ==
  /\ \A b \in Bucket, i \in Index :
       /\ IsRecord(b, i)' <=> IsRecord(b, i)
       /\ IsRecord(b, i) => entry'[b][i] = entry[b][i]
       /\ i >= count'[b] /\ i >= count[b] => (entry'[b][i].type = "Record" => entry[b][i].type = "Record")

LEMMA SetTypeSame ==
  ASSUME TypeOK, count' = count, NEW S, NEW ty \in {"Empty", "Allocated"}, entry' = SetType(S, ty),
         \A b \in Bucket, i \in Index : <<b, i>> \in S => entry[b][i].type # "Record"
  PROVE  SameRecords
<1>0. entry \in [Bucket -> [Index -> Entry]]
  BY DEF TypeOK
<1>1. ASSUME NEW b \in Bucket, NEW i \in Index
      PROVE  /\ <<b, i>> \in S => entry'[b][i].type = ty
             /\ <<b, i>> \notin S => entry'[b][i] = entry[b][i]
  BY SMT, <1>0, SetTypeAt
<1> QED
  BY <1>1 DEF SameRecords, IsRecord

LEMMA SameTable ==
  ASSUME TypeOK, TypeOK', TableInv, SameRecords, db' = db, \A b \in Bucket : count'[b] >= count[b]
  PROVE  TableInv'
<1> USE HashTableAssumption
<1>1. \A b \in Bucket : \A i, j \in Index :
        IsRecord(b, i)' /\ IsRecord(b, j)' /\ entry'[b][i].key = entry'[b][j].key => i = j
  BY DEF SameRecords, TableInv
<1>2. \A b \in Bucket : \A i \in Index : IsRecord(b, i)' =>
        /\ entry'[b][i].key \in Key /\ BucketOf[entry'[b][i].key] = b
        /\ db'[entry'[b][i].key] = Content(entry'[b][i])
  BY SMT DEF SameRecords, TableInv
<1>3. \A k \in Key : db'[k] # Absent =>
        \E i \in Index : IsRecord(BucketOf[k], i)' /\ entry'[BucketOf[k]][i].key = k
  BY DEF SameRecords, TableInv
<1>4. \A b \in Bucket : \A i \in Index : i >= count'[b] => entry'[b][i].type # "Record"
  <2> SUFFICES ASSUME NEW b \in Bucket, NEW i \in Index, i >= count'[b]
               PROVE  entry'[b][i].type # "Record"
    OBVIOUS
  <2>1. i >= count[b]
    BY SMT DEF TypeOK, Index
  <2> QED
    BY <2>1 DEF SameRecords, TableInv
<1> QED
  BY <1>1, <1>2, <1>3, <1>4 DEF TableInv, Absent, Content

\* What is said of a key that is missing, and of one that has an entry, stays as well.
LEMMA SameMissing ==
  ASSUME SameRecords, NEW k \in Key
  PROVE  Missing(k)' <=> Missing(k)
<1>1. BucketOf[k] \in Bucket
  BY HashTableAssumption
<1> QED
  BY <1>1 DEF SameRecords, Missing

\* Insert at entry_ptr of k: nothing else is, or becomes, the entry of k.
LEMMA InsertTable ==
  ASSUME TypeOK, TypeOK', TableInv, NEW k \in Key, NEW p \in Index, p < count[BucketOf[k]],
         \/ IsRecord(BucketOf[k], p) /\ entry[BucketOf[k]][p].key = k
         \/ Missing(k) /\ ~IsRecord(BucketOf[k], p),
         NEW e \in Entry, e.type = "Record", e.key = k,
         count' = count, entry' = [entry EXCEPT ![BucketOf[k]][p] = e],
         db' = [db EXCEPT ![k] = Content(e)]
  PROVE  TableInv'
<1> USE HashTableAssumption
<1> DEFINE b0 == BucketOf[k]
<1>0. /\ entry \in [Bucket -> [Index -> Entry]] /\ db \in [Key -> [by : Thread \union {None}, status : Status]]
      /\ count \in [Bucket -> 0 .. MaxEntries]
  BY DEF TypeOK
<1>1. b0 \in Bucket
  OBVIOUS
<1>2. (IsRecord(b0, p) /\ entry[b0][p].key = k) \/ (Missing(k) /\ ~IsRecord(b0, p))
  OBVIOUS
<1>3. \A i \in Index : IsRecord(b0, i) /\ entry[b0][i].key = k => i = p
  BY <1>1, <1>2 DEF TableInv, Missing
<1>4. e.type = "Record" /\ e.key = k /\ p < count[b0] /\ count' = count
  OBVIOUS
<1>5. /\ entry'[b0][p] = e
      /\ \A b \in Bucket, i \in Index : b # b0 \/ i # p => entry'[b][i] = entry[b][i]
  BY <1>0, <1>1
<1>6. db'[k] = Content(e) /\ \A j \in Key \ {k} : db'[j] = db[j]
  BY <1>0, <1>1
<1> HIDE DEF b0
<1>7. /\ IsRecord(b0, p)'
      /\ \A b \in Bucket, i \in Index : b # b0 \/ i # p => (IsRecord(b, i)' <=> IsRecord(b, i))
  BY <1>1, <1>4, <1>5 DEF IsRecord
<1>8. \A b \in Bucket : \A i, j \in Index :
        IsRecord(b, i)' /\ IsRecord(b, j)' /\ entry'[b][i].key = entry'[b][j].key => i = j
  <2> SUFFICES ASSUME NEW b \in Bucket, NEW i \in Index, NEW j \in Index,
                      IsRecord(b, i)', IsRecord(b, j)', entry'[b][i].key = entry'[b][j].key,
                      i # j
               PROVE  FALSE
    OBVIOUS
  <2>1. CASE (b # b0 \/ i # p) /\ (b # b0 \/ j # p)
    BY SMT, <2>1, <1>5, <1>7 DEF TableInv
  <2>2. CASE b = b0 /\ i = p
    BY SMT, <2>2, <1>3, <1>4, <1>5, <1>7
  <2>3. CASE b = b0 /\ j = p
    BY SMT, <2>3, <1>3, <1>4, <1>5, <1>7
  <2> QED
    BY <2>1, <2>2, <2>3
<1>9. \A b \in Bucket : \A i \in Index : IsRecord(b, i)' =>
        /\ entry'[b][i].key \in Key /\ BucketOf[entry'[b][i].key] = b
        /\ db'[entry'[b][i].key] = Content(entry'[b][i])
  <2> SUFFICES ASSUME NEW b \in Bucket, NEW i \in Index, IsRecord(b, i)'
               PROVE  /\ entry'[b][i].key \in Key /\ BucketOf[entry'[b][i].key] = b
                      /\ db'[entry'[b][i].key] = Content(entry'[b][i])
    OBVIOUS
  <2>1. CASE b = b0 /\ i = p
    BY <2>1, <1>1, <1>4, <1>5, <1>6 DEF b0
  <2>2. CASE b # b0 \/ i # p
    <3>1. IsRecord(b, i) /\ entry'[b][i] = entry[b][i]
      BY <2>2, <1>5, <1>7
    <3>2. entry[b][i].key # k
      BY SMT, <2>2, <3>1, <1>3 DEF TableInv, b0
    <3> QED
      BY SMT, <3>1, <3>2, <1>6 DEF TableInv
  <2> QED
    BY <2>1, <2>2
<1>10. \A j \in Key : db'[j] # Absent =>
         \E i \in Index : IsRecord(BucketOf[j], i)' /\ entry'[BucketOf[j]][i].key = j
  <2> SUFFICES ASSUME NEW j \in Key, db'[j] # Absent
               PROVE  \E i \in Index : IsRecord(BucketOf[j], i)' /\ entry'[BucketOf[j]][i].key = j
    OBVIOUS
  <2>1. CASE j = k
    BY SMT, <2>1, <1>1, <1>4, <1>5, <1>7 DEF b0
  <2>2. CASE j # k
    <3>1. PICK i \in Index : IsRecord(BucketOf[j], i) /\ entry[BucketOf[j]][i].key = j
      BY <2>2, <1>6 DEF TableInv
    <3>2. BucketOf[j] # b0 \/ i # p
      BY <2>2, <3>1, <1>2
    <3> QED
      BY <3>1, <3>2, <1>5, <1>7
  <2> QED
    BY <2>1, <2>2
<1>11. \A b \in Bucket : \A i \in Index : i >= count'[b] => entry'[b][i].type # "Record"
  <2> SUFFICES ASSUME NEW b \in Bucket, NEW i \in Index, i >= count[b]
               PROVE  entry'[b][i].type # "Record"
    OBVIOUS
  <2>1. b # b0 \/ i # p
    BY SMT, <1>0, <1>1, <1>4 DEF Index
  <2> QED
    BY SMT, <2>1, <1>5 DEF TableInv
<1> QED
  BY <1>8, <1>9, <1>10, <1>11 DEF TableInv, Absent, Content

\* The cleaner erases the entry of a key, and that key has no other.
LEMMA EraseTable ==
  ASSUME TypeOK, TypeOK', TableInv, NEW b0 \in Bucket, NEW p \in Index, IsRecord(b0, p),
         count' = count, entry' = SetType({<<b0, p>>}, "Empty"),
         db' = [db EXCEPT ![entry[b0][p].key] = Absent]
  PROVE  TableInv'
<1> USE HashTableAssumption
<1> DEFINE k == entry[b0][p].key
<1>0. /\ entry \in [Bucket -> [Index -> Entry]] /\ db \in [Key -> [by : Thread \union {None}, status : Status]]
  BY DEF TypeOK
<1>1. k \in Key /\ BucketOf[k] = b0 /\ \A i \in Index : IsRecord(b0, i) /\ entry[b0][i].key = k => i = p
  BY DEF TableInv
<1>2. ASSUME NEW b \in Bucket, NEW i \in Index
      PROVE  /\ b = b0 /\ i = p => entry'[b][i].type = "Empty"
             /\ b # b0 \/ i # p => entry'[b][i] = entry[b][i]
  <2> DEFINE S == {<<b0, p>>}
  <2>1. (<<b, i>> \in S <=> b = b0 /\ i = p) /\ entry' = SetType(S, "Empty")
    OBVIOUS
  <2> HIDE DEF S
  <2>2. /\ <<b, i>> \in S => SetType(S, "Empty")[b][i].type = "Empty"
        /\ <<b, i>> \notin S => SetType(S, "Empty")[b][i] = entry[b][i]
    BY SMT, <1>0, SetTypeAt
  <2> QED
    BY <2>1, <2>2
<1>3. db'[k] = Absent /\ \A j \in Key \ {k} : db'[j] = db[j]
  BY <1>0, <1>1
<1>4. \A b \in Bucket, i \in Index : /\ IsRecord(b, i)' => IsRecord(b, i) /\ (b # b0 \/ i # p)
                                     /\ IsRecord(b, i) /\ (b # b0 \/ i # p) => IsRecord(b, i)'
  BY <1>2 DEF IsRecord
<1> HIDE DEF k
<1>5. \A b \in Bucket : \A i, j \in Index :
        IsRecord(b, i)' /\ IsRecord(b, j)' /\ entry'[b][i].key = entry'[b][j].key => i = j
  <2> SUFFICES ASSUME NEW b \in Bucket, NEW i \in Index, NEW j \in Index,
                      IsRecord(b, i)', IsRecord(b, j)', entry'[b][i].key = entry'[b][j].key
               PROVE  i = j
    OBVIOUS
  <2>1. /\ IsRecord(b, i) /\ entry'[b][i] = entry[b][i]
        /\ IsRecord(b, j) /\ entry'[b][j] = entry[b][j]
    BY <1>2, <1>4
  <2> QED
    BY <2>1 DEF TableInv
<1>6. \A b \in Bucket : \A i \in Index : IsRecord(b, i)' =>
        /\ entry'[b][i].key \in Key /\ BucketOf[entry'[b][i].key] = b
        /\ db'[entry'[b][i].key] = Content(entry'[b][i])
  <2> SUFFICES ASSUME NEW b \in Bucket, NEW i \in Index, IsRecord(b, i)'
               PROVE  /\ entry'[b][i].key \in Key /\ BucketOf[entry'[b][i].key] = b
                      /\ db'[entry'[b][i].key] = Content(entry'[b][i])
    OBVIOUS
  <2>1. IsRecord(b, i) /\ (b # b0 \/ i # p) /\ entry'[b][i] = entry[b][i]
    BY <1>2, <1>4
  <2>2. entry[b][i].key # k
    BY SMT, <2>1, <1>1 DEF TableInv
  <2> QED
    BY SMT, <2>1, <2>2, <1>3 DEF TableInv
<1>7. \A j \in Key : db'[j] # Absent =>
        \E i \in Index : IsRecord(BucketOf[j], i)' /\ entry'[BucketOf[j]][i].key = j
  <2> SUFFICES ASSUME NEW j \in Key, db'[j] # Absent
               PROVE  \E i \in Index : IsRecord(BucketOf[j], i)' /\ entry'[BucketOf[j]][i].key = j
    OBVIOUS
  <2>1. j # k
    BY <1>3
  <2>2. PICK i \in Index : IsRecord(BucketOf[j], i) /\ entry[BucketOf[j]][i].key = j
    BY <2>1, <1>3 DEF TableInv
  <2>3. BucketOf[j] # b0 \/ i # p
    BY <2>1, <2>2 DEF k
  <2> QED
    BY <2>2, <2>3, <1>2, <1>4
<1>8. \A b \in Bucket : \A i \in Index : i >= count'[b] => entry'[b][i].type # "Record"
  <2> SUFFICES ASSUME NEW b \in Bucket, NEW i \in Index, i >= count[b]
               PROVE  entry'[b][i].type # "Record"
    OBVIOUS
  <2>1. entry[b][i].type # "Record"
    BY DEF TableInv
  <2> QED
    BY <1>2, <2>1
<1> QED
  BY <1>5, <1>6, <1>7, <1>8 DEF TableInv, Absent, Content

LEMMA CountSame ==
  ASSUME TypeOK, TableInv, NEW b0 \in Bucket, count' = [count EXCEPT ![b0] = @ + 1], entry' = entry
  PROVE  SameRecords /\ \A b \in Bucket : count'[b] >= count[b]
<1>1. count \in [Bucket -> 0 .. MaxEntries] /\ 0 .. MaxEntries \subseteq Int
  BY SMT, HashTableAssumption DEF TypeOK
<1>2. /\ count'[b0] = count[b0] + 1 /\ \A b \in Bucket \ {b0} : count'[b] = count[b]
      /\ \A b \in Bucket : count[b] \in Int
  BY <1>1
<1>3. \A b \in Bucket, i \in Index : IsRecord(b, i)' <=> IsRecord(b, i)
  <2> SUFFICES ASSUME NEW b \in Bucket, NEW i \in Index, entry[b][i].type = "Record"
               PROVE  i < count'[b] <=> i < count[b]
    BY DEF IsRecord
  <2>1. ~(i >= count[b])
    BY DEF TableInv
  <2> QED
    BY SMT, <1>2, <2>1 DEF Index
<1> QED
  BY SMT, <1>2, <1>3 DEF SameRecords

LEMMA TableStep ==
  ASSUME TypeOK, TypeOK', TableInv, NEW t \in Thread, CallInv(t), Step(t)
  PROVE  TableInv'
<1> USE HashTableAssumption
<1>0. /\ \A b \in Bucket : count[b] >= count[b]
      /\ entry \in [Bucket -> [Index -> Entry]]
  BY SMT DEF TypeOK
<1>1. CASE UNCHANGED <<entry, count, db>>
  BY SMT, <1>1 DEF TableInv, IsRecord, Absent, Content
<1>2. ASSUME NEW S, NEW ty \in {"Empty", "Allocated"}, entry' = SetType(S, ty), count' = count, db' = db,
             \A b \in Bucket, i \in Index : <<b, i>> \in S => entry[b][i].type # "Record"
      PROVE  TableInv'
  <2>1. SameRecords
    BY <1>2, SetTypeSame
  <2> QED
    BY <1>0, <1>2, <2>1, SameTable
<1>3. CASE Lookup(t)
  <2>1. PICK k \in todo[t] :
          LookupFinds(t, k) \/ LookupReuses(t, k) \/ LookupAllocates(t, k) \/ LookupFails(t, k)
    BY <1>3 DEF Lookup
  <2>2. count' = count /\ db' = db
    BY <1>3 DEF Lookup, ghostVars
  <2>3. CASE LookupReuses(t, k)
    <3>1. PICK i \in Empties(BucketOf[k]) : entry' = SetType({<<BucketOf[k], i>>}, "Allocated")
      BY <2>3 DEF LookupReuses
    <3>2. entry[BucketOf[k]][i].type # "Record"
      BY DEF Empties
    <3>3. PICK S : S = {<<BucketOf[k], i>>}
      OBVIOUS
    <3>4. \A b \in Bucket, j \in Index : <<b, j>> \in S => entry[b][j].type # "Record"
      BY <3>2, <3>3
    <3> QED
      BY <1>2, <2>2, <3>1, <3>3, <3>4
  <2> QED
    BY <1>1, <2>1, <2>2, <2>3 DEF LookupFinds, LookupAllocates, LookupFails
<1>4. CASE CountEntry(t)
  <2>1. BucketOf[key[t]] \in Bucket
    BY <1>4, KeyTypes DEF CountEntry, CallInv, At
  <2>2. /\ count' = [count EXCEPT ![BucketOf[key[t]]] = @ + 1] /\ entry' = entry /\ db' = db
    BY <1>4 DEF CountEntry, ghostVars
  <2>3. SameRecords /\ \A b \in Bucket : count'[b] >= count[b]
    BY <2>1, <2>2, CountSame
  <2> QED
    BY <2>2, <2>3, SameTable
<1>5. CASE MarkAsAllocated(t)
  <2>1. PICK S : S = {<<BucketOf[key[t]], pos[t][key[t]]>>}
    OBVIOUS
  <2>2. \A b \in Bucket, j \in Index : <<b, j>> \in S => entry[b][j].type # "Record"
    BY <1>5, <2>1 DEF MarkAsAllocated, CallInv
  <2>3. entry' = SetType(S, "Allocated") /\ count' = count /\ db' = db
    BY <1>5, <2>1 DEF MarkAsAllocated, ghostVars
  <2> QED
    BY <1>2, <2>2, <2>3
<1>6. CASE MemoryOverflow(t) \/ PmemOverflow(t)
  <2>1. PICK ptrs : Fail(t, ptrs)
    BY <1>6 DEF MemoryOverflow, PmemOverflow
  <2>2. count' = count /\ db' = db
    BY <2>1 DEF Fail, Return
  <2>3. CASE entry' = entry
    BY <1>1, <2>2, <2>3
  <2>4. PICK S : S = {q \in ptrs : entry[q[1]][q[2]].type = "Allocated"}
    OBVIOUS
  <2>5. entry' = entry \/ entry' = SetType(S, "Empty")
    BY <2>1, <2>4 DEF Fail
  <2>6. \A b \in Bucket, j \in Index : <<b, j>> \in S => entry[b][j].type # "Record"
    BY <2>4
  <2> QED
    BY <1>2, <2>2, <2>3, <2>5, <2>6
<1>7. CASE Insert(t)
  <2>1. PICK k \in publish[t] :
          /\ entry' = [entry EXCEPT ![BucketOf[k]][pos[t][k]] = Inserted(t, k)]
          /\ Becomes(k, Content(Inserted(t, k)))
    BY <1>7 DEF Insert
  <2>2. PICK p : p = pos[t][k]
    OBVIOUS
  <2>3. k \in Key /\ pos[t][k] # -1 /\ Placed(t, k)
    BY KeyTypes DEF CallInv
  <2>4. p \in Index /\ p < count[BucketOf[k]]
    BY <2>2, <2>3 DEF Placed
  <2>5. \/ IsRecord(BucketOf[k], p) /\ entry[BucketOf[k]][p].key = k
        \/ Missing(k) /\ ~IsRecord(BucketOf[k], p)
    BY <1>7, <2>2, <2>3, <2>4 DEF Placed, IsRecord, Insert, At
  <2>6. PICK e : e = Inserted(t, k)
    OBVIOUS
  <2>7. e \in Entry /\ e.type = "Record" /\ e.key = k
    BY <2>3, <2>6 DEF Inserted, Entry, Status
  <2>8. /\ count' = count /\ entry' = [entry EXCEPT ![BucketOf[k]][p] = e]
        /\ db' = [db EXCEPT ![k] = Content(e)]
    BY <1>7, <2>1, <2>2, <2>6 DEF Insert, Becomes
  <2> QED
    BY <2>3, <2>4, <2>5, <2>7, <2>8, InsertTable
<1>8. CASE Visit(t)
  <2>1. PICK b, p : b = bucket[t] /\ p = idx[t]
    OBVIOUS
  <2>2. b \in Bucket /\ p \in Index /\ p < count[b] /\ count' = count
    BY <1>8, <2>1 DEF Visit, CallInv
  <2>3. CASE UNCHANGED <<entry, ghostVars>>
    BY <1>1, <2>2, <2>3 DEF ghostVars
  <2>4. CASE /\ entry[b][p].type = "Record" /\ entry' = SetType({<<b, p>>}, "Empty")
             /\ Becomes(entry[b][p].key, Absent)
    <3>1. IsRecord(b, p) /\ db' = [db EXCEPT ![entry[b][p].key] = Absent]
      BY <2>2, <2>4 DEF IsRecord, Becomes
    <3> QED
      BY <2>2, <2>4, <3>1, EraseTable
  <2> QED
    BY <1>8, <2>1, <2>3, <2>4 DEF Visit
<1>9. CASE Start(t) \/ Lock(t) \/ Link(t) \/ SlotBegin(t)
  BY <1>1, <1>9 DEF Start, Lock, Link, SlotBegin, tableVars, ghostVars
<1>10. CASE GetCache(t) \/ GetCached(t) \/ GetValid(t) \/ GetLoad(t) \/ GetNext(t)
  BY <1>1, <1>10 DEF GetCache, GetCached, GetValid, GetLoad, GetNext, GetUnchanged, ghostVars
<1>11. CASE Finish(t) \/ GetReturn(t) \/ IterationEnds(t)
  BY <1>1, <1>11 DEF Finish, GetReturn, IterationEnds, Return
<1> QED
  BY <1>3, <1>4, <1>5, <1>6, <1>7, <1>8, <1>9, <1>10, <1>11 DEF Step
=============================================================================
