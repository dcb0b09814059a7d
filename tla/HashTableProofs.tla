-------------------------- MODULE HashTableProofs --------------------------
(***************************************************************************)
(* OneEntryPerKey and SearchesAreCurrent hold for any threads, keys,       *)
(* buckets and bounds, if the memory of a new HashBucket holds nothing     *)
(* that looks like the entry of a key.                                     *)
(***************************************************************************)
EXTENDS HashTableTableProofs

USE Zenon

(***************************************************************************)
(* The call itself.  A call that does not write has no positions.          *)
(***************************************************************************)
LEMMA NoPositions ==
  ASSUME TypeOK, NEW t \in Thread, CallInv(t), ~Writing(t)
  PROVE  publish[t] = {} /\ \A k \in Key : pos[t][k] = -1
<1>1. \A k \in Key : pos[t][k] = -1
  BY DEF CallInv
<1> QED
  BY <1>1, KeyTypes DEF CallInv

LEMMA NotWritingOwn ==
  ASSUME TypeOK, NEW t \in Thread, CallInv(t), ~Writing(t), ~Writing(t)',
         pos' = pos, publish' = publish, todo'[t] \subseteq Keys(t)',
         At(t, "visit")' =>
           /\ bucket'[t] \in Bucket /\ idx'[t] \in Index /\ idx'[t] < count'[bucket'[t]]
           /\ get_slot_num(bucket'[t]) \in held'[t],
         pc'[t] \in {"idle", "slot"} => bucket'[t] \in Bucket
  PROVE  CallInv(t)'
<1>1. publish'[t] = {} /\ \A k \in Key : pos'[t][k] = -1
  BY NoPositions
<1> QED
  BY <1>1 DEF CallInv, Writing, At

\* What there is to show of a call that writes.
LEMMA WritingCall ==
  ASSUME NEW t \in Thread, Writing(t)', todo'[t] \subseteq Keys(t)', publish'[t] \subseteq Keys(t)',
         \A k \in publish'[t] : pos'[t][k] # -1,
         \A k \in Keys(t)' : SlotOf(k) \in held'[t],
         \A k \in Key : pos'[t][k] # -1 => k \in Keys(t)' /\ k \notin todo'[t] /\ Placed(t, k)',
         \A j, k \in Key :
           pos'[t][j] # -1 /\ BucketOf[j] = BucketOf[k] /\ pos'[t][j] = pos'[t][k] => j = k,
         pc'[t] \in {"allocate", "count"} =>
           /\ key'[t] \in Keys(t)' /\ pos'[t][key'[t]] = -1
           /\ Missing(key[t])' /\ key'[t] \notin todo'[t],
         At(t, "clear")' =>
           /\ key'[t] \in Keys(t)' /\ pos'[t][key'[t]] # -1
           /\ entry'[BucketOf[key'[t]]][pos'[t][key'[t]]].type # "Record"
  PROVE  CallInv(t)'
<1>1. ~At(t, "visit")' /\ pc'[t] \notin {"idle", "slot"}
  BY DEF Writing, At
<1> QED
  BY <1>1 DEF CallInv

LEMMA ReturnOwn ==
  ASSUME TypeOK, Arrays, NEW t \in Thread, Return(t)
  PROVE  CallInv(t)'
<1> USE HashTableAssumption
<1>1. /\ todo'[t] = {} /\ publish'[t] = {} /\ pc'[t] = "idle" /\ held'[t] = {}
      /\ \A k \in Key : pos'[t][k] = -1
  BY DEF Return, Goto, TypeOK
<1>2. bucket'[t] = 0 /\ 0 \in Bucket
  BY SMT DEF Return, Arrays, Bucket
<1> QED
  BY <1>1, <1>2 DEF CallInv, Writing, At

\* The keys of a call that have a position have one each, and it stays theirs while the
\* types of other entries change.
LEMMA PlacedStays ==
  ASSUME TypeOK, TypeOK', NEW t \in Thread, CallInv(t), NEW k \in Key, pos[t][k] # -1,
         SameRecords, count'[BucketOf[k]] >= count[BucketOf[k]], pos'[t][k] = pos[t][k],
         entry'[BucketOf[k]][pos[t][k]] = entry[BucketOf[k]][pos[t][k]], ~At(t, "clear")
  PROVE  Placed(t, k)'
<1>1. Missing(k)' <=> Missing(k)
  BY SameMissing
<1>2. Placed(t, k) /\ BucketOf[k] \in Bucket
  BY HashTableAssumption DEF CallInv
<1>3. pos[t][k] < count'[BucketOf[k]]
  <2>1. count[BucketOf[k]] \in Int /\ count'[BucketOf[k]] \in Int /\ pos[t][k] \in Int
    BY SMT, <1>2, HashTableAssumption DEF TypeOK, Placed, Index
  <2> QED
    BY SMT, <1>2, <2>1 DEF Placed
<1> QED
  BY <1>1, <1>2, <1>3 DEF Placed

LEMMA LookupOwn ==
  ASSUME TypeOK, TypeOK', NEW t \in Thread, CallInv(t), Lookup(t)
  PROVE  CallInv(t)'
<1> USE HashTableAssumption
<1>0. PICK k \in todo[t] :
        /\ todo' = [todo EXCEPT ![t] = @ \ {k}]
        /\ LookupFinds(t, k) \/ LookupReuses(t, k) \/ LookupAllocates(t, k) \/ LookupFails(t, k)
  BY DEF Lookup
<1>1. /\ At(t, "lookup") /\ Writing(t)
      /\ count' = count /\ held' = held /\ call' = call /\ Keys(t)' = Keys(t)
  BY DEF Lookup, At, Writing, Keys
<1>2. /\ k \in Key /\ k \in Keys(t) /\ pos[t][k] = -1
      /\ todo'[t] = todo[t] \ {k} /\ todo'[t] \subseteq Keys(t)
      /\ BucketOf[k] \in Bucket
  BY <1>0, KeyTypes DEF CallInv, TypeOK
<1>3. /\ \A j \in Key : pos[t][j] # -1 => j \in Keys(t) /\ j \notin todo'[t] /\ Placed(t, j) /\ j # k
      /\ \A j \in publish[t] : j \in Keys(t) /\ pos[t][j] # -1
      /\ \A j \in Keys(t) : SlotOf(j) \in held[t]
  BY <1>1, <1>2 DEF CallInv
<1>4. \A i \in Index : i \in Matching(k) <=> IsRecord(BucketOf[k], i) /\ entry[BucketOf[k]][i].key = k
  BY DEF Matching, Match, IsRecord
<1>5. Matching(k) = {} => Missing(k)
  BY <1>4 DEF Missing
\* What is shown once for LookupFinds and LookupReuses.
<1>6. ASSUME NEW i \in Index, pos' = [pos EXCEPT ![t][k] = i], pc' = pc,
             publish' = publish \/ publish' = [publish EXCEPT ![t] = @ \union {k}],
             Placed(t, k)',
             \A j \in Key : pos[t][j] # -1 =>
               Placed(t, j)' /\ (BucketOf[j] = BucketOf[k] => pos[t][j] # i)
      PROVE  CallInv(t)'
  <2>1. pos'[t][k] = i /\ \A j \in Key \ {k} : pos'[t][j] = pos[t][j]
    BY SMT, <1>2, <1>6 DEF TypeOK
  <2>2. publish'[t] \subseteq publish[t] \union {k}
    BY <1>6 DEF TypeOK
  <2>3. At(t, "lookup")' /\ Writing(t)' /\ i # -1
    BY SMT, <1>1, <1>6 DEF At, Writing, Index
  <2>4. \A j \in publish'[t] : j \in Keys(t) /\ pos'[t][j] # -1
    BY <1>2, <1>3, <2>1, <2>2, <2>3, KeyTypes
  <2>5. \A j \in Key : pos'[t][j] # -1 => j \in Keys(t) /\ j \notin todo'[t] /\ Placed(t, j)'
    BY <1>2, <1>3, <1>6, <2>1
  <2>6. \A j, l \in Key :
          pos'[t][j] # -1 /\ BucketOf[j] = BucketOf[l] /\ pos'[t][j] = pos'[t][l] => j = l
    <3> SUFFICES ASSUME NEW j \in Key, NEW l \in Key, pos'[t][j] # -1, BucketOf[j] = BucketOf[l],
                        pos'[t][j] = pos'[t][l], j # l
                 PROVE  FALSE
      OBVIOUS
    <3>1. CASE j # k /\ l # k
      BY <2>1, <3>1 DEF CallInv
    <3>2. CASE j = k
      BY <1>6, <2>1, <2>3, <3>2
    <3>3. CASE l = k
      BY <1>6, <2>1, <2>3, <3>3
    <3> QED
      BY <3>1, <3>2, <3>3
  <2> QED
    BY SMT, <1>1, <1>2, <1>3, <2>3, <2>4, <2>5, <2>6 DEF CallInv, At
<1>7. CASE LookupFinds(t, k)
  <2>1. PICK i \in Index : IsFound(k, i) /\ pos' = [pos EXCEPT ![t][k] = i]
    BY <1>7 DEF LookupFinds
  <2>2. /\ entry' = entry /\ key' = key /\ pc' = pc
        /\ publish' = publish \/ publish' = [publish EXCEPT ![t] = @ \union {k}]
    BY <1>7 DEF LookupFinds
  <2>3. IsRecord(BucketOf[k], i) /\ entry[BucketOf[k]][i].key = k
    BY <1>4, <2>1 DEF IsFound
  <2>4. pos'[t][k] = i /\ \A j \in Key \ {k} : pos'[t][j] = pos[t][j]
    BY SMT, <1>2, <2>1 DEF TypeOK
  <2>5. Placed(t, k)'
    BY <1>1, <2>2, <2>3, <2>4 DEF Placed, IsRecord
  <2>6. ASSUME NEW j \in Key, pos[t][j] # -1
        PROVE  Placed(t, j)' /\ (BucketOf[j] = BucketOf[k] => pos[t][j] # i)
    <3>1. Placed(t, j) /\ j # k /\ pos'[t][j] = pos[t][j]
      BY <1>3, <2>4, <2>6
    <3>2. BucketOf[j] = BucketOf[k] => pos[t][j] # i
      BY <3>1, <2>3, <1>1 DEF Placed, IsRecord, At
    <3>3. Missing(j)' <=> Missing(j)
      BY <1>1, <2>2 DEF Missing, IsRecord
    <3> QED
      BY <3>1, <3>2, <3>3, <1>1, <2>2 DEF Placed, At
  <2> QED
    BY <1>6, <2>1, <2>2, <2>5, <2>6
<1>8. CASE LookupReuses(t, k)
  <2>1. PICK i \in Empties(BucketOf[k]) :
          entry' = SetType({<<BucketOf[k], i>>}, "Allocated") /\ pos' = [pos EXCEPT ![t][k] = i]
    BY <1>8 DEF LookupReuses
  <2>2. /\ key' = key /\ pc' = pc /\ Missing(k)
        /\ publish' = publish \/ publish' = [publish EXCEPT ![t] = @ \union {k}]
    BY <1>5, <1>8 DEF LookupReuses
  <2>3. i \in Index /\ i < count[BucketOf[k]] /\ entry[BucketOf[k]][i].type = "Empty"
    BY DEF Empties
  <2>4. pos'[t][k] = i /\ \A j \in Key \ {k} : pos'[t][j] = pos[t][j]
    BY SMT, <1>2, <2>1 DEF TypeOK
  <2>5. PICK S : S = {<<BucketOf[k], i>>}
    OBVIOUS
  <2>6. entry' = SetType(S, "Allocated") /\ <<BucketOf[k], i>> \in S
    BY <2>1, <2>5
  <2>7. \A b \in Bucket, j \in Index : <<b, j>> \in S => b = BucketOf[k] /\ j = i
    BY <2>5
  <2>8. SameRecords
    <3>1. \A b \in Bucket, j \in Index : <<b, j>> \in S => entry[b][j].type # "Record"
      BY <2>3, <2>7
    <3> QED
      BY <1>1, <2>6, <3>1, SetTypeSame
  <2>9. entry \in [Bucket -> [Index -> Entry]]
    BY DEF TypeOK
  <2>10. entry'[BucketOf[k]][i].type = "Allocated"
    BY SMT, <1>2, <2>3, <2>6, <2>9, SetTypeAt
  <2>11. Placed(t, k)'
    BY <1>1, <1>2, <2>2, <2>3, <2>4, <2>8, <2>10, SameMissing DEF Placed
  <2>12. ASSUME NEW j \in Key, pos[t][j] # -1
         PROVE  Placed(t, j)' /\ (BucketOf[j] = BucketOf[k] => pos[t][j] # i)
    <3>1. Placed(t, j) /\ j # k /\ pos'[t][j] = pos[t][j]
      BY <1>3, <2>4, <2>12
    <3>2. BucketOf[j] = BucketOf[k] => pos[t][j] # i
      BY <3>1, <2>3, <1>1 DEF Placed, At
    <3>3. pos[t][j] \in Index /\ BucketOf[j] \in Bucket
      BY <3>1 DEF Placed
    <3>4. <<BucketOf[j], pos[t][j]>> \notin S
      BY <2>7, <3>2, <3>3
    <3>5. entry'[BucketOf[j]][pos[t][j]] = entry[BucketOf[j]][pos[t][j]]
      BY SMT, <2>6, <2>9, <3>3, <3>4, SetTypeAt
    <3>6. count'[BucketOf[j]] >= count[BucketOf[j]] /\ ~At(t, "clear")
      BY SMT, <1>1, <3>3 DEF TypeOK, At
    <3> QED
      BY <2>8, <2>12, <3>1, <3>2, <3>5, <3>6, PlacedStays
  <2> QED
    BY <1>6, <2>1, <2>2, <2>3, <2>11, <2>12
<1>9. CASE LookupAllocates(t, k) \/ LookupFails(t, k)
  <2>1. /\ entry' = entry /\ pos' = pos /\ publish' = publish
        /\ \/ pc' = pc /\ key' = key
           \/ Missing(k) /\ key'[t] = k /\ pc'[t] = "allocate"
    BY <1>5, <1>9 DEF LookupAllocates, LookupFails, Goto, TypeOK
  <2>2. Missing(k)' <=> Missing(k)
    BY <1>1, <2>1 DEF Missing, IsRecord
  <2>3. \A j \in Key : pos[t][j] # -1 => Placed(t, j)'
    <3> SUFFICES ASSUME NEW j \in Key, pos[t][j] # -1 PROVE Placed(t, j)'
      OBVIOUS
    <3>1. Placed(t, j)
      BY <1>3
    <3>2. Missing(j)' <=> Missing(j)
      BY <1>1, <2>1 DEF Missing, IsRecord
    <3> QED
      BY <1>1, <2>1, <3>1, <3>2 DEF Placed, At
  <2>4. pc'[t] \in {"lookup", "allocate"} /\ Writing(t)'
    BY <1>1, <2>1 DEF Writing, At
  <2>5. pc'[t] = "allocate" =>
          key'[t] \in Keys(t) /\ pos'[t][key'[t]] = -1 /\ Missing(key[t])' /\ key'[t] \notin todo'[t]
    BY <1>1, <1>2, <2>1, <2>2 DEF At, Missing
  <2>6. \A j, l \in Key :
          pos'[t][j] # -1 /\ BucketOf[j] = BucketOf[l] /\ pos'[t][j] = pos'[t][l] => j = l
    BY <2>1 DEF CallInv
  <2>7. /\ todo'[t] \subseteq Keys(t)' /\ publish'[t] \subseteq Keys(t)'
        /\ \A j \in publish'[t] : pos'[t][j] # -1
        /\ \A j \in Keys(t)' : SlotOf(j) \in held'[t]
    BY SMT, <1>1, <1>2, <1>3, <2>1
  <2>8. \A j \in Key : pos'[t][j] # -1 => j \in Keys(t)' /\ j \notin todo'[t] /\ Placed(t, j)'
    BY <1>1, <1>3, <2>1, <2>3
  <2> QED
    BY <1>1, <2>4, <2>5, <2>6, <2>7, <2>8 DEF CallInv, At
<1> QED
  BY <1>0, <1>7, <1>8, <1>9

LEMMA AllocateOwn ==
  ASSUME TypeOK, TypeOK', TableInv, NEW t \in Thread, CallInv(t), Link(t) \/ CountEntry(t)
  PROVE  CallInv(t)'
<1> USE HashTableAssumption
<1> DEFINE k == key[t]
<1>1. /\ pc[t] \in {"allocate", "count"} /\ Writing(t)
      /\ held' = held /\ call' = call /\ Keys(t)' = Keys(t) /\ todo' = todo /\ publish' = publish
      /\ entry' = entry /\ key' = key
  BY DEF Link, CountEntry, At, Writing, Keys, writeVars
<1>2. k \in Key /\ k \in Keys(t) /\ pos[t][k] = -1 /\ Missing(k) /\ k \notin todo[t] /\ BucketOf[k] \in Bucket
  BY <1>1, KeyTypes DEF CallInv
<1>3. /\ \A j \in Key : pos[t][j] # -1 => j \in Keys(t) /\ j \notin todo[t] /\ Placed(t, j) /\ j # k
      /\ todo[t] \subseteq Keys(t) /\ \A j \in publish[t] : j \in Keys(t) /\ pos[t][j] # -1
      /\ \A j \in Keys(t) : SlotOf(j) \in held[t]
      /\ ~At(t, "clear")
  BY <1>1, <1>2 DEF CallInv, At
<1>4. CASE Link(t)
  <2>1. pos' = pos /\ count' = count /\ pc'[t] = "count"
    BY <1>4 DEF Link, writeVars, Goto, TypeOK
  <2>2. \A j \in Key : (Missing(j)' <=> Missing(j)) /\ (Placed(t, j) => Placed(t, j)')
    BY <1>1, <1>3, <2>1 DEF Missing, IsRecord, Placed
  <2>3. Writing(t)' /\ ~At(t, "clear")' /\ ~At(t, "visit")'
    BY <2>1 DEF Writing, At
  <2>4. key'[t] \in Keys(t)' /\ pos'[t][key'[t]] = -1 /\ Missing(k)' /\ key'[t] \notin todo'[t]
    BY <1>1, <1>2, <2>1, <2>2
  <2>5. \A j, l \in Key :
          pos'[t][j] # -1 /\ BucketOf[j] = BucketOf[l] /\ pos'[t][j] = pos'[t][l] => j = l
    BY <2>1 DEF CallInv
  <2>6. \A j \in Key : pos'[t][j] # -1 => j \in Keys(t)' /\ j \notin todo'[t] /\ Placed(t, j)'
    BY <1>1, <1>3, <2>1, <2>2
  <2>7. /\ todo'[t] \subseteq Keys(t)' /\ publish'[t] \subseteq Keys(t)'
        /\ \A j \in publish'[t] : pos'[t][j] # -1
        /\ \A j \in Keys(t)' : SlotOf(j) \in held'[t]
    BY <1>1, <1>3, <2>1
  <2>8. Missing(key[t])'
    BY <1>1, <2>4
  <2> QED
    BY <2>3, <2>4, <2>5, <2>6, <2>7, <2>8, WritingCall
<1>5. CASE CountEntry(t)
  <2>1. /\ pos' = [pos EXCEPT ![t][k] = count[BucketOf[k]]] /\ pc'[t] = "clear"
        /\ count' = [count EXCEPT ![BucketOf[k]] = @ + 1] /\ count[BucketOf[k]] < MaxEntries
    BY <1>5 DEF CountEntry, Goto, TypeOK
  <2>2. count \in [Bucket -> 0 .. MaxEntries] /\ pos \in [Thread -> [Key -> Index \union {-1}]]
    BY DEF TypeOK
  <2>3. pos'[t][k] = count[BucketOf[k]] /\ \A j \in Key \ {k} : pos'[t][j] = pos[t][j]
    BY <1>2, <2>1, <2>2
  <2>4. count[BucketOf[k]] \in Index /\ count'[BucketOf[k]] = count[BucketOf[k]] + 1 /\ pos'[t][k] # -1
    BY SMT, <1>2, <2>1, <2>2, <2>3 DEF Index
  <2>5. entry[BucketOf[k]][count[BucketOf[k]]].type # "Record"
    BY SMT, <1>2, <2>4 DEF TableInv, Index
  <2>6. SameRecords /\ \A b \in Bucket : count'[b] >= count[b]
    BY <1>1, <1>2, <2>1, CountSame
  <2>7. Placed(t, k)'
    <3>1. Missing(k)'
      <4>1. \A j \in Key : Missing(j) => Missing(j)'
        BY <2>6, SameMissing
      <4> QED
        BY <1>1, <1>2, <4>1 DEF Missing
    <3>2. pos'[t][k] \in Index /\ pos'[t][k] < count'[BucketOf[k]]
      BY SMT, <2>2, <2>3, <2>4 DEF Index
    <3> QED
      BY <1>1, <2>1, <2>3, <2>5, <3>1, <3>2 DEF Placed, At
  <2>8. \A j \in Key : pos[t][j] # -1 => Placed(t, j)' /\ (BucketOf[j] = BucketOf[k] => pos[t][j] # pos'[t][k])
    <3> SUFFICES ASSUME NEW j \in Key, pos[t][j] # -1
                 PROVE  Placed(t, j)' /\ (BucketOf[j] = BucketOf[k] => pos[t][j] # pos'[t][k])
      OBVIOUS
    <3>1. j # k /\ Placed(t, j) /\ pos'[t][j] = pos[t][j] /\ BucketOf[j] \in Bucket
      BY <1>3, <2>3
    <3>2. BucketOf[j] = BucketOf[k] => pos[t][j] # pos'[t][k]
      <4>1. BucketOf[j] = BucketOf[k] => pos[t][j] < count[BucketOf[k]]
        BY <3>1 DEF Placed
      <4>2. count[BucketOf[k]] \in Int
        BY SMT, <1>2, <2>2
      <4> QED
        BY SMT, <2>3, <4>1, <4>2
    <3>3. Placed(t, j)'
      BY <1>1, <1>3, <2>6, <3>1, PlacedStays
    <3> QED
      BY <3>2, <3>3
  <2>9. \A j, l \in Key :
          pos'[t][j] # -1 /\ BucketOf[j] = BucketOf[l] /\ pos'[t][j] = pos'[t][l] => j = l
    <3> SUFFICES ASSUME NEW j \in Key, NEW l \in Key, pos'[t][j] # -1, BucketOf[j] = BucketOf[l],
                        pos'[t][j] = pos'[t][l], j # l
                 PROVE  FALSE
      OBVIOUS
    <3>1. CASE j # k /\ l # k
      BY <2>3, <3>1 DEF CallInv
    <3>2. CASE j = k
      BY <2>3, <2>4, <2>8, <3>2
    <3>3. CASE l = k
      BY <2>3, <2>4, <2>8, <3>3
    <3> QED
      BY <3>1, <3>2, <3>3
  <2>10. \A j \in Key : pos'[t][j] # -1 => j \in Keys(t)' /\ j \notin todo'[t] /\ Placed(t, j)'
    BY <1>1, <1>2, <1>3, <2>3, <2>7, <2>8
  <2>11. \A j \in publish'[t] : pos'[t][j] # -1
    BY <1>1, <1>3, <2>3, <2>4, KeyTypes
  <2>12. entry'[BucketOf[key'[t]]][pos'[t][key'[t]]].type # "Record" /\ pos'[t][key'[t]] # -1
    BY <1>1, <2>3, <2>4, <2>5
  <2>13. Writing(t)'
    BY <2>1 DEF Writing
  <2>14. /\ todo'[t] \subseteq Keys(t)' /\ publish'[t] \subseteq Keys(t)' /\ key'[t] \in Keys(t)'
         /\ \A j \in Keys(t)' : SlotOf(j) \in held'[t]
    BY <1>1, <1>2, <1>3
  <2>15. pc'[t] \notin {"allocate", "count"}
    BY <2>1
  <2> QED
    BY <2>9, <2>10, <2>11, <2>12, <2>13, <2>14, <2>15, WritingCall
<1> QED
  BY <1>4, <1>5

LEMMA MarkOwn ==
  ASSUME TypeOK, TypeOK', NEW t \in Thread, CallInv(t), MarkAsAllocated(t)
  PROVE  CallInv(t)'
<1> USE HashTableAssumption
<1> DEFINE k == key[t]
<1>1. /\ At(t, "clear") /\ Writing(t) /\ count' = count /\ pos' = pos
      /\ held' = held /\ call' = call /\ Keys(t)' = Keys(t) /\ todo' = todo /\ key' = key
      /\ publish' = publish \/ publish' = [publish EXCEPT ![t] = @ \union {k}]
      /\ pc'[t] = "lookup"
  BY DEF MarkAsAllocated, At, Writing, Keys, Goto, TypeOK
<1>2. k \in Key /\ k \in Keys(t) /\ pos[t][k] # -1 /\ BucketOf[k] \in Bucket
  BY <1>1, KeyTypes DEF CallInv
<1>3. /\ Placed(t, k) /\ entry[BucketOf[k]][pos[t][k]].type # "Record"
      /\ pos[t][k] \in Index /\ Missing(k)
  BY <1>1, <1>2 DEF CallInv, Placed
<1>4. PICK S : S = {<<BucketOf[k], pos[t][k]>>}
  OBVIOUS
<1>5. entry' = SetType(S, "Allocated") /\ <<BucketOf[k], pos[t][k]>> \in S
  BY <1>4 DEF MarkAsAllocated
<1>6. \A b \in Bucket, j \in Index : <<b, j>> \in S => b = BucketOf[k] /\ j = pos[t][k]
  BY <1>4
<1>7. SameRecords
  <2>1. \A b \in Bucket, j \in Index : <<b, j>> \in S => entry[b][j].type # "Record"
    BY <1>3, <1>6
  <2> QED
    BY <1>1, <1>5, <2>1, SetTypeSame
<1>8. entry \in [Bucket -> [Index -> Entry]]
  BY DEF TypeOK
<1>9. Placed(t, k)'
  <2>1. entry'[BucketOf[k]][pos[t][k]].type = "Allocated"
    BY SMT, <1>2, <1>3, <1>5, <1>8, SetTypeAt
  <2>2. Missing(k)'
    <3>1. \A j \in Key : Missing(j) => Missing(j)'
      BY <1>7, SameMissing
    <3> QED
      BY <1>1, <1>2, <1>3, <3>1 DEF Missing
  <2> QED
    BY <1>1, <1>3, <2>1, <2>2 DEF Placed
<1>10. \A j \in Key \ {k} : pos[t][j] # -1 => Placed(t, j)'
  <2> SUFFICES ASSUME NEW j \in Key, j # k, pos[t][j] # -1 PROVE Placed(t, j)'
    OBVIOUS
  <2>1. Placed(t, j) /\ pos[t][j] \in Index /\ BucketOf[j] \in Bucket
    BY DEF CallInv, Placed
  <2>2. <<BucketOf[j], pos[t][j]>> \notin S
    BY <1>2, <1>6, <2>1 DEF CallInv
  <2>3. entry'[BucketOf[j]][pos[t][j]] = entry[BucketOf[j]][pos[t][j]]
    BY SMT, <1>5, <1>8, <2>1, <2>2, SetTypeAt
  <2>4. Missing(j)' <=> Missing(j)
    BY <1>7, SameMissing
  <2> QED
    BY <1>1, <2>1, <2>3, <2>4 DEF Placed, At
<1>11. publish'[t] \subseteq publish[t] \union {k}
  BY <1>1 DEF TypeOK
<1>12. /\ Writing(t)' /\ todo'[t] \subseteq Keys(t)' /\ publish'[t] \subseteq Keys(t)'
       /\ \A j \in publish'[t] : pos'[t][j] # -1
       /\ \A j \in Keys(t)' : SlotOf(j) \in held'[t]
  <2>1. /\ todo[t] \subseteq Keys(t) /\ publish[t] \subseteq Keys(t)
        /\ \A j \in publish[t] : pos[t][j] # -1
        /\ \A j \in Keys(t) : SlotOf(j) \in held[t]
    BY <1>1 DEF CallInv
  <2>2. Writing(t)'
    BY <1>1 DEF Writing
  <2> QED
    BY <1>1, <1>2, <1>11, <2>1, <2>2
<1>13. \A j \in Key : pos'[t][j] # -1 => j \in Keys(t)' /\ j \notin todo'[t] /\ Placed(t, j)'
  BY <1>1, <1>9, <1>10 DEF CallInv
<1>14. \A j, l \in Key :
         pos'[t][j] # -1 /\ BucketOf[j] = BucketOf[l] /\ pos'[t][j] = pos'[t][l] => j = l
  BY <1>1 DEF CallInv
<1> QED
  BY <1>1, <1>12, <1>13, <1>14 DEF CallInv, At

LEMMA InsertOwn ==
  ASSUME TypeOK, TypeOK', NEW t \in Thread, CallInv(t), Insert(t)
  PROVE  CallInv(t)'
<1> USE HashTableAssumption
<1>0. PICK k \in publish[t] :
        /\ entry' = [entry EXCEPT ![BucketOf[k]][pos[t][k]] = Inserted(t, k)]
        /\ publish' = [publish EXCEPT ![t] = @ \ {k}]
  BY DEF Insert
<1>1. /\ Writing(t) /\ ~At(t, "clear") /\ count' = count /\ pos' = pos
      /\ held' = held /\ call' = call /\ Keys(t)' = Keys(t) /\ todo' = todo /\ key' = key
      /\ pc'[t] = "insert" /\ publish'[t] = publish[t] \ {k}
  BY SMT, <1>0 DEF Insert, At, Writing, Keys, Goto, TypeOK
<1>2. k \in Key /\ k \in Keys(t) /\ pos[t][k] # -1 /\ BucketOf[k] \in Bucket /\ Placed(t, k)
  BY KeyTypes DEF CallInv
<1>3. /\ entry'[BucketOf[k]][pos[t][k]] = Inserted(t, k)
      /\ \A b \in Bucket, i \in Index :
           b # BucketOf[k] \/ i # pos[t][k] => entry'[b][i] = entry[b][i]
  <2>1. pos[t][k] \in Index /\ entry \in [Bucket -> [Index -> Entry]]
    BY <1>2 DEF TypeOK, Placed
  <2> QED
    BY SMT, <1>0, <1>2, <2>1
<1>4. Inserted(t, k).type = "Record" /\ Inserted(t, k).key = k
  BY DEF Inserted
<1>5. Placed(t, k)'
  BY <1>1, <1>2, <1>3, <1>4 DEF Placed
<1>6. \A j \in Key \ {k} : Missing(j) => Missing(j)'
  <2> SUFFICES ASSUME NEW j \in Key, j # k, Missing(j), NEW i \in Index, IsRecord(BucketOf[j], i)'
               PROVE  entry'[BucketOf[j]][i].key # j
    BY DEF Missing
  <2>1. CASE BucketOf[j] = BucketOf[k] /\ i = pos[t][k]
    BY <1>3, <1>4, <2>1
  <2>2. CASE BucketOf[j] # BucketOf[k] \/ i # pos[t][k]
    BY <1>1, <1>3, <2>2 DEF Missing, IsRecord
  <2> QED
    BY <2>1, <2>2
<1>7. \A j \in Key \ {k} : pos[t][j] # -1 => Placed(t, j)'
  <2> SUFFICES ASSUME NEW j \in Key, j # k, pos[t][j] # -1 PROVE Placed(t, j)'
    OBVIOUS
  <2>1. Placed(t, j) /\ pos[t][j] \in Index /\ BucketOf[j] \in Bucket
    BY DEF CallInv, Placed
  <2>2. BucketOf[j] # BucketOf[k] \/ pos[t][j] # pos[t][k]
    BY <1>2 DEF CallInv
  <2>3. entry'[BucketOf[j]][pos[t][j]] = entry[BucketOf[j]][pos[t][j]]
    BY <1>3, <2>1, <2>2
  <2> QED
    BY <1>1, <1>6, <2>1, <2>3 DEF Placed
<1>8. /\ Writing(t)' /\ todo'[t] \subseteq Keys(t)' /\ publish'[t] \subseteq Keys(t)'
      /\ \A j \in publish'[t] : pos'[t][j] # -1
      /\ \A j \in Keys(t)' : SlotOf(j) \in held'[t]
  <2>1. /\ todo[t] \subseteq Keys(t) /\ publish[t] \subseteq Keys(t)
        /\ \A j \in publish[t] : pos[t][j] # -1
        /\ \A j \in Keys(t) : SlotOf(j) \in held[t]
    BY <1>1 DEF CallInv
  <2>2. Writing(t)'
    BY <1>1 DEF Writing
  <2> QED
    BY <1>1, <2>1, <2>2
<1>9. \A j \in Key : pos'[t][j] # -1 => j \in Keys(t)' /\ j \notin todo'[t] /\ Placed(t, j)'
  BY SMT, <1>1, <1>5, <1>7 DEF CallInv
<1>10. \A j, l \in Key :
         pos'[t][j] # -1 /\ BucketOf[j] = BucketOf[l] /\ pos'[t][j] = pos'[t][l] => j = l
  BY <1>1 DEF CallInv
<1> QED
  BY <1>1, <1>8, <1>9, <1>10 DEF CallInv, At

LEMMA StartOwn ==
  ASSUME TypeOK, NEW t \in Thread, CallInv(t), Start(t) \/ Lock(t)
  PROVE  CallInv(t)'
<1>1. ~Writing(t)
  BY DEF Start, Lock, At, Writing
<1>2. publish[t] = {} /\ \A k \in Key : pos[t][k] = -1
  BY <1>1, NoPositions
<1>3. CASE Start(t)
  <2>1. PICK c \in workload.calls[t] :
          /\ call' = [call EXCEPT ![t] = c]
          /\ Goto(t, CASE c.op = "Get" -> "cache" [] c.op = "Clean" -> "slot" [] OTHER -> "lock")
          /\ todo' = [todo EXCEPT ![t] = IF c.op \in {"Single", "Batch"} THEN DOMAIN c.ops ELSE {}]
    BY <1>3 DEF Start
  <2>2. pc'[t] \in {"cache", "slot", "lock"}
    BY <2>1 DEF Goto, TypeOK
  <2>3. todo'[t] \subseteq Keys(t)'
    BY <2>1 DEF Keys, TypeOK
  <2>4. pos' = pos /\ publish' = publish /\ bucket' = bucket /\ bucket[t] \in Bucket
    BY <1>3 DEF Start, iterVars, CallInv, At
  <2>5. ~Writing(t)' /\ ~At(t, "visit")'
    BY <2>2 DEF Writing, At
  <2> QED
    BY <1>1, <2>3, <2>4, <2>5, NotWritingOwn
<1>4. CASE Lock(t)
  <2>1. /\ call' = call /\ todo' = todo /\ pos' = pos /\ publish' = publish /\ Keys(t)' = Keys(t)
        /\ pc'[t] \in {"lookup", "lock"}
        /\ pc'[t] = "lookup" => \A k \in Keys(t) : SlotOf(k) \in held'[t]
    BY <1>4 DEF Lock, Keys, Goto, TypeOK
  <2>2. todo'[t] \subseteq Keys(t)' /\ publish'[t] = {} /\ \A k \in Key : pos'[t][k] = -1
    BY <1>2, <2>1 DEF CallInv
  <2>3. Writing(t)' => pc'[t] = "lookup"
    BY <2>1 DEF Writing
  <2> QED
    BY <2>1, <2>2, <2>3 DEF CallInv, At
<1> QED
  BY <1>3, <1>4

LEMMA IterateOwn ==
  ASSUME TypeOK, Arrays, NEW t \in Thread, CallInv(t), SlotBegin(t) \/ Visit(t)
  PROVE  CallInv(t)'
<1> USE HashTableAssumption
<1>1. /\ ~Writing(t) /\ pos' = pos /\ publish' = publish /\ Keys(t)' = Keys(t) /\ todo' = todo
      /\ count' = count
  BY DEF SlotBegin, Visit, At, Writing, Keys, tableVars
<1>2. todo'[t] \subseteq Keys(t)'
  BY <1>1 DEF CallInv
<1>3. ASSUME NEW b, NEW s, Move(t, b, s)
      PROVE  CallInv(t)'
  <2>1. CASE \E c \in Bucket : /\ FirstWithEntries(b, s, c)
                               /\ bucket' = [bucket EXCEPT ![t] = c]
                               /\ idx' = [idx EXCEPT ![t] = 0]
                               /\ Goto(t, "visit")
                               /\ held' = [held EXCEPT ![t] = {s}]
    <3>1. PICK c \in Bucket : /\ FirstWithEntries(b, s, c)
                              /\ bucket' = [bucket EXCEPT ![t] = c]
                              /\ idx' = [idx EXCEPT ![t] = 0]
                              /\ Goto(t, "visit")
                              /\ held' = [held EXCEPT ![t] = {s}]
      BY <2>1
    <3>2. bucket'[t] = c /\ idx'[t] = 0 /\ pc'[t] = "visit" /\ held'[t] = {s}
      BY <3>1 DEF Arrays, TypeOK, Goto
    <3>3. 0 < count'[c] /\ get_slot_num(c) = s /\ 0 \in Index
      BY SMT, <1>1, <3>1 DEF FirstWithEntries, InSlot, TypeOK, Index
    <3>4. ~Writing(t)'
      BY <3>2 DEF Writing
    <3> QED
      BY <1>1, <1>2, <3>2, <3>3, <3>4, NotWritingOwn
  <2>2. CASE /\ bucket' = [bucket EXCEPT ![t] = (s + 1) * num_buckets_per_slot_]
             /\ Goto(t, IF bucket'[t] \in Bucket THEN "slot" ELSE "return")
    <3>1. pc'[t] \in {"slot", "return"} /\ (pc'[t] = "slot" => bucket'[t] \in Bucket)
      BY <2>2 DEF Goto, TypeOK
    <3>2. ~Writing(t)' /\ ~At(t, "visit")'
      BY <3>1 DEF Writing, At
    <3> QED
      BY <1>1, <1>2, <3>1, <3>2, NotWritingOwn
  <2> QED
    BY <1>3, <2>1, <2>2 DEF Move
<1>4. CASE SlotBegin(t)
  BY <1>3, <1>4 DEF SlotBegin
<1>5. CASE Visit(t)
  <2>1. CASE idx[t] + 1 < count[bucket[t]]
    <3>1. idx' = [idx EXCEPT ![t] = @ + 1] /\ bucket' = bucket /\ pc' = pc /\ held' = held
      BY <1>5, <2>1 DEF Visit
    <3>2. idx'[t] = idx[t] + 1 /\ pc'[t] = "visit"
      BY <1>5, <3>1 DEF Arrays, Visit, At
    <3>3. bucket[t] \in Bucket /\ idx[t] \in Index /\ get_slot_num(bucket[t]) \in held[t]
      BY <1>5 DEF Visit, CallInv
    <3>4. idx[t] + 1 \in Index
      BY SMT, <2>1, <3>3 DEF TypeOK, Index
    <3>5. ~Writing(t)'
      BY <3>2 DEF Writing
    <3> QED
      BY <1>1, <1>2, <2>1, <3>1, <3>2, <3>3, <3>4, <3>5, NotWritingOwn
  <2>2. CASE ~(idx[t] + 1 < count[bucket[t]])
    BY <1>3, <1>5, <2>2 DEF Visit
  <2> QED
    BY <2>1, <2>2
<1> QED
  BY <1>4, <1>5

LEMMA OwnStep ==
  ASSUME TypeOK, TypeOK', Arrays, TableInv, NEW t \in Thread, CallInv(t), Step(t)
  PROVE  CallInv(t)'
<1>1. CASE Return(t)
  BY <1>1, ReturnOwn
<1>2. CASE GetCache(t) \/ GetCached(t) \/ GetValid(t) \/ GetLoad(t) \/ GetNext(t)
  <2>1. \E p \in {"valid", "cached", "return", "load", "next"} : Goto(t, p)
    BY <1>2 DEF GetCache, GetCached, GetValid, GetLoad, GetNext
  <2>2. pc'[t] \in {"valid", "cached", "return", "load", "next"}
    BY <2>1 DEF Goto, TypeOK
  <2>3. GetUnchanged
    BY <1>2 DEF GetCache, GetCached, GetValid, GetLoad, GetNext
  <2>4. pos' = pos /\ publish' = publish /\ Keys(t)' = Keys(t) /\ todo' = todo
    BY <2>3 DEF GetUnchanged, writeVars, Keys
  <2>5. ~Writing(t)
    BY <1>2 DEF GetCache, GetCached, GetValid, GetLoad, GetNext, At, Writing
  <2>6. ~Writing(t)' /\ ~At(t, "visit")' /\ pc'[t] \notin {"idle", "slot"}
    BY <2>2 DEF Writing, At
  <2>7. todo'[t] \subseteq Keys(t)'
    BY <2>4 DEF CallInv
  <2> QED
    BY <2>4, <2>5, <2>6, <2>7, NotWritingOwn
<1> QED
  BY <1>1, <1>2, StartOwn, LookupOwn, AllocateOwn, MarkOwn, InsertOwn, IterateOwn
  DEF Step, MemoryOverflow, PmemOverflow, Fail, Finish, GetReturn, IterationEnds

----------------------------------------------------------------------------
LEMMA StutterKeeps == HashTableInv /\ UNCHANGED vars => HashTableInv'
<1> SUFFICES ASSUME HashTableInv, UNCHANGED vars PROVE HashTableInv'
  OBVIOUS
<1> USE DEF vars, tableVars, writeVars, readVars, iterVars, ghostVars
<1>1. TypeOK' /\ Arrays' /\ LocksHeld'
  BY DEF HashTableInv, TypeOK, Arrays, LocksHeld
<1>0. /\ entry' = entry /\ count' = count /\ db' = db /\ pc' = pc /\ call' = call /\ held' = held
      /\ todo' = todo /\ key' = key /\ pos' = pos /\ publish' = publish /\ idx' = idx
      /\ bucket' = bucket
  OBVIOUS
<1> HIDE DEF vars
<1>2. TableInv'
  <2>1. TableInv
    BY DEF HashTableInv
  <2> QED
    BY SMT, <1>0, <2>1 DEF TableInv, IsRecord, Absent, Content
<1>3. ASSUME NEW t \in Thread PROVE CallInv(t)'
  <2>1. CallInv(t)
    BY DEF HashTableInv
  <2>2. \A k : Missing(k)' <=> Missing(k)
    BY <1>0 DEF Missing, IsRecord
  <2>3. \A k : Placed(t, k)' <=> Placed(t, k)
    BY <1>0, <2>2 DEF Placed, At
  <2>4. Keys(t)' = Keys(t) /\ (Writing(t)' <=> Writing(t)) /\ (Missing(key[t])' <=> Missing(key[t]))
    BY <1>0 DEF Keys, Writing, Missing, IsRecord
  <2> QED
    BY <1>0, <2>1, <2>3, <2>4 DEF CallInv, At
<1> QED
  BY <1>1, <1>2, <1>3 DEF HashTableInv

LEMMA StepKeeps == HashTableInv /\ [Next]_vars => HashTableInv'
<1>1. ASSUME HashTableInv, NEW t \in Thread, Step(t)
      PROVE  HashTableInv'
  <2>1. TypeOK'
    BY <1>1, TypeStep DEF HashTableInv
  <2>2. OnlyOf(t) /\ Arrays'
    BY <1>1, OnlyOwnCall DEF HashTableInv
  <2>3. Untouched(t)
    BY <1>1, TouchesHeld DEF HashTableInv
  <2>4. LocksHeld'
    BY <1>1, <2>2, LocksStep DEF HashTableInv
  <2>5. TableInv'
    BY <1>1, <2>1, TableStep DEF HashTableInv
  <2>6. CallInv(t)'
    BY <1>1, <2>1, OwnStep DEF HashTableInv
  <2>7. \A u \in Thread \ {t} : CallInv(u)'
    BY <1>1, <2>2, <2>3, OthersStay DEF HashTableInv
  <2> QED
    BY <2>1, <2>2, <2>4, <2>5, <2>6, <2>7 DEF HashTableInv
<1> QED
  BY <1>1, StutterKeeps DEF Next

LEMMA InvImplies == HashTableInv => OneEntryPerKey
<1> SUFFICES ASSUME HashTableInv PROVE OneEntryPerKey
  OBVIOUS
<1>1. \A k \in Key : db[k] # Absent => Matching(k) # {}
  BY DEF HashTableInv, TableInv, Matching, Match, IsRecord
<1>2. \A b \in Bucket : \A i, j \in Index :
        IsRecord(b, i) /\ IsRecord(b, j) /\ entry[b][i].key = entry[b][j].key => i = j
  BY DEF HashTableInv, TableInv
<1>3. \A b \in Bucket : \A i \in Index : IsRecord(b, i) =>
        /\ entry[b][i].key \in Key /\ BucketOf[entry[b][i].key] = b
        /\ db[entry[b][i].key] = Content(entry[b][i])
  BY DEF HashTableInv, TableInv
<1> QED
  BY <1>1, <1>2, <1>3 DEF HashTableInv, OneEntryPerKey, IsRecord

(***************************************************************************)
(* Whatever calls the threads make, and wherever they wait for each other, *)
(* a key has one entry at most, in its bucket, with what was inserted      *)
(* last: Lookup<true> never hands one entry to two keys, and Insert never  *)
(* adds an entry beside one that is there.                                 *)
(***************************************************************************)
THEOREM KeysHaveOneEntry == FreshMemory /\ Spec => []OneEntryPerKey
<1>1. FreshMemory /\ Init => HashTableInv
  BY InitHolds
<1>2. HashTableInv /\ [Next]_vars => HashTableInv'
  BY StepKeeps
<1>3. HashTableInv => OneEntryPerKey
  BY InvImplies
<1> QED
  BY <1>1, <1>2, <1>3, PTL DEF Spec

(***************************************************************************)
(* Searches and iterations.  What they need to know of the chains, of the  *)
(* cached positions and of their own variables.                            *)
(***************************************************************************)
Contents == [by : Thread \union {None}, status : Status]

ReadTypes ==
  /\ cache \in [Slot -> (Bucket \X Index) \union {None}]
  /\ ptr \in [Thread -> Nat] /\ got \in [Thread -> Contents]
  /\ seen \in [Thread -> SUBSET Contents] /\ stayed \in [Thread -> SUBSET Key]
  /\ visited \in [Thread -> [Key -> Nat]]

\* The number of the HashBucket with entry i.
HashBucketOf(i) == i \div kNumEntryPerBucket

\* Every entry that is counted, or about to be, is in a HashBucket that is linked.
ChainInv ==
  /\ \A b \in Bucket : /\ chain[b] >= 1
                       /\ count[b] > 0 => HashBucketOf(count[b] - 1) < chain[b]
  /\ \A t \in Thread : At(t, "count") =>
       HashBucketOf(count[BucketOf[key[t]]]) < chain[BucketOf[key[t]]]

\* Entry j of its bucket is the entry of k.
IsEntry(k, j) == IsRecord(BucketOf[k], j) /\ entry[BucketOf[k]][j].key = k
EntryFrom(k, i) == \E j \in Index : i <= j /\ IsEntry(k, j)

\* A search that has not found its key yet: the key was away for a moment, or its entry
\* is ahead and the search is in the HashBucket it believes to be in.
Scanning(t, i) ==
  /\ idx[t] \in Nat /\ ptr[t] <= HashBucketOf(idx[t])
  /\ At(t, "valid") \/ idx[t] < count[BucketOf[TheKey(t)]]
  /\ \/ Absent \in seen[t]
     \/ ptr[t] = HashBucketOf(idx[t]) /\ EntryFrom(TheKey(t), i)

GetInv(t) ==
  /\ pc[t] \in {"cache", "cached", "valid", "load", "next", "return"}
  /\ TheKey(t) \in Keys(t) /\ db[TheKey(t)] \in seen[t]
  /\ At(t, "cache") => idx[t] = 0
  /\ pc[t] \in {"cache", "cached"} => ptr[t] = 0
  /\ At(t, "cached") => bucket[t] \in Bucket /\ idx[t] \in Index
  /\ pc[t] \in {"valid", "load"} => Scanning(t, idx[t])
  /\ At(t, "next") => Scanning(t, idx[t] + 1)
  /\ IF At(t, "return") THEN got[t] \in seen[t] ELSE got[t] = Absent

\* An iteration will still come to k.
Ahead(t, k) ==
  \/ At(t, "slot") /\ bucket[t] <= BucketOf[k]
  \/ At(t, "visit") /\ \/ bucket[t] < BucketOf[k]
                       \/ bucket[t] = BucketOf[k] /\ EntryFrom(k, idx[t])

IterInv(t) ==
  /\ pc[t] \in {"slot", "visit", "return"}
  /\ \A k \in Key : /\ visited[t][k] = 0 \/ (visited[t][k] = 1 /\ ~Ahead(t, k))
                    /\ k \in stayed[t] => /\ db[k] # Absent
                                          /\ visited[t][k] = 1 \/ Ahead(t, k)

ReadInv(t) ==
  /\ call[t].op = "Get" => GetInv(t)
  /\ IF call[t].op = "Clean" THEN IterInv(t)
     ELSE stayed[t] = {} /\ \A k \in Key : visited[t][k] = 0
  /\ call[t].op \notin {"Get", "Clean"} => At(t, "idle") \/ At(t, "lock") \/ Writing(t)
  /\ At(t, "idle") => /\ call[t].op = "Single" /\ got[t] = Absent
                      /\ idx[t] = 0 /\ ptr[t] = 0 /\ bucket[t] = 0

SearchInv == ReadTypes /\ ChainInv /\ \A t \in Thread : ReadInv(t)
----------------------------------------------------------------------------
LEMMA HashBucketNumbers ==
  ASSUME NEW n \in Nat
  PROVE  /\ HashBucketOf(n) \in Nat /\ HashBucketOf(0) = 0
         /\ HashBucketOf(n + 1) = IF (n + 1) % kNumEntryPerBucket = 0
                                  THEN HashBucketOf(n) + 1 ELSE HashBucketOf(n)
         /\ (HashBucketOf(n) * kNumEntryPerBucket) + (n % kNumEntryPerBucket) = n
BY SMT, HashTableAssumption DEF HashBucketOf

LEMMA HashBucketOrder ==
  ASSUME NEW n \in Nat, NEW p \in Nat, n <= p
  PROVE  HashBucketOf(n) <= HashBucketOf(p)
BY SMT, HashTableAssumption DEF HashBucketOf

\* The entry that is loaded is not behind entry_idx_.
LEMMA LoadedIndex ==
  ASSUME NEW n \in Nat, NEW q \in Nat, q <= HashBucketOf(n)
  PROVE  /\ (q * kNumEntryPerBucket) + (n % kNumEntryPerBucket) \in Nat
         /\ (q * kNumEntryPerBucket) + (n % kNumEntryPerBucket) <= n
BY SMT, HashTableAssumption DEF HashBucketOf

\* The buckets from b to the end of its slot.
LEMMA SlotRange ==
  ASSUME NEW b \in Nat
  PROVE  LET end == (get_slot_num(b) + 1) * num_buckets_per_slot_ IN
         /\ end \in Nat /\ b < end
         /\ \A d \in Nat : b <= d /\ d < end => get_slot_num(d) = get_slot_num(b)
BY SMT, HashTableAssumption DEF get_slot_num

LEMMA ContentType == ASSUME NEW e \in Entry PROVE Content(e) \in Contents
BY DEF Entry, Content, Contents

LEMMA AbsentType == Absent \in Contents
BY DEF Absent, Contents, Status

LEMMA BecomesTypes ==
  ASSUME ReadTypes, NEW k, NEW c \in Contents, Becomes(k, c)
  PROVE  seen' \in [Thread -> SUBSET Contents] /\ stayed' \in [Thread -> SUBSET Key]
<1>1. \A u \in Thread : seen[u] \subseteq Contents /\ stayed[u] \subseteq Key
  BY DEF ReadTypes
<1>2. \A u \in Thread : /\ (IF call[u].op = "Get" /\ k \in Keys(u) THEN seen[u] \union {c} ELSE seen[u])
                             \in SUBSET Contents
                        /\ (IF c = Absent THEN stayed[u] \ {k} ELSE stayed[u]) \in SUBSET Key
  BY <1>1
<1> QED
  BY <1>2 DEF Becomes

LEMMA SearchInit == Init => SearchInv
<1> SUFFICES ASSUME Init PROVE SearchInv
  OBVIOUS
<1> USE HashTableAssumption
<1>1. ReadTypes
  <2>1. cache \in [Slot -> (Bucket \X Index) \union {None}] /\ ptr \in [Thread -> Nat]
    BY SMT DEF Init
  <2>2. /\ got \in [Thread -> Contents] /\ seen \in [Thread -> SUBSET Contents]
        /\ stayed \in [Thread -> SUBSET Key]
    BY AbsentType DEF Init
  <2>3. visited \in [Thread -> [Key -> Nat]]
    BY SMT DEF Init
  <2> QED
    BY <2>1, <2>2, <2>3 DEF ReadTypes
<1>2. ChainInv
  BY SMT DEF Init, ChainInv, At
<1>3. ASSUME NEW t \in Thread PROVE ReadInv(t)
  <2>1. call[t].op = "Single"
    BY DEF Init, NoCall
  <2> QED
    BY <2>1 DEF Init, ReadInv, At
<1> QED
  BY <1>1, <1>2, <1>3 DEF SearchInv

\* What Insert and Visit write of a key.
LEMMA InsertedContent ==
  ASSUME TypeOK, NEW t \in Thread, NEW k \in Key
  PROVE  Content(Inserted(t, k)) \in Contents /\ Content(Inserted(t, k)) # Absent
<1>1. PICK e : e = Inserted(t, k)
  OBVIOUS
<1>2. e \in Entry /\ e.by = t
  BY <1>1 DEF Inserted, Entry, Status
<1>3. PICK c : c = Content(e)
  OBVIOUS
<1>4. c.by = t /\ c \in Contents
  BY SMT, <1>2, <1>3, ContentType DEF Content
<1>5. t # None
  BY HashTableAssumption
<1>6. c # Absent
  BY SMT, <1>4, <1>5 DEF Absent
<1> QED
  BY <1>1, <1>3, <1>4, <1>6

(***************************************************************************)
(* What a step of t leaves alone of the others' searches and iterations,   *)
(* and how the contents of a key change.                                   *)
(***************************************************************************)
OnlyReads(t) ==
  \A u \in Thread \ {t} : ptr'[u] = ptr[u] /\ got'[u] = got[u] /\ visited'[u] = visited[u]

SameHistory(t) ==
  db' = db /\ \A u \in Thread \ {t} : seen'[u] = seen[u] /\ stayed'[u] = stayed[u]

LEMMA OnlyOwnReads ==
  ASSUME TypeOK, ReadTypes, NEW t \in Thread, Step(t)
  PROVE  OnlyReads(t)
<1> USE DEF OnlyReads, ReadTypes
<1>1. CASE UNCHANGED <<ptr, got, visited>>
  BY <1>1
<1>2. CASE Return(t)
  BY <1>2 DEF Return
<1>3. CASE GetCache(t) \/ GetValid(t)
  BY <1>1, <1>3 DEF GetCache, GetValid, GetUnchanged, readVars
<1>4. CASE GetCached(t) \/ GetLoad(t)
  <2>1. ptr' = ptr /\ visited' = visited /\ (got' = got \/ \E c : got' = [got EXCEPT ![t] = c])
    BY <1>4 DEF GetCached, GetLoad, GetUnchanged
  <2> QED
    BY <2>1
<1>5. CASE GetNext(t)
  <2>1. got' = got /\ visited' = visited /\ (ptr' = ptr \/ \E n : ptr' = [ptr EXCEPT ![t] = n])
    BY <1>5 DEF GetNext, GetUnchanged
  <2> QED
    BY <2>1
<1>6. CASE Visit(t)
  <2>1. /\ ptr' = ptr /\ got' = got
        /\ visited' = visited \/ \E k : visited' = [visited EXCEPT ![t][k] = @ + 1]
    BY <1>6 DEF Visit
  <2> QED
    BY <2>1
<1>7. CASE \/ Start(t) \/ Lock(t) \/ Lookup(t) \/ Link(t) \/ CountEntry(t) \/ MarkAsAllocated(t)
           \/ Insert(t)
  BY <1>1, <1>7
  DEF Start, Lock, Lookup, Link, CountEntry, MarkAsAllocated, Insert, readVars, iterVars
<1>8. CASE SlotBegin(t)
  BY <1>1, <1>8 DEF SlotBegin
<1> QED
  BY <1>2, <1>3, <1>4, <1>5, <1>6, <1>7, <1>8
  DEF Step, MemoryOverflow, PmemOverflow, Fail, Finish, GetReturn, IterationEnds

LEMMA History ==
  ASSUME TypeOK, TableInv, ReadTypes, NEW t \in Thread, CallInv(t), Step(t)
  PROVE  SameHistory(t) \/ \E k \in Key, c \in Contents : Becomes(k, c)
<1>1. CASE UNCHANGED ghostVars
  BY <1>1 DEF SameHistory, ghostVars
<1>2. CASE Start(t) \/ Return(t)
  BY <1>2 DEF Start, Return, SameHistory, ReadTypes
<1>3. CASE Insert(t)
  <2>1. PICK k \in publish[t] : Becomes(k, Content(Inserted(t, k)))
    BY <1>3 DEF Insert
  <2>2. k \in Key
    BY KeyTypes
  <2> QED
    BY <2>1, <2>2, InsertedContent
<1>4. CASE Visit(t)
  <2>1. PICK e : e = entry[bucket[t]][idx[t]]
    OBVIOUS
  <2>2. UNCHANGED ghostVars \/ (e.type = "Record" /\ Becomes(e.key, Absent))
    BY <1>4, <2>1 DEF Visit
  <2>3. bucket[t] \in Bucket /\ idx[t] \in Index /\ idx[t] < count[bucket[t]]
    BY <1>4 DEF Visit, CallInv
  <2>4. e.type = "Record" => e.key \in Key
    BY <2>1, <2>3 DEF TableInv, IsRecord
  <2> QED
    BY <1>1, <2>2, <2>4, AbsentType
<1>5. CASE Lock(t) \/ Lookup(t) \/ Link(t) \/ CountEntry(t) \/ MarkAsAllocated(t) \/ SlotBegin(t)
  BY <1>1, <1>5 DEF Lock, Lookup, Link, CountEntry, MarkAsAllocated, SlotBegin
<1>6. CASE GetCache(t) \/ GetCached(t) \/ GetValid(t) \/ GetLoad(t) \/ GetNext(t)
  BY <1>1, <1>6 DEF GetCache, GetCached, GetValid, GetLoad, GetNext, GetUnchanged
<1> QED
  BY <1>2, <1>3, <1>4, <1>5, <1>6
  DEF Step, MemoryOverflow, PmemOverflow, Fail, Finish, GetReturn, IterationEnds

\* No entry is taken away from a bucket.
LEMMA CountGrows ==
  ASSUME TypeOK, NEW t \in Thread, CallInv(t), Step(t), NEW b \in Bucket
  PROVE  count'[b] >= count[b] /\ count[b] \in Int
<1>0. count \in [Bucket -> 0 .. MaxEntries] /\ count[b] \in Int
  BY SMT, HashTableAssumption DEF TypeOK
<1>1. CASE count' = count
  BY SMT, <1>0, <1>1
<1>2. CASE CountEntry(t)
  <2>1. PICK c : count' = [count EXCEPT ![c] = @ + 1]
    BY <1>2 DEF CountEntry
  <2> QED
    BY SMT, <1>0, <2>1
<1>3. CASE Start(t) \/ Lock(t) \/ Lookup(t) \/ Link(t) \/ MarkAsAllocated(t) \/ Insert(t)
  BY <1>1, <1>3 DEF Start, Lock, Lookup, Link, MarkAsAllocated, Insert, tableVars
<1>4. CASE GetCache(t) \/ GetCached(t) \/ GetValid(t) \/ GetLoad(t) \/ GetNext(t)
  BY <1>1, <1>4 DEF GetCache, GetCached, GetValid, GetLoad, GetNext, GetUnchanged
<1>5. CASE SlotBegin(t) \/ Visit(t) \/ Return(t)
  BY <1>1, <1>5 DEF SlotBegin, Visit, Return, tableVars
<1> QED
  BY <1>2, <1>3, <1>4, <1>5
  DEF Step, MemoryOverflow, PmemOverflow, Fail, Finish, GetReturn, IterationEnds

(***************************************************************************)
(* The entry of a key stays where it is until the key is erased.           *)
(***************************************************************************)
LEMMA EntryStays ==
  ASSUME TypeOK, TableInv, NEW t \in Thread, CallInv(t), Step(t),
         NEW k \in Key, NEW j \in Index, IsEntry(k, j)
  PROVE  IsEntry(k, j)' \/ Becomes(k, Absent)
<1> DEFINE b == BucketOf[k]
<1>0. /\ b \in Bucket /\ entry \in [Bucket -> [Index -> Entry]]
      /\ j < count[b] /\ entry[b][j].type = "Record" /\ entry[b][j].key = k
  BY HashTableAssumption DEF TypeOK, IsEntry, IsRecord
<1>1. j < count'[b]
  <2>1. count'[b] >= count[b] /\ count[b] \in Int /\ j \in Int
    BY SMT, <1>0, CountGrows DEF Index
  <2>2. count'[b] \in Int
    BY SMT, <1>0, TypeStep, HashTableAssumption DEF TypeOK
  <2> QED
    BY SMT, <1>0, <2>1, <2>2
<1>2. ASSUME entry'[b][j] = entry[b][j] PROVE IsEntry(k, j)'
  BY <1>0, <1>1, <1>2 DEF IsEntry, IsRecord
<1>3. ASSUME NEW S, NEW ty \in {"Empty", "Allocated"}, entry' = SetType(S, ty), <<b, j>> \notin S
      PROVE  IsEntry(k, j)'
  <2>1. entry'[b][j] = entry[b][j]
    BY SMT, <1>0, <1>3, SetTypeAt
  <2> QED
    BY <1>2, <2>1
<1>4. CASE Lookup(t)
  <2>1. PICK c \in todo[t] :
          LookupFinds(t, c) \/ LookupReuses(t, c) \/ LookupAllocates(t, c) \/ LookupFails(t, c)
    BY <1>4 DEF Lookup
  <2>2. CASE LookupReuses(t, c)
    <3>1. PICK i \in Empties(BucketOf[c]) : entry' = SetType({<<BucketOf[c], i>>}, "Allocated")
      BY <2>2 DEF LookupReuses
    <3>2. entry[BucketOf[c]][i].type # "Record"
      BY DEF Empties
    <3>3. PICK S : S = {<<BucketOf[c], i>>}
      OBVIOUS
    <3>4. <<b, j>> \notin S
      BY <1>0, <3>2, <3>3
    <3> QED
      BY <1>3, <3>1, <3>3, <3>4
  <2> QED
    BY <1>2, <2>1, <2>2 DEF LookupFinds, LookupAllocates, LookupFails
<1>5. CASE MarkAsAllocated(t)
  <2>1. PICK S : S = {<<BucketOf[key[t]], pos[t][key[t]]>>}
    OBVIOUS
  <2>2. <<b, j>> \notin S
    BY <1>0, <1>5, <2>1 DEF MarkAsAllocated, CallInv
  <2> QED
    BY <1>3, <1>5, <2>1, <2>2 DEF MarkAsAllocated
<1>6. CASE MemoryOverflow(t) \/ PmemOverflow(t)
  <2>1. PICK ptrs : Fail(t, ptrs)
    BY <1>6 DEF MemoryOverflow, PmemOverflow
  <2>2. PICK S : S = {q \in ptrs : entry[q[1]][q[2]].type = "Allocated"}
    OBVIOUS
  <2>3. entry' = entry \/ entry' = SetType(S, "Empty")
    BY <2>1, <2>2 DEF Fail
  <2>4. <<b, j>> \notin S
    BY <1>0, <2>2
  <2> QED
    BY <1>2, <1>3, <2>3, <2>4
<1>7. CASE Insert(t)
  <2>1. PICK c \in publish[t] : entry' = [entry EXCEPT ![BucketOf[c]][pos[t][c]] = Inserted(t, c)]
    BY <1>7 DEF Insert
  <2>2. PICK p : p = pos[t][c]
    OBVIOUS
  <2>3. c \in Key /\ p # -1 /\ Placed(t, c)
    BY <2>2, KeyTypes DEF CallInv
  <2>4. BucketOf[c] \in Bucket /\ p \in Index
    BY <2>2, <2>3, HashTableAssumption DEF Placed
  <2>5. CASE BucketOf[c] = b /\ p = j
    <3>1. c = k
      BY <1>0, <2>2, <2>3, <2>5 DEF Placed, Missing, IsRecord
    <3>2. PICK e : e = Inserted(t, c)
      OBVIOUS
    <3>3. entry'[b][j] = e
      BY <1>0, <2>1, <2>2, <2>5, <3>2
    <3>4. e.type = "Record" /\ e.key = k
      BY <3>1, <3>2 DEF Inserted
    <3> QED
      BY <1>1, <3>3, <3>4 DEF IsEntry, IsRecord
  <2>6. CASE ~(BucketOf[c] = b /\ p = j)
    <3>1. entry'[b][j] = entry[b][j]
      BY <1>0, <2>1, <2>2, <2>4, <2>6
    <3> QED
      BY <1>2, <3>1
  <2> QED
    BY <2>5, <2>6
<1>8. CASE Visit(t)
  <2>1. PICK S : S = {<<bucket[t], idx[t]>>}
    OBVIOUS
  <2>2. \/ entry' = entry
        \/ entry' = SetType(S, "Empty") /\ Becomes(entry[bucket[t]][idx[t]].key, Absent)
    BY <1>8, <2>1 DEF Visit
  <2>3. CASE bucket[t] = b /\ idx[t] = j
    BY <1>0, <1>2, <2>2, <2>3
  <2>4. CASE ~(bucket[t] = b /\ idx[t] = j)
    <3>1. <<b, j>> \notin S
      BY <2>1, <2>4
    <3> QED
      BY <1>2, <1>3, <2>2, <3>1
  <2> QED
    BY <2>3, <2>4
<1>9. CASE Start(t) \/ Lock(t) \/ Link(t) \/ CountEntry(t) \/ SlotBegin(t)
  BY <1>2, <1>9 DEF Start, Lock, Link, CountEntry, SlotBegin, tableVars
<1>10. CASE GetCache(t) \/ GetCached(t) \/ GetValid(t) \/ GetLoad(t) \/ GetNext(t)
  BY <1>2, <1>10 DEF GetCache, GetCached, GetValid, GetLoad, GetNext, GetUnchanged
<1>11. CASE Finish(t) \/ GetReturn(t) \/ IterationEnds(t)
  BY <1>2, <1>11 DEF Finish, GetReturn, IterationEnds
<1> QED
  BY <1>4, <1>5, <1>6, <1>7, <1>8, <1>9, <1>10, <1>11 DEF Step

(***************************************************************************)
(* The chains: allocateEntry links a HashBucket before it counts an entry  *)
(* of it.                                                                  *)
(***************************************************************************)
LEMMA OthersCount ==
  ASSUME TypeOK, LocksHeld, NEW t \in Thread, NEW u \in Thread, u # t, CallInv(u), OnlyOf(t),
         Untouched(t), At(u, "count")'
  PROVE  /\ At(u, "count") /\ key'[u] = key[u] /\ BucketOf[key[u]] \in Bucket
         /\ count'[BucketOf[key[u]]] = count[BucketOf[key[u]]]
<1>1. At(u, "count") /\ key'[u] = key[u]
  BY DEF OnlyOf, At
<1>2. key[u] \in Keys(u) /\ Writing(u)
  BY <1>1 DEF CallInv, At, Writing
<1>3. key[u] \in Key /\ BucketOf[key[u]] \in Bucket
  BY <1>2, KeyTypes
<1>4. SlotOf(key[u]) \in held[u]
  BY <1>2 DEF CallInv
<1>5. SlotOf(key[u]) \notin held[t]
  BY <1>4 DEF LocksHeld
<1> QED
  BY <1>1, <1>3, <1>5 DEF Untouched, SlotOf

LEMMA ChainStep ==
  ASSUME TypeOK, LocksHeld, \A u \in Thread : CallInv(u), ChainInv, NEW t \in Thread, Step(t),
         OnlyOf(t), Untouched(t)
  PROVE  ChainInv'
<1> USE HashTableAssumption
<1>0. /\ count \in [Bucket -> Nat] /\ chain \in [Bucket -> Nat]
      /\ \A b \in Bucket : count[b] \in Nat /\ chain[b] \in Nat
  BY SMT DEF TypeOK
<1>1. ASSUME \A b \in Bucket : chain'[b] \in Nat /\ chain'[b] >= chain[b],
             NEW u \in Thread, u # t, At(u, "count")'
      PROVE  HashBucketOf(count'[BucketOf[key'[u]]]) < chain'[BucketOf[key'[u]]]
  <2>1. /\ At(u, "count") /\ key'[u] = key[u] /\ BucketOf[key[u]] \in Bucket
        /\ count'[BucketOf[key[u]]] = count[BucketOf[key[u]]]
    BY <1>1, OthersCount
  <2>2. HashBucketOf(count[BucketOf[key[u]]]) < chain[BucketOf[key[u]]]
    BY <2>1 DEF ChainInv
  <2>3. HashBucketOf(count[BucketOf[key[u]]]) \in Nat
    BY <1>0, <2>1, HashBucketNumbers
  <2>4. HashBucketOf(count[BucketOf[key[u]]]) < chain'[BucketOf[key[u]]]
    BY SMT, <1>0, <1>1, <2>1, <2>2, <2>3
  <2> QED
    BY <2>1, <2>4
<1>2. ASSUME count' = count, chain' = chain, ~At(t, "count")'
      PROVE  ChainInv'
  <2>1. \A b \in Bucket : chain'[b] \in Nat /\ chain'[b] >= chain[b]
    BY SMT, <1>0, <1>2
  <2>2. \A b \in Bucket : /\ chain'[b] >= 1
                          /\ count'[b] > 0 => HashBucketOf(count'[b] - 1) < chain'[b]
    BY <1>2 DEF ChainInv
  <2> QED
    BY <1>1, <1>2, <2>1, <2>2 DEF ChainInv
<1>3. CASE Link(t)
  <2>1. PICK b0 : b0 = BucketOf[key[t]]
    OBVIOUS
  <2>2. /\ IsFull(b0) /\ chain' = [chain EXCEPT ![b0] = @ + 1] /\ count' = count
        /\ key' = key /\ At(t, "allocate")
    BY <1>3, <2>1 DEF Link, writeVars
  <2>3. b0 \in Bucket
    BY <2>1, <2>2, KeyTypes DEF CallInv, At
  <2>4. \A b \in Bucket : chain'[b] \in Nat /\ chain'[b] >= chain[b]
    BY SMT, <1>0, <2>2, <2>3
  <2>5. chain'[b0] = chain[b0] + 1 /\ \A b \in Bucket : b # b0 => chain'[b] = chain[b]
    BY <1>0, <2>2, <2>3
  <2>6. PICK n : n = count[b0]
    OBVIOUS
  <2>7. n \in Nat /\ n > 0 /\ n % kNumEntryPerBucket = 0 /\ n - 1 \in Nat /\ (n - 1) + 1 = n
    BY SMT, <1>0, <2>2, <2>3, <2>6 DEF IsFull
  <2>8. HashBucketOf(n) = HashBucketOf(n - 1) + 1 /\ HashBucketOf(n - 1) \in Nat
    BY SMT, <2>7, HashBucketNumbers
  <2>9. HashBucketOf(n - 1) < chain[b0]
    BY <2>3, <2>6, <2>7 DEF ChainInv
  <2>10. HashBucketOf(n) < chain'[b0]
    BY SMT, <1>0, <2>3, <2>5, <2>8, <2>9
  <2>11. ASSUME NEW b \in Bucket
         PROVE  chain'[b] >= 1 /\ (count'[b] > 0 => HashBucketOf(count'[b] - 1) < chain'[b])
    <3>1. chain[b] >= 1 /\ (count[b] > 0 => HashBucketOf(count[b] - 1) < chain[b])
      BY DEF ChainInv
    <3>2. count[b] > 0 => HashBucketOf(count[b] - 1) \in Nat
      <4>1. count[b] > 0 => count[b] - 1 \in Nat
        BY SMT, <1>0
      <4> QED
        BY <4>1, HashBucketNumbers
    <3> QED
      BY SMT, <1>0, <2>2, <2>4, <3>1, <3>2
  <2> QED
    BY <1>1, <2>1, <2>2, <2>4, <2>6, <2>10, <2>11 DEF ChainInv
<1>4. CASE CountEntry(t)
  <2>1. PICK b0 : b0 = BucketOf[key[t]]
    OBVIOUS
  <2>2. /\ At(t, "count") \/ (At(t, "allocate") /\ ~IsFull(b0))
        /\ count' = [count EXCEPT ![b0] = @ + 1] /\ chain' = chain /\ Goto(t, "clear")
    BY <1>4, <2>1 DEF CountEntry
  <2>3. b0 \in Bucket
    BY <2>1, <2>2, KeyTypes DEF CallInv, At
  <2>4. ~At(t, "count")'
    BY <2>2 DEF Goto, At, TypeOK
  <2>5. PICK n : n = count[b0]
    OBVIOUS
  <2>6. /\ n \in Nat /\ count'[b0] = n + 1 /\ \A b \in Bucket : b # b0 => count'[b] = count[b]
        /\ (n + 1) - 1 = n
    BY SMT, <1>0, <2>2, <2>3, <2>5
  <2>7. HashBucketOf(n) < chain[b0]
    <3>1. CASE At(t, "count")
      BY <2>1, <2>5, <3>1 DEF ChainInv
    <3>2. CASE n = 0
      <4>1. HashBucketOf(0) = 0
        BY <2>6, HashBucketNumbers
      <4>2. chain[b0] >= 1
        BY <2>3 DEF ChainInv
      <4> QED
        BY SMT, <1>0, <2>3, <3>2, <4>1, <4>2
    <3>3. CASE ~IsFull(b0) /\ n # 0
      <4>1. n > 0 /\ n % kNumEntryPerBucket # 0 /\ n - 1 \in Nat /\ (n - 1) + 1 = n
        BY SMT, <2>5, <2>6, <3>3 DEF IsFull
      <4>2. HashBucketOf(n) = HashBucketOf(n - 1)
        BY SMT, <4>1, HashBucketNumbers
      <4> QED
        BY <2>3, <2>5, <4>1, <4>2 DEF ChainInv
    <3> QED
      BY <2>2, <3>1, <3>2, <3>3
  <2>8. ASSUME NEW b \in Bucket
        PROVE  chain'[b] >= 1 /\ (count'[b] > 0 => HashBucketOf(count'[b] - 1) < chain'[b])
    BY <2>2, <2>6, <2>7 DEF ChainInv
  <2>9. \A b \in Bucket : chain'[b] \in Nat /\ chain'[b] >= chain[b]
    BY SMT, <1>0, <2>2
  <2> QED
    BY <1>1, <2>4, <2>8, <2>9 DEF ChainInv
<1>5. ASSUME NEW p, Goto(t, p), p # "count" PROVE ~At(t, "count")'
  BY <1>5 DEF Goto, At, TypeOK
<1>6. CASE Start(t)
  <2>1. ~At(t, "count")'
    <3>1. \E p \in {"cache", "slot", "lock"} : Goto(t, p)
      BY <1>6 DEF Start
    <3> QED
      BY <3>1 DEF Goto, At, TypeOK
  <2> QED
    BY <1>2, <1>6, <2>1 DEF Start, tableVars
<1>7. CASE Lock(t) \/ MarkAsAllocated(t) \/ Insert(t) \/ Return(t)
  <2>1. ~At(t, "count")'
    BY <1>5, <1>7 DEF Lock, MarkAsAllocated, Insert, Return
  <2> QED
    BY <1>2, <1>7, <2>1 DEF Lock, MarkAsAllocated, Insert, Return, tableVars
<1>8. CASE Lookup(t)
  <2>1. pc' = pc \/ Goto(t, "allocate")
    BY <1>8 DEF Lookup, LookupFinds, LookupReuses, LookupAllocates, LookupFails
  <2>2. ~At(t, "count")'
    BY <1>5, <1>8, <2>1 DEF Lookup, At
  <2> QED
    BY <1>2, <1>8, <2>2 DEF Lookup
<1>9. CASE GetCache(t) \/ GetCached(t) \/ GetValid(t) \/ GetLoad(t) \/ GetNext(t)
  <2>1. \E p \in {"valid", "cached", "return", "load", "next"} : Goto(t, p)
    BY <1>9 DEF GetCache, GetCached, GetValid, GetLoad, GetNext
  <2>2. count' = count /\ chain' = chain
    BY <1>9 DEF GetCache, GetCached, GetValid, GetLoad, GetNext, GetUnchanged
  <2> QED
    BY <1>2, <1>5, <2>1, <2>2
<1>10. CASE SlotBegin(t) \/ Visit(t)
  <2>1. (pc' = pc /\ At(t, "visit")) \/ \E p \in {"visit", "slot", "return"} : Goto(t, p)
    BY <1>10 DEF SlotBegin, Visit, Move
  <2>2. ~At(t, "count")'
    BY <1>5, <2>1 DEF At
  <2> QED
    BY <1>2, <1>10, <2>2 DEF SlotBegin, Visit, tableVars
<1> QED
  BY <1>3, <1>4, <1>6, <1>7, <1>8, <1>9, <1>10
  DEF Step, MemoryOverflow, PmemOverflow, Fail, Finish, GetReturn, IterationEnds

(***************************************************************************)
(* A step of t, seen by the call of another thread.                        *)
(***************************************************************************)
LEMMA BecomesSeen ==
  ASSUME TypeOK, ReadTypes, NEW k \in Key, NEW c \in Contents, Becomes(k, c), NEW u \in Thread
  PROVE  /\ seen[u] \subseteq seen'[u] /\ stayed'[u] \subseteq stayed[u]
         /\ db'[k] = c /\ \A j \in Key : j # k => db'[j] = db[j]
         /\ c = Absent => k \notin stayed'[u]
         /\ call[u].op = "Get" /\ k \in Keys(u) => c \in seen'[u]
<1>1. db' = [db EXCEPT ![k] = c] /\ db \in [Key -> Contents]
  BY DEF Becomes, TypeOK, Contents
<1>2. seen'[u] = IF call[u].op = "Get" /\ k \in Keys(u) THEN seen[u] \union {c} ELSE seen[u]
  BY DEF Becomes
<1>3. stayed'[u] = IF c = Absent THEN stayed[u] \ {k} ELSE stayed[u]
  BY DEF Becomes
<1> QED
  BY <1>1, <1>2, <1>3

LEMMA OthersHistory ==
  ASSUME TypeOK, TableInv, ReadTypes, NEW t \in Thread, NEW u \in Thread, u # t, CallInv(t), Step(t)
  PROVE  /\ seen[u] \subseteq seen'[u] /\ stayed'[u] \subseteq stayed[u]
         /\ \A k \in Key : k \in stayed'[u] /\ db[k] # Absent => db'[k] # Absent
         /\ \A k \in Key : call[u].op = "Get" /\ k \in Keys(u) /\ db[k] \in seen[u]
                           => db'[k] \in seen'[u]
<1>1. CASE SameHistory(t)
  BY <1>1 DEF SameHistory
<1>2. CASE \E k \in Key, c \in Contents : Becomes(k, c)
  <2>1. PICK k \in Key, c \in Contents : Becomes(k, c)
    BY <1>2
  <2>2. /\ seen[u] \subseteq seen'[u] /\ stayed'[u] \subseteq stayed[u]
        /\ db'[k] = c /\ \A j \in Key : j # k => db'[j] = db[j]
        /\ c = Absent => k \notin stayed'[u]
        /\ call[u].op = "Get" /\ k \in Keys(u) => c \in seen'[u]
    BY <2>1, BecomesSeen
  <2> QED
    BY <2>2
<1> QED
  BY <1>1, <1>2, History

LEMMA OthersGet ==
  ASSUME TypeOK, TypeOK', TableInv, ReadTypes, NEW t \in Thread, NEW u \in Thread, u # t, CallInv(t),
         Step(t), OnlyOf(t), OnlyReads(t), call[u].op = "Get", GetInv(u)
  PROVE  GetInv(u)'
<1>1. /\ pc'[u] = pc[u] /\ call'[u] = call[u] /\ bucket'[u] = bucket[u] /\ idx'[u] = idx[u]
      /\ ptr'[u] = ptr[u] /\ got'[u] = got[u]
  BY DEF OnlyOf, OnlyReads
<1>2. Keys(u)' = Keys(u) /\ TheKey(u)' = TheKey(u)
  BY <1>1 DEF Keys, TheKey
<1>3. PICK k : k = TheKey(u)
  OBVIOUS
<1>4. k \in Keys(u) /\ k \in Key /\ BucketOf[k] \in Bucket
  BY <1>3, KeyTypes DEF GetInv
<1>5. seen[u] \subseteq seen'[u] /\ db'[k] \in seen'[u]
  BY <1>3, <1>4, OthersHistory DEF GetInv
<1>6. ASSUME NEW i, EntryFrom(k, i) PROVE EntryFrom(k, i)' \/ Absent \in seen'[u]
  <2>1. PICK j \in Index : i <= j /\ IsEntry(k, j)
    BY <1>6 DEF EntryFrom
  <2>2. IsEntry(k, j)' \/ Becomes(k, Absent)
    BY <1>4, <2>1, EntryStays
  <2>3. Becomes(k, Absent) => Absent \in seen'[u]
    BY <1>4, AbsentType, BecomesSeen
  <2> QED
    BY <2>1, <2>2, <2>3 DEF EntryFrom
<1>7. idx[u] \in Nat /\ idx[u] < count[BucketOf[k]] => idx[u] < count'[BucketOf[k]]
  <2>1. count'[BucketOf[k]] >= count[BucketOf[k]] /\ count[BucketOf[k]] \in Int
    BY <1>4, CountGrows
  <2>2. count'[BucketOf[k]] \in Int
    BY SMT, <1>4, HashTableAssumption DEF TypeOK
  <2> QED
    BY SMT, <2>1, <2>2
<1>8. ASSUME NEW i, Scanning(u, i) PROVE Scanning(u, i)'
  <2>1. idx[u] \in Nat /\ ptr[u] <= HashBucketOf(idx[u])
    BY <1>8 DEF Scanning
  <2>2. At(u, "valid")' \/ idx[u] < count'[BucketOf[k]]
    BY <1>1, <1>3, <1>7, <1>8 DEF Scanning, At
  <2>3. \/ Absent \in seen'[u]
        \/ ptr[u] = HashBucketOf(idx[u]) /\ EntryFrom(k, i)'
    BY <1>3, <1>5, <1>6, <1>8 DEF Scanning
  <2>4. EntryFrom(TheKey(u), i)' <=> EntryFrom(k, i)'
    BY <1>2, <1>3 DEF EntryFrom, IsEntry, IsRecord
  <2> QED
    BY <1>1, <1>2, <1>3, <2>1, <2>2, <2>3, <2>4 DEF Scanning
<1>9. /\ pc'[u] \in {"valid", "load"} => Scanning(u, idx[u])'
      /\ At(u, "next")' => Scanning(u, idx[u] + 1)'
  <2>1. pc[u] \in {"valid", "load"} => Scanning(u, idx[u])
    BY DEF GetInv
  <2>2. pc[u] = "next" => Scanning(u, idx[u] + 1)
    BY DEF GetInv, At
  <2>3. \A i, j : i = j => (Scanning(u, i) => Scanning(u, j))
    BY DEF Scanning
  <2>4. PICK i : i = idx[u]
    OBVIOUS
  <2>5. PICK j : j = idx[u] + 1
    OBVIOUS
  <2>6. pc[u] \in {"valid", "load"} => Scanning(u, i)'
    BY <1>8, <2>1, <2>4
  <2>7. pc[u] = "next" => Scanning(u, j)'
    BY <1>8, <2>2, <2>5
  <2> QED
    BY <1>1, <2>4, <2>5, <2>6, <2>7 DEF At
<1> QED
  BY <1>1, <1>2, <1>3, <1>5, <1>9 DEF GetInv, At

LEMMA OthersIterate ==
  ASSUME TypeOK, TableInv, ReadTypes, LocksHeld, NEW t \in Thread, NEW u \in Thread, u # t,
         CallInv(t), CallInv(u), Step(t), OnlyOf(t), OnlyReads(t), Untouched(t), IterInv(u)
  PROVE  IterInv(u)'
<1>1. /\ pc'[u] = pc[u] /\ bucket'[u] = bucket[u] /\ idx'[u] = idx[u] /\ visited'[u] = visited[u]
  BY DEF OnlyOf, OnlyReads
<1>2. ASSUME NEW k \in Key PROVE Ahead(u, k)' <=> Ahead(u, k)
  <2>1. CASE At(u, "visit") /\ bucket[u] = BucketOf[k]
    <3>1. bucket[u] \in Bucket /\ get_slot_num(bucket[u]) \in held[u]
      BY <2>1 DEF CallInv
    <3>2. get_slot_num(bucket[u]) \notin held[t]
      BY <3>1 DEF LocksHeld
    <3>3. entry'[BucketOf[k]] = entry[BucketOf[k]] /\ count'[BucketOf[k]] = count[BucketOf[k]]
      BY <2>1, <3>1, <3>2 DEF Untouched
    <3>4. EntryFrom(k, idx[u])' <=> EntryFrom(k, idx[u])
      BY <1>1, <3>3 DEF EntryFrom, IsEntry, IsRecord
    <3> QED
      BY <1>1, <3>4 DEF Ahead, At
  <2>2. CASE ~(At(u, "visit") /\ bucket[u] = BucketOf[k])
    BY <1>1, <2>2 DEF Ahead, At
  <2> QED
    BY <2>1, <2>2
<1>3. /\ stayed'[u] \subseteq stayed[u]
      /\ \A k \in Key : k \in stayed'[u] /\ db[k] # Absent => db'[k] # Absent
  BY OthersHistory
<1>4. \A k \in Key : /\ visited[u][k] = 0 \/ (visited[u][k] = 1 /\ ~Ahead(u, k)')
                     /\ k \in stayed'[u] => /\ db'[k] # Absent
                                            /\ visited[u][k] = 1 \/ Ahead(u, k)'
  BY <1>2, <1>3 DEF IterInv
<1> QED
  BY <1>1, <1>4 DEF IterInv, Absent

LEMMA OthersRead ==
  ASSUME TypeOK, TypeOK', TableInv, ReadTypes, LocksHeld, NEW t \in Thread, NEW u \in Thread, u # t,
         CallInv(t), CallInv(u), Step(t), OnlyOf(t), OnlyReads(t), Untouched(t), ReadInv(u)
  PROVE  ReadInv(u)'
<1>1. /\ pc'[u] = pc[u] /\ call'[u] = call[u] /\ bucket'[u] = bucket[u] /\ idx'[u] = idx[u]
      /\ ptr'[u] = ptr[u] /\ got'[u] = got[u] /\ visited'[u] = visited[u]
  BY DEF OnlyOf, OnlyReads
<1>2. call[u].op = "Get" => GetInv(u)'
  BY OthersGet DEF ReadInv
<1>3. call[u].op = "Clean" => IterInv(u)'
  BY OthersIterate DEF ReadInv
<1>4. call[u].op # "Clean" => stayed'[u] = {} /\ \A k \in Key : visited[u][k] = 0
  BY OthersHistory DEF ReadInv
<1> QED
  BY <1>1, <1>2, <1>3, <1>4 DEF ReadInv, At, Writing, Absent

(***************************************************************************)
(* The steps of writers, the beginning and the end of a call.              *)
(***************************************************************************)
LEMMA WriterOp ==
  ASSUME NEW t \in Thread, ReadInv(t), At(t, "lock") \/ Writing(t)
  PROVE  call[t].op \notin {"Get", "Clean"}
BY DEF ReadInv, GetInv, IterInv, At, Writing

LEMMA WriterReads ==
  ASSUME TypeOK, NEW t \in Thread, ReadInv(t), At(t, "lock") \/ Writing(t),
         At(t, "lock")' \/ Writing(t)', call' = call, stayed'[t] \subseteq stayed[t],
         visited' = visited
  PROVE  ReadInv(t)'
<1>1. call[t].op \notin {"Get", "Clean"}
  BY WriterOp
<1>2. ~At(t, "idle")'
  BY DEF At, Writing
<1> QED
  BY <1>1, <1>2 DEF ReadInv

LEMMA CacheType ==
  ASSUME ReadTypes, NEW s, NEW b \in Bucket, NEW i \in Index,
         cache' = [cache EXCEPT ![s] = <<b, i>>]
  PROVE  cache' \in [Slot -> (Bucket \X Index) \union {None}]
<1>1. PICK C : C = (Bucket \X Index) \union {None}
  OBVIOUS
<1>2. cache \in [Slot -> C] /\ <<b, i>> \in C
  BY <1>1 DEF ReadTypes
<1>3. [cache EXCEPT ![s] = <<b, i>>] \in [Slot -> C]
  BY <1>2
<1> QED
  BY <1>1, <1>3

LEMMA WriteStepReads ==
  ASSUME TypeOK, NEW t \in Thread, CallInv(t), ReadTypes, ReadInv(t),
         \/ Lock(t) \/ Lookup(t) \/ Link(t) \/ CountEntry(t) \/ MarkAsAllocated(t) \/ Insert(t)
  PROVE  ReadInv(t)' /\ ReadTypes'
<1> USE DEF Goto, At, Writing, TypeOK
<1>1. CASE Lock(t) \/ Link(t) \/ CountEntry(t) \/ MarkAsAllocated(t)
  <2>1. At(t, "lock") \/ Writing(t)
    BY <1>1 DEF Lock, Link, CountEntry, MarkAsAllocated
  <2>2. At(t, "lock")' \/ Writing(t)'
    BY <1>1 DEF Lock, Link, CountEntry, MarkAsAllocated
  <2>3. UNCHANGED <<call, stayed, visited, cache, ptr, got, seen>>
    BY <1>1 DEF Lock, Link, CountEntry, MarkAsAllocated, ghostVars, iterVars, readVars, tableVars
  <2>4. ReadTypes'
    BY <2>3 DEF ReadTypes
  <2> QED
    BY <2>1, <2>2, <2>3, <2>4, WriterReads
<1>2. CASE Lookup(t)
  <2>1. PICK k \in todo[t] :
          LookupFinds(t, k) \/ LookupReuses(t, k) \/ LookupAllocates(t, k) \/ LookupFails(t, k)
    BY <1>2 DEF Lookup
  <2>2. Writing(t) /\ Writing(t)'
    BY <1>2, <2>1 DEF Lookup, LookupFinds, LookupReuses, LookupAllocates, LookupFails
  <2>3. UNCHANGED <<call, stayed, visited, ptr, got, seen>>
    BY <1>2 DEF Lookup, ghostVars, iterVars, readVars
  <2>4. cache' \in [Slot -> (Bucket \X Index) \union {None}]
    <3>1. k \in Key /\ BucketOf[k] \in Bucket
      BY KeyTypes
    <3>2. cache' = cache \/ \E i \in Index : cache' = [cache EXCEPT ![SlotOf(k)] = <<BucketOf[k], i>>]
      BY <2>1 DEF LookupFinds, LookupReuses, LookupAllocates, LookupFails
    <3> QED
      BY <3>1, <3>2, CacheType DEF ReadTypes
  <2>5. ReadTypes'
    BY <2>3, <2>4 DEF ReadTypes
  <2> QED
    BY <2>2, <2>3, <2>5, WriterReads
<1>3. CASE Insert(t)
  <2>1. PICK k \in publish[t] : Becomes(k, Content(Inserted(t, k)))
    BY <1>3 DEF Insert
  <2>2. k \in Key
    BY KeyTypes
  <2>3. PICK c \in Contents : c = Content(Inserted(t, k))
    BY <2>2, InsertedContent
  <2>4. seen' \in [Thread -> SUBSET Contents] /\ stayed' \in [Thread -> SUBSET Key]
    BY <2>1, <2>3, BecomesTypes
  <2>5. stayed'[t] \subseteq stayed[t]
    BY <2>1, <2>2, <2>3, BecomesSeen
  <2>6. Writing(t) /\ Writing(t)'
    BY <1>3 DEF Insert
  <2>7. UNCHANGED <<call, visited, cache, ptr, got>>
    BY <1>3 DEF Insert, iterVars, readVars
  <2>8. ReadTypes'
    BY <2>4, <2>7 DEF ReadTypes
  <2> QED
    BY <2>5, <2>6, <2>7, <2>8, WriterReads
<1> QED
  BY <1>1, <1>2, <1>3

LEMMA ReturnReads ==
  ASSUME TypeOK, Arrays, ReadTypes, NEW t \in Thread, Return(t)
  PROVE  ReadInv(t)' /\ ReadTypes'
<1>1. /\ pc'[t] = "idle" /\ call'[t] = NoCall /\ idx'[t] = 0 /\ ptr'[t] = 0 /\ bucket'[t] = 0
      /\ got'[t] = Absent /\ stayed'[t] = {} /\ visited'[t] = [k \in Key |-> 0]
  BY DEF Return, Goto, TypeOK, Arrays, ReadTypes
<1>2. NoCall.op = "Single"
  BY DEF NoCall
<1>3. ReadTypes'
  <2>1. cache' = cache /\ ptr' = [ptr EXCEPT ![t] = 0] /\ got' = [got EXCEPT ![t] = Absent]
    BY DEF Return
  <2>2. seen' = [seen EXCEPT ![t] = {}] /\ stayed' = [stayed EXCEPT ![t] = {}]
    BY DEF Return
  <2>3. visited' = [visited EXCEPT ![t] = [k \in Key |-> 0]]
    BY DEF Return
  <2>4. ptr' \in [Thread -> Nat] /\ visited' \in [Thread -> [Key -> Nat]]
    <3>1. 0 \in Nat /\ [k \in Key |-> 0] \in [Key -> Nat]
      BY SMT
    <3> QED
      BY <2>1, <2>3, <3>1 DEF ReadTypes
  <2>5. got' \in [Thread -> Contents]
    BY <2>1, AbsentType DEF ReadTypes
  <2>6. seen' \in [Thread -> SUBSET Contents] /\ stayed' \in [Thread -> SUBSET Key]
    BY <2>2 DEF ReadTypes
  <2> QED
    BY <2>1, <2>4, <2>5, <2>6 DEF ReadTypes
<1>4. \A k \in Key : visited'[t][k] = 0
  BY <1>1
<1> QED
  BY <1>1, <1>2, <1>3, <1>4 DEF ReadInv, At, Absent

LEMMA StartReads ==
  ASSUME TypeOK, ReadTypes, NEW t \in Thread, ReadInv(t), Start(t)
  PROVE  ReadInv(t)' /\ ReadTypes'
<1> USE HashTableAssumption
<1>1. PICK c \in workload.calls[t] :
        /\ call' = [call EXCEPT ![t] = c]
        /\ Goto(t, CASE c.op = "Get" -> "cache" [] c.op = "Clean" -> "slot" [] OTHER -> "lock")
        /\ seen' = [seen EXCEPT ![t] = IF c.op = "Get" THEN {db[k] : k \in DOMAIN c.ops} ELSE {}]
        /\ stayed' = [stayed EXCEPT ![t] = IF c.op = "Clean" THEN {k \in Key : db[k] # Absent}
                                          ELSE {}]
  BY DEF Start
<1>2. UNCHANGED <<cache, idx, ptr, got, bucket, visited, db>> /\ At(t, "idle")
  BY DEF Start, tableVars, readVars, iterVars
<1>3. /\ got[t] = Absent /\ idx[t] = 0 /\ ptr[t] = 0 /\ bucket[t] = 0
      /\ \A k \in Key : visited[t][k] = 0
  BY <1>2 DEF ReadInv
<1>4. workload \in Workload /\ workload \in Workloads
  BY DEF TypeOK
<1>5. c \in Call
  BY SMT, <1>4 DEF Workload
<1>6. c.ops \in Ops /\ c.op \in {"Single", "Batch", "Get", "Clean"}
  BY <1>5 DEF Call
<1>7. DOMAIN c.ops \subseteq Key
  BY <1>6 DEF Ops
<1>8. call'[t] = c /\ Keys(t)' = DOMAIN c.ops
  BY <1>1 DEF TypeOK, Keys
<1>9. /\ pc'[t] = "cache" <=> c.op = "Get" 
      /\ pc'[t] = "slot" <=> c.op = "Clean"
      /\ pc'[t] = "lock" <=> c.op \notin {"Get", "Clean"}
      /\ pc'[t] \in {"cache", "slot", "lock"}
  BY <1>1 DEF Goto, TypeOK
<1>10. /\ seen'[t] = IF c.op = "Get" THEN {db[k] : k \in DOMAIN c.ops} ELSE {}
       /\ stayed'[t] = IF c.op = "Clean" THEN {k \in Key : db[k] # Absent} ELSE {}
  BY <1>1 DEF ReadTypes
<1>11. ReadTypes'
  <2>1. \A k \in Key : db[k] \in Contents
    BY DEF TypeOK, Contents
  <2>2. PICK S : S = IF c.op = "Get" THEN {db[k] : k \in DOMAIN c.ops} ELSE {}
    OBVIOUS
  <2>3. S \in SUBSET Contents
    BY <1>7, <2>1, <2>2
  <2>4. seen' \in [Thread -> SUBSET Contents]
    BY <1>1, <2>2, <2>3 DEF ReadTypes
  <2>5. PICK T : T = IF c.op = "Clean" THEN {k \in Key : db[k] # Absent} ELSE {}
    OBVIOUS
  <2>6. T \in SUBSET Key
    BY <2>5
  <2>7. stayed' \in [Thread -> SUBSET Key]
    BY <1>1, <2>5, <2>6 DEF ReadTypes
  <2> QED
    BY <1>2, <2>4, <2>7 DEF ReadTypes
<1>12. ASSUME c.op = "Get" PROVE GetInv(t)'
  <2>1. \E k \in Key : DOMAIN c.ops = {k}
    BY <1>4, <1>12, GetAssumption
  <2>2. TheKey(t)' \in Keys(t)'
    BY <1>8, <2>1 DEF TheKey
  <2>3. db'[TheKey(t)'] \in seen'[t]
    BY <1>2, <1>8, <1>10, <1>12, <2>2
  <2> QED
    BY <1>2, <1>3, <1>9, <1>12, <2>2, <2>3 DEF GetInv, At, Absent
<1>13. ASSUME c.op = "Clean" PROVE IterInv(t)'
  <2>1. \A k \in Key : 0 <= BucketOf[k]
    BY SMT DEF Bucket
  <2>2. \A k \in Key : Ahead(t, k)'
    BY <1>2, <1>3, <1>9, <1>13, <2>1 DEF Ahead, At
  <2> QED
    BY <1>2, <1>3, <1>9, <1>10, <1>13, <2>2 DEF IterInv, Absent
<1> QED
  BY <1>2, <1>3, <1>8, <1>9, <1>10, <1>11, <1>12, <1>13 DEF ReadInv, At

(***************************************************************************)
(* Lookup<false>.                                                          *)
(***************************************************************************)
LEMMA GetOp ==
  ASSUME NEW t \in Thread, ReadInv(t), pc[t] \in {"cache", "cached", "valid", "load", "next"}
  PROVE  call[t].op = "Get" /\ GetInv(t)
BY DEF ReadInv, IterInv, At, Writing

LEMMA GetFrame ==
  ASSUME NEW t \in Thread, ReadInv(t), call[t].op = "Get", GetUnchanged, pc'[t] # "idle"
  PROVE  /\ TheKey(t)' = TheKey(t) /\ Keys(t)' = Keys(t)
         /\ GetInv(t)' => ReadInv(t)'
<1>1. call' = call /\ visited' = visited /\ stayed' = stayed
  BY DEF GetUnchanged, ghostVars
<1>2. stayed[t] = {} /\ \A k \in Key : visited[t][k] = 0
  BY DEF ReadInv
<1> QED
  BY <1>1, <1>2 DEF ReadInv, TheKey, Keys, At

LEMMA GetKey ==
  ASSUME TypeOK, NEW t \in Thread, GetInv(t)
  PROVE  TheKey(t) \in Key /\ BucketOf[TheKey(t)] \in Bucket
BY KeyTypes DEF GetInv

LEMMA GetBegins ==
  ASSUME TypeOK, TableInv, NEW t \in Thread, GetInv(t)
  PROVE  Absent \in seen[t] \/ EntryFrom(TheKey(t), 0)
<1>1. PICK k \in Key : k = TheKey(t) /\ db[k] \in seen[t]
  BY GetKey DEF GetInv
<1>2. ASSUME db[k] # Absent PROVE EntryFrom(k, 0)
  <2>1. PICK j \in Index : IsEntry(k, j)
    BY <1>2 DEF TableInv, IsEntry
  <2>2. 0 <= j
    BY SMT DEF Index
  <2> QED
    BY <2>1, <2>2 DEF EntryFrom
<1> QED
  BY <1>1, <1>2

\* An entry that matches has what its key has now.
LEMMA MatchIsCurrent ==
  ASSUME TypeOK, TableInv, NEW t \in Thread, GetInv(t), NEW b \in Bucket, NEW i \in Index,
         Match(entry[b][i], TheKey(t))
  PROVE  Content(entry[b][i]) \in seen[t] /\ Content(entry[b][i]) \in Contents
<1>1. entry[b][i].type = "Record" /\ entry[b][i].key = TheKey(t)
  BY DEF Match
<1>2. ~(i >= count[b])
  BY <1>1 DEF TableInv
<1>3. count[b] \in Int /\ i \in Int
  BY SMT, HashTableAssumption DEF TypeOK, Index
<1>4. i < count[b]
  BY SMT, <1>2, <1>3
<1>5. db[TheKey(t)] = Content(entry[b][i])
  <2>1. IsRecord(b, i)
    BY <1>1, <1>4 DEF IsRecord
  <2>2. db[entry[b][i].key] = Content(entry[b][i])
    BY <2>1 DEF TableInv
  <2> QED
    BY <1>1, <2>2
<1>6. db[TheKey(t)] \in Contents
  BY GetKey DEF TypeOK, Contents
<1> QED
  BY <1>5, <1>6 DEF GetInv

LEMMA GetCacheReads ==
  ASSUME TypeOK, Arrays, TableInv, ReadTypes, NEW t \in Thread, ReadInv(t), GetCache(t) \/ GetCached(t)
  PROVE  ReadInv(t)' /\ ReadTypes'
<1>1. call[t].op = "Get" /\ GetInv(t) /\ GetUnchanged
  BY GetOp DEF GetCache, GetCached, At
<1>2. ptr[t] = 0 /\ got[t] = Absent /\ db[TheKey(t)] \in seen[t] /\ TheKey(t) \in Keys(t)
  BY <1>1 DEF GetInv, GetCache, GetCached, At
<1>3. cache' = cache /\ ptr' = ptr /\ seen' = seen /\ stayed' = stayed /\ visited' = visited
      /\ db' = db
  BY <1>1 DEF GetCache, GetCached, GetUnchanged, ghostVars
<1>4. ASSUME pc'[t] = "valid", idx'[t] = 0, got' = got
      PROVE  ReadInv(t)' /\ ReadTypes'
  <2>1. 0 \in Nat /\ HashBucketOf(0) = 0 /\ 0 <= 0
    BY SMT, HashBucketNumbers
  <2>2. TheKey(t)' = TheKey(t) /\ Keys(t)' = Keys(t) /\ (GetInv(t)' => ReadInv(t)')
    BY <1>1, <1>4, GetFrame
  <2>3. Absent \in seen[t] \/ EntryFrom(TheKey(t), 0)
    BY <1>1, GetBegins
  <2>4. EntryFrom(TheKey(t), 0) => EntryFrom(TheKey(t), 0)'
    BY <1>1, <2>2 DEF EntryFrom, IsEntry, IsRecord, GetUnchanged
  <2>5. Scanning(t, 0)'
    BY <1>2, <1>3, <1>4, <2>1, <2>3, <2>4 DEF Scanning, At, Absent
  <2>6. GetInv(t)'
    <3>1. PICK k : k = TheKey(t)
      OBVIOUS
    <3>2. TheKey(t)' \in Keys(t)' /\ db'[TheKey(t)'] \in seen'[t]
      BY <1>2, <1>3, <2>2
    <3> QED
      BY <1>2, <1>4, <2>5, <3>2 DEF GetInv, At, Absent
  <2>7. ReadTypes'
    BY <1>3, <1>4 DEF ReadTypes
  <2> QED
    BY <2>2, <2>6, <2>7
<1>5. CASE GetCache(t)
  <2>1. PICK cached : cached = cache[SlotOf(TheKey(t))]
    OBVIOUS
  <2>2. CASE cached = None
    <3>1. Goto(t, "valid") /\ idx' = idx /\ got' = got
      BY <1>5, <2>1, <2>2 DEF GetCache
    <3>2. pc'[t] = "valid" /\ idx'[t] = 0
      BY <1>1, <1>5, <3>1 DEF Goto, TypeOK, GetInv, GetCache
    <3> QED
      BY <1>4, <3>1, <3>2
  <2>3. CASE cached # None
    <3>1. /\ Goto(t, "cached") /\ got' = got /\ bucket' = [bucket EXCEPT ![t] = cached[1]]
          /\ idx' = [idx EXCEPT ![t] = cached[2]]
      BY <1>5, <2>1, <2>3 DEF GetCache
    <3>2. pc'[t] = "cached" /\ bucket'[t] = cached[1] /\ idx'[t] = cached[2]
      BY <3>1 DEF Goto, TypeOK, Arrays
    <3>3. TheKey(t) \in Key
      BY <1>1, GetKey
    <3>4. SlotOf(TheKey(t)) \in Slot
      BY <3>3, KeyTypes
    <3>5. cached \in Bucket \X Index
      BY <2>1, <2>3, <3>4 DEF ReadTypes
    <3>6. bucket'[t] \in Bucket /\ idx'[t] \in Index
      BY <3>2, <3>5
    <3>7. TheKey(t)' = TheKey(t) /\ Keys(t)' = Keys(t) /\ (GetInv(t)' => ReadInv(t)')
      BY <1>1, <3>2, GetFrame
    <3>8. TheKey(t)' \in Keys(t)' /\ db'[TheKey(t)'] \in seen'[t]
      BY <1>2, <1>3, <3>7
    <3>9. GetInv(t)'
      BY <1>2, <1>3, <3>1, <3>2, <3>6, <3>8 DEF GetInv, At, Absent
    <3>10. ReadTypes'
      BY <1>3, <3>1 DEF ReadTypes
    <3> QED
      BY <3>7, <3>9, <3>10
  <2> QED
    BY <2>2, <2>3
<1>6. CASE GetCached(t)
  <2>1. bucket[t] \in Bucket /\ idx[t] \in Index
    BY <1>1, <1>6 DEF GetCached, GetInv
  <2>2. PICK e : e = entry[bucket[t]][idx[t]]
    OBVIOUS
  <2>3. CASE Match(e, TheKey(t))
    <3>1. Goto(t, "return") /\ got' = [got EXCEPT ![t] = Content(e)]
      BY <1>6, <2>2, <2>3 DEF GetCached
    <3>2. Content(e) \in seen[t] /\ Content(e) \in Contents
      BY <1>1, <2>1, <2>2, <2>3, MatchIsCurrent
    <3>3. pc'[t] = "return" /\ got'[t] = Content(e)
      BY <3>1 DEF Goto, TypeOK, ReadTypes
    <3>4. TheKey(t)' = TheKey(t) /\ Keys(t)' = Keys(t) /\ (GetInv(t)' => ReadInv(t)')
      BY <1>1, <3>3, GetFrame
    <3>5. TheKey(t)' \in Keys(t)' /\ db'[TheKey(t)'] \in seen'[t]
      BY <1>2, <1>3, <3>4
    <3>6. GetInv(t)'
      BY <1>3, <3>2, <3>3, <3>5 DEF GetInv, At
    <3>7. ReadTypes'
      BY <1>3, <3>1, <3>2 DEF ReadTypes
    <3> QED
      BY <3>4, <3>6, <3>7
  <2>4. CASE ~Match(e, TheKey(t))
    <3>1. Goto(t, "valid") /\ got' = got /\ idx' = [idx EXCEPT ![t] = 0]
      BY <1>6, <2>2, <2>4 DEF GetCached
    <3>2. pc'[t] = "valid" /\ idx'[t] = 0
      BY <3>1 DEF Goto, TypeOK, Arrays
    <3> QED
      BY <1>4, <3>1, <3>2
  <2> QED
    BY <2>3, <2>4
<1> QED
  BY <1>5, <1>6

LEMMA GetValidReads ==
  ASSUME TypeOK, ReadTypes, NEW t \in Thread, ReadInv(t), GetValid(t)
  PROVE  ReadInv(t)' /\ ReadTypes'
<1>1. call[t].op = "Get" /\ GetInv(t) /\ GetUnchanged
  BY GetOp DEF GetValid, At
<1>2. /\ cache' = cache /\ idx' = idx /\ ptr' = ptr /\ got' = got /\ seen' = seen
      /\ stayed' = stayed /\ visited' = visited /\ db' = db /\ entry' = entry /\ count' = count
  BY <1>1 DEF GetValid, GetUnchanged, ghostVars, readVars
<1>3. PICK k : k = TheKey(t)
  OBVIOUS
<1>4. /\ got[t] = Absent /\ db[k] \in seen[t] /\ k \in Keys(t) /\ Scanning(t, idx[t])
      /\ k \in Key /\ BucketOf[k] \in Bucket
  BY <1>1, <1>3, GetKey DEF GetInv, GetValid, At
<1>5. pc'[t] = IF ptr[t] # None /\ idx[t] < count[BucketOf[k]] THEN "load" ELSE "return"
  BY <1>3 DEF GetValid, Goto, TypeOK
<1>6. pc'[t] \in {"load", "return"}
  BY <1>5
<1>7. TheKey(t)' = k /\ Keys(t)' = Keys(t) /\ (GetInv(t)' => ReadInv(t)')
  BY <1>1, <1>3, <1>6, GetFrame
<1>8. TheKey(t)' \in Keys(t)' /\ db'[TheKey(t)'] \in seen'[t]
  BY <1>2, <1>4, <1>7
<1>9. ReadTypes'
  BY <1>2 DEF ReadTypes
<1>10. CASE idx[t] < count[BucketOf[k]]
  <2>1. ptr[t] # None
    <3>1. ptr[t] \in Nat
      BY DEF ReadTypes
    <3> QED
      BY <3>1, GetAssumption
  <2>2. pc'[t] = "load"
    BY <1>5, <1>10, <2>1
  <2>3. EntryFrom(k, idx[t])' <=> EntryFrom(k, idx[t])
    BY <1>2 DEF EntryFrom, IsEntry, IsRecord
  <2>4. EntryFrom(TheKey(t), idx[t])' <=> EntryFrom(k, idx[t])'
    BY <1>7 DEF EntryFrom, IsEntry, IsRecord
  <2>5. /\ idx[t] \in Nat /\ ptr[t] <= HashBucketOf(idx[t])
        /\ \/ Absent \in seen[t]
           \/ ptr[t] = HashBucketOf(idx[t]) /\ EntryFrom(k, idx[t])
    BY <1>3, <1>4 DEF Scanning
  <2>6. Scanning(t, idx[t])'
    BY <1>2, <1>7, <1>10, <2>3, <2>4, <2>5 DEF Scanning, Absent
  <2>7. GetInv(t)'
    BY <1>2, <1>4, <1>8, <2>2, <2>6 DEF GetInv, At, Absent
  <2> QED
    BY <1>7, <1>9, <2>7
<1>11. CASE ~(idx[t] < count[BucketOf[k]])
  <2>1. pc'[t] = "return"
    BY <1>5, <1>11
  <2>2. ~EntryFrom(k, idx[t])
    <3> SUFFICES ASSUME NEW j \in Index, idx[t] <= j, j < count[BucketOf[k]] PROVE FALSE
      BY DEF EntryFrom, IsEntry, IsRecord
    <3>1. count[BucketOf[k]] \in Int /\ idx[t] \in Int /\ j \in Int
      BY SMT, <1>4, HashTableAssumption DEF TypeOK, Index, Scanning
    <3> QED
      BY SMT, <1>11, <3>1
  <2>3. Absent \in seen[t]
    BY <1>3, <1>4, <2>2 DEF Scanning
  <2>4. GetInv(t)'
    BY <1>2, <1>4, <1>8, <2>1, <2>3 DEF GetInv, At, Absent
  <2> QED
    BY <1>7, <1>9, <2>4
<1> QED
  BY <1>10, <1>11

LEMMA GetLoadReads ==
  ASSUME TypeOK, TableInv, ReadTypes, NEW t \in Thread, ReadInv(t), GetLoad(t)
  PROVE  ReadInv(t)' /\ ReadTypes'
<1>1. call[t].op = "Get" /\ GetInv(t) /\ GetUnchanged
  BY GetOp DEF GetLoad, At
<1>2. /\ idx' = idx /\ ptr' = ptr /\ seen' = seen
      /\ stayed' = stayed /\ visited' = visited /\ db' = db /\ entry' = entry /\ count' = count
  BY <1>1 DEF GetLoad, GetUnchanged, ghostVars
<1>3. PICK k, b, i : /\ k = TheKey(t) /\ b = BucketOf[k]
                     /\ i = (ptr[t] * kNumEntryPerBucket) + (idx[t] % kNumEntryPerBucket)
  OBVIOUS
<1>4. /\ got[t] = Absent /\ db[k] \in seen[t] /\ k \in Keys(t) /\ Scanning(t, idx[t])
      /\ k \in Key /\ b \in Bucket
  BY <1>1, <1>3, GetKey DEF GetInv, GetLoad, At
<1>5. /\ idx[t] \in Nat /\ ptr[t] \in Nat /\ ptr[t] <= HashBucketOf(idx[t]) /\ idx[t] < count[b]
      /\ \/ Absent \in seen[t]
         \/ ptr[t] = HashBucketOf(idx[t]) /\ EntryFrom(k, idx[t])
  BY <1>3, <1>4 DEF Scanning, GetLoad, At, ReadTypes
<1>6. i \in Nat /\ i <= idx[t]
  BY <1>3, <1>5, LoadedIndex
<1>7. count[b] \in Int /\ count[b] <= MaxEntries /\ MaxEntries \in Nat
  BY SMT, <1>4, HashTableAssumption DEF TypeOK
<1>8. i \in Index
  BY SMT, <1>5, <1>6, <1>7 DEF Index
<1>9. ASSUME pc'[t] \in {"next", "return"}
      PROVE  /\ TheKey(t)' = k /\ Keys(t)' = Keys(t) /\ (GetInv(t)' => ReadInv(t)')
             /\ TheKey(t)' \in Keys(t)' /\ db'[TheKey(t)'] \in seen'[t]
  <2>1. TheKey(t)' = k /\ Keys(t)' = Keys(t) /\ (GetInv(t)' => ReadInv(t)')
    BY <1>1, <1>3, <1>9, GetFrame
  <2> QED
    BY <1>2, <1>4, <2>1
<1>10. CASE Match(entry[b][i], k)
  <2>1. /\ cache' = [cache EXCEPT ![get_slot_num(b)] = <<b, i>>]
        /\ got' = [got EXCEPT ![t] = Content(entry[b][i])] /\ Goto(t, "return")
    BY <1>3, <1>10 DEF GetLoad
  <2>2. Content(entry[b][i]) \in seen[t] /\ Content(entry[b][i]) \in Contents
    BY <1>1, <1>3, <1>4, <1>8, <1>10, MatchIsCurrent
  <2>3. pc'[t] = "return" /\ got'[t] = Content(entry[b][i])
    BY <2>1 DEF Goto, TypeOK, ReadTypes
  <2>4. GetInv(t)'
    BY <1>2, <1>9, <2>2, <2>3 DEF GetInv, At
  <2>5. cache' \in [Slot -> (Bucket \X Index) \union {None}]
    BY <1>4, <1>8, <2>1, CacheType
  <2>6. ReadTypes'
    BY <1>2, <2>1, <2>2, <2>5 DEF ReadTypes
  <2> QED
    BY <1>9, <2>3, <2>4, <2>6
<1>11. CASE ~Match(entry[b][i], k)
  <2>1. Goto(t, "next") /\ cache' = cache /\ got' = got
    BY <1>3, <1>11 DEF GetLoad
  <2>2. pc'[t] = "next"
    BY <2>1 DEF Goto, TypeOK
  <2>3. ASSUME ptr[t] = HashBucketOf(idx[t]), EntryFrom(k, idx[t]) PROVE EntryFrom(k, idx[t] + 1)
    <3>1. i = idx[t]
      BY <1>3, <1>5, <2>3, HashBucketNumbers
    <3>2. PICK j \in Index : idx[t] <= j /\ IsEntry(k, j)
      BY <2>3 DEF EntryFrom
    <3>3. j # i
      BY <1>3, <1>11, <3>2 DEF IsEntry, IsRecord, Match
    <3>4. idx[t] + 1 <= j
      BY SMT, <1>5, <3>1, <3>2, <3>3 DEF Index
    <3> QED
      BY <3>2, <3>4 DEF EntryFrom
  <2>4. EntryFrom(TheKey(t), idx[t] + 1)' <=> EntryFrom(k, idx[t] + 1)
    BY <1>2, <1>9, <2>2 DEF EntryFrom, IsEntry, IsRecord
  <2>5. Scanning(t, idx[t] + 1)'
    BY <1>2, <1>3, <1>5, <1>9, <2>2, <2>3, <2>4 DEF Scanning, Absent
  <2>6. GetInv(t)'
    BY <1>4, <1>9, <2>1, <2>2, <2>5 DEF GetInv, At, Absent
  <2>7. ReadTypes'
    BY <1>2, <2>1 DEF ReadTypes
  <2> QED
    BY <1>9, <2>2, <2>6, <2>7
<1> QED
  BY <1>10, <1>11

LEMMA GetNextReads ==
  ASSUME TypeOK, Arrays, ReadTypes, ChainInv, NEW t \in Thread, ReadInv(t), GetNext(t)
  PROVE  ReadInv(t)' /\ ReadTypes'
<1>1. call[t].op = "Get" /\ GetInv(t) /\ GetUnchanged
  BY GetOp DEF GetNext, At
<1>2. /\ cache' = cache /\ got' = got /\ seen' = seen
      /\ stayed' = stayed /\ visited' = visited /\ db' = db /\ entry' = entry /\ count' = count
  BY <1>1 DEF GetNext, GetUnchanged, ghostVars
<1>3. PICK k, b, i, p : k = TheKey(t) /\ b = BucketOf[k] /\ i = idx[t] + 1 /\ p = ptr[t]
  OBVIOUS
<1>4. /\ got[t] = Absent /\ db[k] \in seen[t] /\ k \in Keys(t) /\ Scanning(t, i)
      /\ k \in Key /\ b \in Bucket
  BY <1>1, <1>3, GetKey DEF GetInv, GetNext, At
<1>5. /\ idx[t] \in Nat /\ p \in Nat /\ p <= HashBucketOf(idx[t]) /\ idx[t] < count[b]
      /\ \/ Absent \in seen[t]
         \/ p = HashBucketOf(idx[t]) /\ EntryFrom(k, i)
  BY <1>3, <1>4 DEF Scanning, GetNext, At, ReadTypes
<1>6. pc'[t] = "valid"
  BY DEF GetNext, Goto, TypeOK
<1>7. TheKey(t)' = k /\ Keys(t)' = Keys(t) /\ (GetInv(t)' => ReadInv(t)')
  BY <1>1, <1>3, <1>6, GetFrame
<1>8. TheKey(t)' \in Keys(t)' /\ db'[TheKey(t)'] \in seen'[t]
  BY <1>2, <1>4, <1>7
<1>9. count[b] \in Nat /\ chain[b] \in Int
  BY SMT, <1>4 DEF TypeOK
<1>10. /\ HashBucketOf(idx[t]) \in Nat /\ HashBucketOf(i) \in Nat /\ i \in Nat
       /\ HashBucketOf(i) = IF i % kNumEntryPerBucket = 0
                            THEN HashBucketOf(idx[t]) + 1 ELSE HashBucketOf(idx[t])
  <2>1. i \in Nat
    BY SMT, <1>3, <1>5
  <2> QED
    BY <1>3, <1>5, <2>1, HashBucketNumbers
<1>11. ASSUME i < count[b] PROVE HashBucketOf(i) < chain[b]
  <2>1. count[b] > 0 /\ count[b] - 1 \in Nat /\ i <= count[b] - 1
    BY SMT, <1>9, <1>10, <1>11
  <2>2. HashBucketOf(count[b] - 1) < chain[b]
    BY <1>4, <2>1 DEF ChainInv
  <2>3. HashBucketOf(i) <= HashBucketOf(count[b] - 1) /\ HashBucketOf(count[b] - 1) \in Nat
    BY <1>10, <2>1, HashBucketOrder, HashBucketNumbers
  <2> QED
    BY SMT, <1>9, <1>10, <2>2, <2>3
<1>12. ASSUME i >= count[b] PROVE ~EntryFrom(k, i)
  <2> SUFFICES ASSUME NEW j \in Index, i <= j, j < count[b] PROVE FALSE
    BY <1>3 DEF EntryFrom, IsEntry, IsRecord
  <2>1. j \in Int
    BY SMT, HashTableAssumption DEF Index
  <2> QED
    BY SMT, <1>9, <1>10, <1>12, <2>1
<1>13. PICK q : q = IF i % kNumEntryPerBucket = 0 /\ i < count[b] THEN p + 1 ELSE p
  OBVIOUS
<1>14. idx' = [idx EXCEPT ![t] = i]
  BY <1>3 DEF GetNext
<1>15. ptr' = [ptr EXCEPT ![t] = q]
  <2>1. CASE i % kNumEntryPerBucket = 0 /\ i < count[b]
    <3>1. p + 1 < chain[b]
      BY SMT, <1>5, <1>9, <1>10, <1>11, <2>1
    <3>2. ptr' = [ptr EXCEPT ![t] = IF p + 1 < chain[b] THEN p + 1 ELSE None]
      BY SMT, <1>3, <2>1 DEF GetNext
    <3> QED
      BY <1>13, <2>1, <3>1, <3>2
  <2>2. CASE ~(i % kNumEntryPerBucket = 0 /\ i < count[b])
    <3>1. ptr' = ptr /\ q = p
      BY <1>3, <1>13, <2>2 DEF GetNext
    <3> QED
      BY SMT, <1>3, <3>1 DEF ReadTypes
  <2> QED
    BY <2>1, <2>2
<1>16. /\ q \in Nat /\ q <= HashBucketOf(i)
       /\ Absent \in seen[t] \/ (q = HashBucketOf(i) /\ EntryFrom(k, i))
  BY SMT, <1>5, <1>9, <1>10, <1>12, <1>13
<1>17. idx'[t] = i /\ ptr'[t] = q
  BY <1>14, <1>15 DEF Arrays, ReadTypes
<1>18. EntryFrom(TheKey(t), i)' <=> EntryFrom(k, i)
  BY <1>2, <1>7 DEF EntryFrom, IsEntry, IsRecord
<1>19. EntryFrom(TheKey(t), idx[t])' <=> EntryFrom(k, i)
  BY <1>17, <1>18 DEF EntryFrom
<1>20. Scanning(t, idx[t])'
  BY <1>2, <1>6, <1>10, <1>16, <1>17, <1>19 DEF Scanning, At, Absent
<1>21. GetInv(t)'
  BY <1>2, <1>4, <1>6, <1>8, <1>20 DEF GetInv, At, Absent
<1>22. ReadTypes'
  BY <1>2, <1>15, <1>16 DEF ReadTypes
<1> QED
  BY <1>7, <1>21, <1>22

(***************************************************************************)
(* The steps of an iteration.  The buckets that it skips hold no entry, so *)
(* no key of the slot is passed over.                                      *)
(***************************************************************************)
LEMMA MoveReads ==
  ASSUME TypeOK, Arrays, TableInv', NEW t \in Thread, NEW b0 \in Bucket, NEW b \in {b0, b0 + 1},
         Move(t, b, get_slot_num(b0)), count' = count,
         \A k \in Key :
           /\ visited'[t][k] = 0 \/ (visited'[t][k] = 1 /\ BucketOf[k] < b)
           /\ k \in stayed'[t] => db'[k] # Absent /\ (visited'[t][k] = 1 \/ b <= BucketOf[k])
  PROVE  IterInv(t)'
<1> DEFINE s == get_slot_num(b0)
           end == (s + 1) * num_buckets_per_slot_
<1>1. Bucket \subseteq Nat /\ b0 \in Nat /\ b \in Nat
  BY SMT, HashTableAssumption DEF Bucket
<1>2. /\ end \in Nat /\ b0 < end
      /\ \A d \in Nat : b0 <= d /\ d < end => get_slot_num(d) = s
  BY <1>1, SlotRange
<1>3. \A k \in Key : BucketOf[k] \in Bucket /\ BucketOf[k] \in Nat
  BY <1>1, HashTableAssumption
<1>4. b0 <= b /\ b <= end
  BY SMT, <1>1, <1>2
<1>5. ASSUME NEW k \in Key, k \in stayed'[t]
      PROVE  \E i \in Index : 0 <= i /\ IsEntry(k, i)' /\ count[BucketOf[k]] > 0
  <2>1. db'[k] # Absent
    BY <1>5
  <2>2. PICK i \in Index : IsRecord(BucketOf[k], i)' /\ entry'[BucketOf[k]][i].key = k
    BY <2>1 DEF TableInv, Absent
  <2>3. count[BucketOf[k]] \in Int /\ i < count[BucketOf[k]]
    BY SMT, <1>3, <2>2, HashTableAssumption DEF TypeOK, IsRecord
  <2>4. 0 <= i /\ count[BucketOf[k]] > 0
    BY SMT, <2>3 DEF Index
  <2> QED
    BY <2>2, <2>4 DEF IsEntry, IsRecord
<1>6. \A k \in Key : k \in stayed'[t] /\ b <= BucketOf[k] /\ BucketOf[k] < end
                     => InSlot(BucketOf[k], s)
  BY SMT, <1>1, <1>2, <1>3, <1>4 DEF InSlot
<1> HIDE DEF s, end
<1>7. CASE \E c \in Bucket : /\ FirstWithEntries(b, s, c)
                             /\ bucket' = [bucket EXCEPT ![t] = c]
                             /\ idx' = [idx EXCEPT ![t] = 0]
                             /\ Goto(t, "visit")
  <2>1. PICK c \in Bucket : /\ FirstWithEntries(b, s, c)
                            /\ bucket' = [bucket EXCEPT ![t] = c]
                            /\ idx' = [idx EXCEPT ![t] = 0]
                            /\ Goto(t, "visit")
    BY <1>7
  <2>2. bucket'[t] = c /\ idx'[t] = 0 /\ pc'[t] = "visit"
    BY <2>1 DEF Arrays, TypeOK, Goto
  <2>3. c \in Nat /\ b <= c /\ c < end
    <3>1. c \in Nat /\ c < (get_slot_num(c) + 1) * num_buckets_per_slot_
      BY <1>1, SlotRange
    <3>2. get_slot_num(c) = s /\ c >= b
      BY <2>1 DEF FirstWithEntries, InSlot
    <3>3. b <= c
      BY SMT, <1>1, <3>1, <3>2
    <3> QED
      BY <3>1, <3>2, <3>3 DEF end
  <2>4. ASSUME NEW k \in Key
        PROVE  Ahead(t, k)' <=> \/ c < BucketOf[k]
                                \/ c = BucketOf[k] /\ EntryFrom(k, 0)'
    <3>1. EntryFrom(k, idx[t])' <=> EntryFrom(k, 0)'
      BY <2>2 DEF EntryFrom
    <3> QED
      BY <2>2, <3>1 DEF Ahead, At
  <2>5. ASSUME NEW k \in Key, visited'[t][k] = 1 PROVE ~Ahead(t, k)'
    <3>1. BucketOf[k] < b
      BY SMT, <2>5
    <3>2. ~(c < BucketOf[k]) /\ c # BucketOf[k]
      BY SMT, <1>1, <1>3, <2>3, <3>1
    <3> QED
      BY <2>4, <3>2
  <2>6. ASSUME NEW k \in Key, k \in stayed'[t], visited'[t][k] # 1 PROVE Ahead(t, k)'
    <3>1. b <= BucketOf[k]
      BY <2>6
    <3>2. ~(BucketOf[k] < c)
      <4> SUFFICES ASSUME BucketOf[k] < c PROVE FALSE
        OBVIOUS
      <4>1. BucketOf[k] < end /\ BucketOf[k] >= b
        BY SMT, <1>1, <1>2, <1>3, <2>3, <3>1 DEF end
      <4>2. c <= BucketOf[k]
        BY <1>3, <1>5, <1>6, <2>1, <2>6, <3>1, <4>1 DEF FirstWithEntries
      <4> QED
        BY SMT, <1>3, <2>3, <4>2
    <3>3. c < BucketOf[k] \/ c = BucketOf[k]
      BY SMT, <1>3, <2>3, <3>2
    <3>4. EntryFrom(k, 0)'
      BY <1>5, <2>6 DEF EntryFrom
    <3> QED
      BY <2>4, <3>3, <3>4
  <2> QED
    BY <2>2, <2>5, <2>6 DEF IterInv, Absent
<1>8. CASE /\ \A c \in Bucket : InSlot(c, s) /\ c >= b => count[c] = 0
           /\ bucket' = [bucket EXCEPT ![t] = end]
           /\ idx' = [idx EXCEPT ![t] = 0]
           /\ Goto(t, IF bucket'[t] \in Bucket THEN "slot" ELSE "return")
  <2>1. bucket'[t] = end /\ pc'[t] = IF end \in Bucket THEN "slot" ELSE "return"
    BY <1>8 DEF Arrays, TypeOK, Goto
  <2>2. ASSUME NEW k \in Key, visited'[t][k] = 1 PROVE ~Ahead(t, k)'
    <3>1. BucketOf[k] < b
      BY SMT, <2>2
    <3>2. ~(end <= BucketOf[k])
      BY SMT, <1>1, <1>2, <1>3, <1>4, <3>1 DEF end, s
    <3> QED
      BY <2>1, <3>2 DEF Ahead, At
  <2>3. ASSUME NEW k \in Key, k \in stayed'[t], visited'[t][k] # 1 PROVE Ahead(t, k)'
    <3>1. b <= BucketOf[k]
      BY <2>3
    <3>2. ~(BucketOf[k] < end)
      <4> SUFFICES ASSUME BucketOf[k] < end PROVE FALSE
        OBVIOUS
      <4>1. BucketOf[k] >= b
        BY SMT, <1>1, <1>3, <3>1
      <4>2. count[BucketOf[k]] = 0 /\ count[BucketOf[k]] > 0
        BY <1>3, <1>5, <1>6, <1>8, <2>3, <3>1, <4>1
      <4> QED
        BY SMT, <4>2
    <3>3. end <= BucketOf[k] /\ end \in Bucket
      BY SMT, <1>2, <1>3, <3>2, HashTableAssumption DEF Bucket, end, s
    <3> QED
      BY <2>1, <3>3 DEF Ahead, At
  <2> QED
    BY <2>1, <2>2, <2>3 DEF IterInv, Absent
<1> QED
  BY <1>7, <1>8 DEF Move, s, end

LEMMA IterFrame ==
  ASSUME NEW t \in Thread, call[t].op = "Clean", call' = call, IterInv(t)'
  PROVE  ReadInv(t)'
<1>1. ~At(t, "idle")'
  BY DEF IterInv, At
<1> QED
  BY <1>1 DEF ReadInv

LEMMA IterOp ==
  ASSUME NEW t \in Thread, ReadInv(t), At(t, "slot") \/ At(t, "visit")
  PROVE  call[t].op = "Clean" /\ IterInv(t)
BY DEF ReadInv, GetInv, At, Writing

LEMMA SlotBeginReads ==
  ASSUME TypeOK, Arrays, TableInv', ReadTypes, NEW t \in Thread, CallInv(t), ReadInv(t), SlotBegin(t)
  PROVE  ReadInv(t)' /\ ReadTypes'
<1>1. /\ call[t].op = "Clean" /\ IterInv(t) /\ bucket[t] \in Bucket /\ pc[t] = "slot"
  BY IterOp DEF SlotBegin, CallInv, At
<1>2. /\ count' = count /\ visited' = visited /\ stayed' = stayed /\ db' = db /\ seen' = seen
      /\ cache' = cache /\ ptr' = ptr /\ got' = got /\ call' = call
  BY DEF SlotBegin, tableVars, ghostVars
<1>3. \A k \in Key :
        /\ visited'[t][k] = 0 \/ (visited'[t][k] = 1 /\ BucketOf[k] < bucket[t])
        /\ k \in stayed'[t] =>
             db'[k] # Absent /\ (visited'[t][k] = 1 \/ bucket[t] <= BucketOf[k])
  <2> SUFFICES ASSUME NEW k \in Key
               PROVE  /\ visited[t][k] = 0 \/ (visited[t][k] = 1 /\ BucketOf[k] < bucket[t])
                      /\ k \in stayed[t] =>
                           db[k] # Absent /\ (visited[t][k] = 1 \/ bucket[t] <= BucketOf[k])
    BY <1>2
  <2>1. Ahead(t, k) <=> bucket[t] <= BucketOf[k]
    BY <1>1 DEF Ahead, At
  <2>2. bucket[t] \in Int /\ BucketOf[k] \in Int
    BY SMT, <1>1, HashTableAssumption DEF Bucket
  <2>3. ~(bucket[t] <= BucketOf[k]) => BucketOf[k] < bucket[t]
    BY SMT, <2>2
  <2> QED
    BY <1>1, <2>1, <2>3 DEF IterInv
<1>4. IterInv(t)'
  BY <1>1, <1>2, <1>3, MoveReads DEF SlotBegin
<1>5. ReadTypes'
  BY <1>2 DEF ReadTypes
<1> QED
  BY <1>1, <1>2, <1>4, <1>5, IterFrame

LEMMA VisitReads ==
  ASSUME TypeOK, Arrays, TableInv, TableInv', ReadTypes, NEW t \in Thread, CallInv(t), ReadInv(t),
         Visit(t)
  PROVE  ReadInv(t)' /\ ReadTypes'
<1>1. call[t].op = "Clean" /\ IterInv(t) /\ pc[t] = "visit"
  BY IterOp DEF Visit, At
<1>2. PICK b, i, e : b = bucket[t] /\ i = idx[t] /\ e = entry[b][i]
  OBVIOUS
<1>3. b \in Bucket /\ i \in Index /\ i < count[b]
  BY <1>1, <1>2 DEF CallInv, At
<1>4. i \in Nat /\ i + 1 \in Nat /\ b \in Nat /\ count[b] \in Int /\ Index \subseteq Nat
  BY SMT, <1>3, HashTableAssumption DEF Index, Bucket, TypeOK
<1>5. \A k \in Key : BucketOf[k] \in Nat
  BY SMT, HashTableAssumption DEF Bucket
<1>6. /\ visited' = IF e.type = "Record" THEN [visited EXCEPT ![t][e.key] = @ + 1] ELSE visited
      /\ count' = count /\ cache' = cache /\ ptr' = ptr /\ got' = got /\ call' = call
      /\ \/ /\ e.type = "Record"
            /\ entry' = SetType({<<b, i>>}, "Empty")
            /\ Becomes(e.key, Absent)
         \/ entry' = entry /\ db' = db /\ seen' = seen /\ stayed' = stayed
  BY <1>2 DEF Visit, ghostVars
<1>7. e.type = "Record" => /\ IsRecord(b, i) /\ e.key \in Key /\ BucketOf[e.key] = b
  <2>1. ASSUME e.type = "Record" PROVE IsRecord(b, i)
    BY <1>2, <1>3, <2>1 DEF IsRecord
  <2>2. IsRecord(b, i) => entry[b][i].key \in Key /\ BucketOf[entry[b][i].key] = b
    BY <1>3 DEF TableInv
  <2> QED
    BY <1>2, <2>1, <2>2
\* the entry that is visited
<1> DEFINE Here(k) == e.type = "Record" /\ e.key = k
<1>8. \A k \in Key : Here(k) => BucketOf[k] = b /\ IsEntry(k, i)
  BY <1>2, <1>7 DEF IsEntry
<1>9. ASSUME NEW k \in Key, BucketOf[k] = b, IsEntry(k, i) PROVE Here(k)
  BY <1>2, <1>9 DEF IsEntry, IsRecord
<1>10. ASSUME NEW k \in Key
       PROVE  visited'[t][k] = IF Here(k) THEN visited[t][k] + 1 ELSE visited[t][k]
  <2>1. CASE e.type = "Record"
    <3>1. PICK k0 : k0 = e.key
      OBVIOUS
    <3>2. visited' = [visited EXCEPT ![t][k0] = @ + 1] /\ k0 \in Key
      BY <1>6, <1>7, <2>1, <3>1
    <3>3. visited'[t][k] = IF k = k0 THEN visited[t][k] + 1 ELSE visited[t][k]
      BY <3>2 DEF ReadTypes
    <3> QED
      BY <2>1, <3>1, <3>3
  <2>2. CASE e.type # "Record"
    BY <1>6, <2>2
  <2> QED
    BY <2>1, <2>2
<1>11. visited' \in [Thread -> [Key -> Nat]]
  <2>1. visited \in [Thread -> [Key -> Nat]]
    BY DEF ReadTypes
  <2>2. ASSUME NEW k0 \in Key, visited' = [visited EXCEPT ![t][k0] = @ + 1]
        PROVE  visited' \in [Thread -> [Key -> Nat]]
    BY SMT, <2>1, <2>2
  <2> QED
    BY <1>6, <1>7, <2>1, <2>2
<1>12. ASSUME NEW k \in Key
       PROVE  /\ k \in stayed'[t] => k \in stayed[t]
              /\ k \in stayed'[t] /\ db[k] # Absent => db'[k] # Absent
  <2>1. CASE stayed' = stayed /\ db' = db
    BY <2>1
  <2>2. CASE e.type = "Record" /\ Becomes(e.key, Absent)
    <3>1. PICK k0 : k0 = e.key
      OBVIOUS
    <3>2. /\ stayed'[t] \subseteq stayed[t] /\ k0 \notin stayed'[t]
          /\ \A j \in Key : j # k0 => db'[j] = db[j]
      BY <1>7, <2>2, <3>1, AbsentType, BecomesSeen
    <3> QED
      BY <3>2
  <2> QED
    BY <1>6, <2>1, <2>2
<1>13. ReadTypes'
  <2>1. seen' \in [Thread -> SUBSET Contents] /\ stayed' \in [Thread -> SUBSET Key]
    BY <1>6, AbsentType, BecomesTypes DEF ReadTypes
  <2> QED
    BY <1>6, <1>11, <2>1 DEF ReadTypes
\* what is ahead of it
<1>14. ASSUME NEW k \in Key, NEW j \in Index, i + 1 <= j PROVE IsEntry(k, j)' <=> IsEntry(k, j)
  <2>1. CASE entry' = entry
    BY <1>6, <2>1 DEF IsEntry, IsRecord
  <2>2. CASE entry' = SetType({<<b, i>>}, "Empty")
    <3>1. j # i
      BY SMT, <1>4, <1>14
    <3>2. PICK d \in Bucket : d = BucketOf[k]
      BY HashTableAssumption
    <3>3. entry'[d][j] = entry[d][j]
      <4>1. <<d, j>> \notin {<<b, i>>} /\ entry \in [Bucket -> [Index -> Entry]]
        BY <3>1 DEF TypeOK
      <4>2. SetType({<<b, i>>}, "Empty")[d][j] = entry[d][j]
        BY <4>1 DEF SetType
      <4> QED
        BY <2>2, <4>2
    <3> QED
      BY <1>6, <3>2, <3>3 DEF IsEntry, IsRecord
  <2> QED
    BY <1>6, <2>1, <2>2
<1>15. ASSUME NEW k \in Key PROVE EntryFrom(k, i + 1)' <=> EntryFrom(k, i + 1)
  BY <1>14 DEF EntryFrom
<1>16. ASSUME NEW k \in Key, Here(k) PROVE ~EntryFrom(k, i + 1) /\ EntryFrom(k, i)
  <2>1. IsEntry(k, i) /\ BucketOf[k] = b /\ i <= i
    BY SMT, <1>4, <1>8, <1>16
  <2>2. ASSUME NEW j \in Index, i + 1 <= j, IsEntry(k, j) PROVE FALSE
    <3>1. i = j
      BY <1>3, <2>1, <2>2 DEF TableInv, IsEntry
    <3> QED
      BY SMT, <1>4, <2>2, <3>1
  <2> QED
    BY <1>3, <2>1, <2>2 DEF EntryFrom
<1>17. ASSUME NEW k \in Key, BucketOf[k] = b, ~Here(k)
       PROVE  EntryFrom(k, i + 1) <=> EntryFrom(k, i)
  <2>1. \A j \in Index : IsEntry(k, j) => (i <= j <=> i + 1 <= j)
    <3> SUFFICES ASSUME NEW j \in Index, IsEntry(k, j) PROVE i <= j <=> i + 1 <= j
      OBVIOUS
    <3>1. j # i /\ j \in Nat
      BY <1>4, <1>9, <1>17
    <3> QED
      BY SMT, <1>4, <3>1
  <2> QED
    BY <2>1 DEF EntryFrom
<1> DEFINE Later(k) == b < BucketOf[k] \/ (b = BucketOf[k] /\ EntryFrom(k, i + 1))
<1>18. ASSUME NEW k \in Key
       PROVE  /\ visited'[t][k] = 0 \/ (visited'[t][k] = 1 /\ ~Later(k))
              /\ k \in stayed'[t] => db'[k] # Absent /\ (visited'[t][k] = 1 \/ Later(k))
  <2>1. Ahead(t, k) <=> b < BucketOf[k] \/ (b = BucketOf[k] /\ EntryFrom(k, i))
    BY <1>1, <1>2 DEF Ahead, At
  <2>2. /\ visited[t][k] = 0 \/ (visited[t][k] = 1 /\ ~Ahead(t, k))
        /\ k \in stayed[t] => db[k] # Absent /\ (visited[t][k] = 1 \/ Ahead(t, k))
    BY <1>1 DEF IterInv
  <2>3. k \in stayed'[t] => k \in stayed[t] /\ db'[k] # Absent
    BY <1>12, <2>2
  <2>4. CASE Here(k)
    <3>1. Ahead(t, k) /\ BucketOf[k] = b /\ ~EntryFrom(k, i + 1)
      BY <1>8, <1>16, <2>1, <2>4
    <3>2. visited'[t][k] = 1
      <4>1. visited[t][k] = 0 /\ visited'[t][k] = visited[t][k] + 1
        BY <1>10, <2>2, <2>4, <3>1
      <4> QED
        BY SMT, <4>1
    <3>3. ~(b < BucketOf[k])
      BY SMT, <1>4, <3>1
    <3> QED
      BY <2>3, <3>1, <3>2, <3>3
  <2>5. CASE ~Here(k)
    <3>1. Later(k) <=> Ahead(t, k)
      BY <1>17, <2>1, <2>5
    <3>2. visited'[t][k] = visited[t][k]
      BY <1>10, <2>5
    <3> QED
      BY <2>2, <2>3, <3>1, <3>2
  <2> QED
    BY <2>4, <2>5
<1>19. CASE i + 1 < count[b]
  <2>1. idx' = [idx EXCEPT ![t] = @ + 1] /\ bucket' = bucket /\ pc' = pc
    BY <1>2, <1>19 DEF Visit
  <2>2. idx'[t] = i + 1 /\ bucket'[t] = b /\ pc'[t] = "visit"
    BY <1>1, <1>2, <2>1 DEF Arrays
  <2>3. ASSUME NEW k \in Key PROVE Ahead(t, k)' <=> Later(k)
    <3>1. EntryFrom(k, idx[t])' <=> EntryFrom(k, i + 1)'
      BY <2>2 DEF EntryFrom
    <3> QED
      BY <1>15, <2>2, <3>1 DEF Ahead, At
  <2>4. IterInv(t)'
    BY <1>18, <2>2, <2>3 DEF IterInv, Absent
  <2> QED
    BY <1>1, <1>6, <1>13, <2>4, IterFrame
<1>20. CASE ~(i + 1 < count[b])
  <2>1. Move(t, b + 1, get_slot_num(b))
    BY <1>2, <1>20 DEF Visit
  <2>2. ASSUME NEW k \in Key PROVE Later(k) <=> b + 1 <= BucketOf[k]
    <3>1. b = BucketOf[k] => ~EntryFrom(k, i + 1)
      <4> SUFFICES ASSUME NEW j \in Index, i + 1 <= j, j < count[b] PROVE FALSE
        BY DEF EntryFrom, IsEntry, IsRecord
      <4> QED
        BY SMT, <1>4, <1>20
    <3>2. b < BucketOf[k] <=> b + 1 <= BucketOf[k]
      BY SMT, <1>4, <1>5
    <3> QED
      BY <3>1, <3>2
  <2>3. \A k \in Key : ~(b + 1 <= BucketOf[k]) => BucketOf[k] < b + 1
    BY SMT, <1>4, <1>5
  <2>4. \A k \in Key :
          /\ visited'[t][k] = 0 \/ (visited'[t][k] = 1 /\ BucketOf[k] < b + 1)
          /\ k \in stayed'[t] => db'[k] # Absent /\ (visited'[t][k] = 1 \/ b + 1 <= BucketOf[k])
    BY <1>18, <2>2, <2>3
  <2>5. IterInv(t)'
    BY <1>3, <1>6, <2>1, <2>4, MoveReads
  <2> QED
    BY <1>1, <1>6, <1>13, <2>5, IterFrame
<1> QED
  BY <1>19, <1>20

----------------------------------------------------------------------------
LEMMA OwnReads ==
  ASSUME HashTableInv, TableInv', SearchInv, NEW t \in Thread, Step(t)
  PROVE  ReadInv(t)' /\ ReadTypes'
<1>1. /\ TypeOK /\ Arrays /\ TableInv /\ CallInv(t) /\ ReadTypes /\ ChainInv /\ ReadInv(t)
  BY DEF HashTableInv, SearchInv
<1>2. CASE Start(t)
  BY <1>1, <1>2, StartReads
<1>3. CASE Lock(t) \/ Lookup(t) \/ Link(t) \/ CountEntry(t) \/ MarkAsAllocated(t) \/ Insert(t)
  BY <1>1, <1>3, WriteStepReads
<1>4. CASE Return(t)
  BY <1>1, <1>4, ReturnReads
<1>5. CASE GetCache(t) \/ GetCached(t)
  BY <1>1, <1>5, GetCacheReads
<1>6. CASE GetValid(t)
  BY <1>1, <1>6, GetValidReads
<1>7. CASE GetLoad(t)
  BY <1>1, <1>7, GetLoadReads
<1>8. CASE GetNext(t)
  BY <1>1, <1>8, GetNextReads
<1>9. CASE SlotBegin(t)
  BY <1>1, <1>9, SlotBeginReads
<1>10. CASE Visit(t)
  BY <1>1, <1>10, VisitReads
<1> QED
  BY <1>2, <1>3, <1>4, <1>5, <1>6, <1>7, <1>8, <1>9, <1>10
  DEF Step, MemoryOverflow, PmemOverflow, Fail, Finish, GetReturn, IterationEnds

LEMMA StutterReads == SearchInv /\ UNCHANGED vars => SearchInv'
<1> SUFFICES ASSUME SearchInv, UNCHANGED vars PROVE SearchInv'
  OBVIOUS
<1>1. /\ entry' = entry /\ count' = count /\ chain' = chain /\ cache' = cache /\ call' = call
      /\ pc' = pc /\ key' = key /\ idx' = idx /\ ptr' = ptr /\ got' = got /\ bucket' = bucket
      /\ visited' = visited /\ db' = db /\ seen' = seen /\ stayed' = stayed
  BY DEF vars, tableVars, writeVars, readVars, iterVars, ghostVars
<1>2. ReadTypes' /\ ChainInv'
  BY <1>1 DEF SearchInv, ReadTypes, ChainInv, At
<1>3. ASSUME NEW t \in Thread PROVE ReadInv(t)'
  <2>1. ReadInv(t)
    BY DEF SearchInv
  <2>3. TheKey(t)' = TheKey(t) /\ Keys(t)' = Keys(t)
    BY <1>1 DEF TheKey, Keys
  <2>5. /\ Scanning(t, idx[t])' <=> Scanning(t, idx[t])
        /\ Scanning(t, idx[t] + 1)' <=> Scanning(t, idx[t] + 1)
    <3>1. EntryFrom(TheKey(t), idx[t])' <=> EntryFrom(TheKey(t), idx[t])
      BY <1>1, <2>3 DEF EntryFrom, IsEntry, IsRecord
    <3>2. EntryFrom(TheKey(t), idx[t] + 1)' <=> EntryFrom(TheKey(t), idx[t] + 1)
      BY <1>1, <2>3 DEF EntryFrom, IsEntry, IsRecord
    <3> QED
      BY <1>1, <2>3, <3>1, <3>2 DEF Scanning, At, Absent
  <2>6. GetInv(t)' <=> GetInv(t)
    BY <1>1, <2>3, <2>5 DEF GetInv, At, Absent
  <2>7. \A k : Ahead(t, k)' <=> Ahead(t, k)
    <3> SUFFICES ASSUME NEW k PROVE Ahead(t, k)' <=> Ahead(t, k)
      OBVIOUS
    <3>1. EntryFrom(k, idx[t])' <=> EntryFrom(k, idx[t])
      BY <1>1 DEF EntryFrom, IsEntry, IsRecord
    <3> QED
      BY <1>1, <3>1 DEF Ahead, At
  <2>8. IterInv(t)' <=> IterInv(t)
    BY <1>1, <2>7 DEF IterInv, Absent
  <2> QED
    BY <1>1, <2>1, <2>6, <2>8 DEF ReadInv, At, Writing, Absent
<1> QED
  BY <1>2, <1>3 DEF SearchInv

LEMMA SearchStep == HashTableInv /\ SearchInv /\ [Next]_vars => SearchInv'
<1>1. ASSUME HashTableInv, SearchInv, NEW t \in Thread, Step(t)
      PROVE  SearchInv'
  <2>1. /\ TypeOK /\ Arrays /\ TableInv /\ LocksHeld /\ ReadTypes /\ ChainInv
        /\ \A u \in Thread : CallInv(u) /\ ReadInv(u)
    BY <1>1 DEF HashTableInv, SearchInv
  <2>2. TypeOK' /\ OnlyOf(t) /\ OnlyReads(t) /\ Untouched(t)
    BY <1>1, <2>1, TypeStep, OnlyOwnCall, OnlyOwnReads, TouchesHeld
  <2>3. TableInv'
    BY <1>1, <2>1, <2>2, TableStep
  <2>4. ChainInv'
    BY <1>1, <2>1, <2>2, ChainStep
  <2>5. ReadInv(t)' /\ ReadTypes'
    BY <1>1, <2>3, OwnReads
  <2>6. ASSUME NEW u \in Thread, u # t PROVE ReadInv(u)'
    BY <1>1, <2>1, <2>2, <2>6, OthersRead
  <2> QED
    BY <2>4, <2>5, <2>6 DEF SearchInv
<1> QED
  BY <1>1, StutterReads DEF Next

LEMMA SearchImplies == SearchInv => SearchesAreCurrent
<1> SUFFICES ASSUME SearchInv, NEW t \in Thread
             PROVE  /\ ptr[t] # None
                    /\ At(t, "return") /\ call[t].op = "Get" => got[t] \in seen[t]
                    /\ \A k \in Key : visited[t][k] <= 1
                    /\ At(t, "return") => \A k \in stayed[t] : visited[t][k] = 1
  BY DEF SearchesAreCurrent
<1>1. ReadTypes /\ ReadInv(t)
  BY DEF SearchInv
<1>2. ptr[t] # None
  <2>1. ptr[t] \in Nat
    BY <1>1 DEF ReadTypes
  <2> QED
    BY <2>1, GetAssumption
<1>3. At(t, "return") /\ call[t].op = "Get" => got[t] \in seen[t]
  BY <1>1 DEF ReadInv, GetInv
<1>4. \A k \in Key : visited[t][k] <= 1
  <2>1. \A k \in Key : visited[t][k] = 0 \/ visited[t][k] = 1
    BY <1>1 DEF ReadInv, IterInv
  <2> QED
    BY SMT, <2>1
<1>5. At(t, "return") => \A k \in stayed[t] : visited[t][k] = 1
  <2> SUFFICES ASSUME At(t, "return"), NEW k \in stayed[t] PROVE visited[t][k] = 1
    OBVIOUS
  <2>1. k \in Key /\ ~Ahead(t, k)
    BY <1>1 DEF ReadTypes, Ahead, At
  <2> QED
    BY <1>1, <2>1 DEF ReadInv, IterInv
<1> QED
  BY <1>2, <1>3, <1>4, <1>5

(***************************************************************************)
(* Whatever the writers and the cleaner do meanwhile, Lookup<false> stays  *)
(* on the chain of HashBuckets and returns what its key had at some time   *)
(* during the search, and nothing only if there was nothing at some time.  *)
(* An iteration comes once to every key that stays, and never twice to any *)
(* (HashBucketIterator, HashSlotIterator).                                 *)
(***************************************************************************)
THEOREM SearchesFindTheCurrent == FreshMemory /\ Spec => []SearchesAreCurrent
<1>1. FreshMemory /\ Init => HashTableInv /\ SearchInv
  BY InitHolds, SearchInit
<1>2. HashTableInv /\ SearchInv /\ [Next]_vars => HashTableInv' /\ SearchInv'
  BY StepKeeps, SearchStep
<1>3. SearchInv => SearchesAreCurrent
  BY SearchImplies
<1> QED
  BY <1>1, <1>2, <1>3, PTL DEF Spec
=============================================================================
