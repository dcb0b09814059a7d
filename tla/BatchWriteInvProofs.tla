------------------------ MODULE BatchWriteInvProofs -------------------------
(***************************************************************************)
(* Proofs about BatchWrite, first part: its inductive invariant BatchInv,  *)
(* the types, and what a step leaves alone.                                *)
(***************************************************************************)
EXTENDS BatchWrite, FiniteSetTheorems, TLAPS

USE Zenon

\* A record that recovery would keep or compare.
Live(o) == pm[o].status \in {"Normal", "Outdated"}

\* The record of the call is in the space it allocated for k.
Written(t, k) ==
  /\ k \in DOMAIN space[t]
  /\ pc[t] \in {"commit", "publish"} \/ (pc[t] = "write" /\ k \notin todo[t])

\* A space without a record that counts.
Loose(o) ==
  o \in free \/ o \in garbage
  \/ \E t \in Thread : \E k \in DOMAIN space[t] : space[t][k] = o /\ ~Written(t, k)

\* Timestamps are left for the calls that have not taken one.
StampsLeft ==
  IsFiniteSet(Unstamped) /\ clock + Cardinality(Unstamped) <= MaxTs

\* Who holds a key and who may use the log of a slot.
HasLocked(t, k) ==
  k \in Keys(t) /\ pc[t] # "idle" /\ (pc[t] = "lock" => k \notin todo[t])

LockInv ==
  /\ \A t \in Thread : pc[t] # "idle" => mode = "up" /\ access[SlotOf[t]] = t
  /\ \A t \in Thread, k \in Key : HasLocked(t, k) => lock[k] = t

\* How far a call is.
CallInv(t) ==
  /\ pc[t] = "idle" => Keys(t) = {}
  /\ pc[t] \in {"idle", "lock", "stamp", "remove", "release", "fail"} => DOMAIN space[t] = {}
  /\ pc[t] \in {"encode", "process", "commit"} => kind[t] = "batch"
  /\ pc[t] # "idle" /\ kind[t] = "single" => \E k \in Key : Keys(t) = {k}
  /\ pc[t] = "lock" => todo[t] \subseteq Keys(t)
  /\ pc[t] = "prepare" => /\ todo[t] \subseteq Keys(t)
                          /\ todo[t] \cap DOMAIN space[t] = {}
                          /\ kind[t] = "single" => todo[t] = Keys(t)
  /\ pc[t] = "write" => /\ todo[t] \subseteq DOMAIN space[t]
                        /\ kind[t] = "single" =>
                             DOMAIN space[t] = Keys(t) /\ todo[t] = Keys(t)
  /\ pc[t] = "publish" => todo[t] = DOMAIN space[t]

\* A log is being processed while its batch is being written.
Processing(t) == kind[t] = "batch" /\ pc[t] \in {"write", "commit"}

LogInv ==
  /\ \A t \in Thread :
       /\ Processing(t) => log[SlotOf[t]].stage = "Processing"
       /\ Processing(t) \/ pc[t] = "process" => log[SlotOf[t]].offs = Spaces(t)
  /\ \A s \in Slot : log[s].stage = "Processing" =>
       \/ mode = "rollback" /\ s \in scan
       \/ \E t \in Thread : SlotOf[t] = s /\ Processing(t)

\* Every space is in one place, the part of PMem included that was not restored yet.
ChainPlaces ==
  \A k \in Key : \A o \in chain[k] :
    o \notin free /\ o \notin garbage /\ \A j \in Key : o \in chain[j] => j = k

SpacePlaces ==
  \A t \in Thread : \A k \in DOMAIN space[t] :
    /\ space[t][k] \notin free /\ space[t][k] \notin garbage
    /\ \A j \in Key : space[t][k] \notin chain[j]
    /\ \A u \in Thread : \A j \in DOMAIN space[u] :
         space[u][j] = space[t][k] => u = t /\ j = k

Placed ==
  mode = "up" =>
    \A o \in Offset : \/ o \in free \/ o \in garbage
                      \/ \E k \in Key : o \in chain[k]
                      \/ \E t \in Thread : \E k \in DOMAIN space[t] : space[t][k] = o

DownPlaces ==
  /\ mode # "up" => garbage = {} /\ \A t \in Thread : pc[t] = "idle"
  /\ mode = "rollback" => free = {} /\ \A k \in Key : chain[k] = {}
  /\ mode = "restore" =>
       \A o \in Offset : IF o \in scan THEN o \notin free /\ \A k \in Key : o \notin chain[k]
                         ELSE o \in free \/ \E k \in Key : o \in chain[k]
  /\ mode = "restore" => \A k \in Key : \A o \in chain[k] : o = index[k]

PlaceInv == free \cap garbage = {} /\ ChainPlaces /\ SpacePlaces /\ Placed /\ DownPlaces

\* No two records of a key have the same timestamp; none is from the future.
RecordInv ==
  /\ \A o \in Offset : Live(o) => /\ pm[o].key \in Key /\ pm[o].ts >= 1
                                  /\ mode = "up" => pm[o].ts <= clock
                                  /\ mode = "restore" /\ o \notin scan => pm[o].ts <= newest
  /\ \A o, n \in Offset :
       Live(o) /\ Live(n) /\ pm[o].key = pm[n].key /\ pm[o].ts = pm[n].ts => o = n

\* The versions of a key; the entry points to the newest.
ChainInv ==
  \A k \in Key :
    /\ \A o \in chain[k] : Live(o) /\ pm[o].key = k /\ pm[o].ts <= pm[index[k]].ts
    /\ IF index[k] = kNullPMemOffset THEN chain[k] = {} ELSE index[k] \in chain[k]

\* A space that is not in use holds no value.  It may hold the record of a deletion,
\* but then every value of the key is newer.
LooseInv ==
  /\ mode = "up" => \A o \in Offset : Loose(o) =>
       /\ pm[o].status # "Normal"
       /\ pm[o].status = "Outdated" =>
            \A n \in Offset : pm[n].status = "Normal" /\ pm[n].key = pm[o].key
                              => pm[o].ts < pm[n].ts
  /\ mode = "restore" => \A o \in free : ~Live(o)

\* What a call with a timestamp knows of its keys.
Stamped(t) == pc[t] \in {"prepare", "encode", "process", "write", "commit", "publish"}
Nothing(t, k) ==
  /\ pc[t] \in {"prepare", "encode", "process", "write", "commit"}
  /\ k \in Keys(t) /\ k \notin DOMAIN space[t] /\ (pc[t] = "prepare" => k \notin todo[t])

StampOf(t) ==
  /\ ts[t] \in 1 .. clock
  /\ \A k \in Keys(t) : pc[t] # "publish" \/ k \in DOMAIN space[t] =>
       \A n \in Offset : Live(n) /\ pm[n].key = k /\ ~(Written(t, k) /\ n = space[t][k])
                         => pm[n].ts < ts[t]
  /\ \A k \in DOMAIN space[t] : Written(t, k) =>
       pm[space[t][k]] = [key |-> k, ts |-> ts[t],
                          status |-> IF ops[t][k] = "Put" THEN "Normal" ELSE "Outdated"]
  /\ \A k \in Key : Nothing(t, k) => ops[t][k] = "Delete" /\ ~HasValue(k)

StampInv == \A t \in Thread : Stamped(t) => StampOf(t)

BatchInv ==
  /\ TypeOK /\ StampsLeft /\ LockInv /\ (\A t \in Thread : CallInv(t)) /\ LogInv
  /\ PlaceInv /\ RecordInv /\ ChainInv /\ LooseInv /\ StampInv

----------------------------------------------------------------------------
(***************************************************************************)
(* Types.                                                                  *)
(***************************************************************************)
PmType == [Offset -> [key : Key \cup {0}, ts : Timestamp,
                      status : {"Empty", "Normal", "Outdated", "Dirty"}]]
LogType == [Slot -> [stage : {"Initializing", "Processing", "Committed"},
                     offs : SUBSET Offset]]
SpaceType == UNION {[K -> Offset] : K \in SUBSET Key}
Label == {"idle", "lock", "stamp", "prepare", "encode", "process", "write", "commit",
          "publish", "remove", "release", "fail"}

StoreType ==
  /\ pm \in PmType /\ log \in LogType
  /\ index \in [Key -> Offset \cup {kNullPMemOffset}]
  /\ chain \in [Key -> SUBSET Offset]
  /\ free \subseteq Offset /\ garbage \subseteq Offset
  /\ clock \in Timestamp /\ newest \in Timestamp
  /\ mode \in {"up", "rollback", "restore"}
  /\ scan \subseteq Slot \cup Offset
  /\ crashes \in 0 .. MaxCrashes

ThreadType ==
  /\ lock \in [Key -> Thread \cup {None}]
  /\ access \in [Slot -> Thread \cup {None}]
  /\ pc \in [Thread -> Label]
  /\ kind \in [Thread -> {"single", "batch"}]
  /\ ops \in [Thread -> Batches \cup {NoOps}]
  /\ todo \in [Thread -> SUBSET Key]
  /\ ts \in [Thread -> Timestamp]
  /\ space \in [Thread -> SpaceType]
  /\ \A t \in Thread : DOMAIN space[t] \subseteq Keys(t)

LEMMA TypeParts == TypeOK <=> StoreType /\ ThreadType
  BY DEF TypeOK, StoreType, ThreadType, PmType, LogType, SpaceType, Label

LEMMA TypePartsNext == TypeOK' <=> StoreType' /\ ThreadType'
  BY DEF TypeOK, StoreType, ThreadType, PmType, LogType, SpaceType, Label, Keys

\* The operations of a call are a function from keys.
LEMMA OpsType ==
  ASSUME NEW o \in Batches \cup {NoOps}
  PROVE  DOMAIN o \subseteq Key /\ \A k \in DOMAIN o : o[k] \in {"Put", "Delete"}
  BY DEF Batches, NoOps

LEMMA NoSpaceType == NoSpace \in SpaceType /\ DOMAIN NoSpace = {}
<1>1. NoSpace \in [{} -> Offset] /\ DOMAIN NoSpace = {}
  BY DEF NoSpace
<1> QED
  BY <1>1 DEF SpaceType

LEMMA SpaceTypeDef ==
  ASSUME NEW f \in SpaceType
  PROVE  /\ DOMAIN f \subseteq Key /\ f \in [DOMAIN f -> Offset]
         /\ \A k \in DOMAIN f : f[k] \in Offset
  BY DEF SpaceType

LEMMA SpaceTypeIntro ==
  ASSUME NEW K \in SUBSET Key, NEW f \in [K -> Offset]
  PROVE  f \in SpaceType /\ DOMAIN f = K
  BY DEF SpaceType

LEMMA KeysType == ASSUME ThreadType, NEW t \in Thread PROVE Keys(t) \subseteq Key
<1>1. ops[t] \in Batches \cup {NoOps}
  BY DEF ThreadType
<1> QED
  BY <1>1, OpsType DEF Keys

\* The spaces of a call.
LEMMA SpacesOf ==
  ASSUME ThreadType, NEW t \in Thread
  PROVE  /\ Spaces(t) \subseteq Offset
         /\ \A o : o \in Spaces(t) <=> \E k \in DOMAIN space[t] : space[t][k] = o
  BY SMT, SpaceTypeDef DEF ThreadType, Spaces

\* The parts that a step leaves alone keep their types.
LEMMA StoreTypeKept ==
  ASSUME StoreType, UNCHANGED <<pmemVars, storeVars, clock, recVars, crashes>>
  PROVE  StoreType'
  BY DEF StoreType, pmemVars, storeVars, recVars, PmType, LogType

LEMMA ThreadTypeKept ==
  ASSUME ThreadType, UNCHANGED <<lockVars, threadVars>>
  PROVE  ThreadType'
  BY DEF ThreadType, lockVars, threadVars, Keys

\* A step of a call that takes no lock and no space.
LEMMA ThreadTypeGoTo ==
  ASSUME ThreadType, NEW t \in Thread, NEW l \in Label, GoTo(t, l), NEW S \in SUBSET Key,
         todo' = [todo EXCEPT ![t] = S] \/ todo' = todo,
         UNCHANGED <<lockVars, kind, ops, ts, space>>
  PROVE  ThreadType'
<1>1. pc' \in [Thread -> Label] /\ todo' \in [Thread -> SUBSET Key]
  BY DEF ThreadType, GoTo
<1> QED
  BY <1>1 DEF ThreadType, lockVars, Keys

LEMMA CallType ==
  ASSUME StoreType, ThreadType, NEW t \in Thread, \A u \in Thread : CallInv(u), Call(t)
  PROVE  StoreType' /\ ThreadType'
<1>1. StoreType'
  BY StoreTypeKept DEF Call
<1>2. PICK c \in CallsOf[t] : /\ kind' = [kind EXCEPT ![t] = c.kind]
                              /\ ops' = [ops EXCEPT ![t] = c.ops]
                              /\ todo' = [todo EXCEPT ![t] = DOMAIN c.ops]
  BY DEF Call
<1>3. c.kind \in {"single", "batch"} /\ c.ops \in Batches
  BY SMT, BatchAssumption DEF Calls
<1>4. DOMAIN c.ops \subseteq Key
  BY <1>3, OpsType
<1>5. /\ access' = [access EXCEPT ![SlotOf[t]] = t] /\ pc' = [pc EXCEPT ![t] = "lock"]
      /\ lock' = lock /\ ts' = ts /\ space' = space /\ pc[t] = "idle"
  BY DEF Call, GoTo, At
<1>6. /\ access' \in [Slot -> Thread \cup {None}] /\ pc' \in [Thread -> Label]
      /\ kind' \in [Thread -> {"single", "batch"}] /\ todo' \in [Thread -> SUBSET Key]
      /\ ops' \in [Thread -> Batches \cup {NoOps}]
  BY <1>2, <1>3, <1>4, <1>5 DEF ThreadType, Label
<1>7. DOMAIN space[t] = {}
  BY <1>5 DEF CallInv
<1>8. \A u \in Thread : DOMAIN space'[u] \subseteq DOMAIN ops'[u]
  BY <1>2, <1>5, <1>7 DEF ThreadType, Keys
<1> QED
  BY <1>1, <1>5, <1>6, <1>8 DEF ThreadType, Keys

LEMMA RangeLockType ==
  ASSUME StoreType, ThreadType, NEW t \in Thread, RangeLock(t)
  PROVE  StoreType' /\ ThreadType'
<1>1. StoreType'
  BY StoreTypeKept DEF RangeLock
<1>2. PICK k : k = Min(todo[t])
  OBVIOUS
<1>3. /\ lock' = [lock EXCEPT ![k] = t] /\ todo' = [todo EXCEPT ![t] = @ \ {k}]
      /\ pc' = [pc EXCEPT ![t] = IF todo[t] = {k} THEN "stamp" ELSE "lock"]
      /\ UNCHANGED <<access, kind, ops, ts, space>>
  BY <1>2 DEF RangeLock, GoTo
<1>4. /\ lock' \in [Key -> Thread \cup {None}] /\ todo' \in [Thread -> SUBSET Key]
      /\ pc' \in [Thread -> Label]
  BY <1>3 DEF ThreadType, Label
<1> QED
  BY <1>1, <1>3, <1>4 DEF ThreadType, Keys

LEMMA GetTimestampType ==
  ASSUME StoreType, ThreadType, StampsLeft, NEW t \in Thread, GetTimestamp(t)
  PROVE  StoreType' /\ ThreadType' /\ clock + 1 \in Timestamp
<1>1. /\ pc[t] = "stamp" /\ clock' = clock + 1
      /\ ts' = [ts EXCEPT ![t] = clock + 1] /\ todo' = [todo EXCEPT ![t] = Keys(t)]
      /\ pc' = [pc EXCEPT ![t] = "prepare"]
      /\ UNCHANGED <<pmemVars, storeVars, lockVars, recVars, kind, ops, space, crashes>>
  BY DEF GetTimestamp, At, GoTo
<1>2. t \in Unstamped /\ IsFiniteSet(Unstamped)
  BY <1>1 DEF Unstamped, StampsLeft
<1>3. Cardinality(Unstamped) \in Nat \ {0}
  BY <1>2, FS_CardinalityType, FS_EmptySet
<1>4. clock + 1 \in Timestamp
  BY SMT, <1>3, BatchAssumption DEF StampsLeft, StoreType, Timestamp
<1>5. StoreType'
  BY <1>1, <1>4 DEF StoreType, pmemVars, storeVars, recVars, PmType, LogType
<1>6. Keys(t) \in SUBSET Key
  BY OpsType DEF ThreadType, Keys
<1>7. /\ ts' \in [Thread -> Timestamp] /\ todo' \in [Thread -> SUBSET Key]
      /\ pc' \in [Thread -> Label]
  BY <1>1, <1>4, <1>6 DEF ThreadType, Label
<1> QED
  BY <1>1, <1>4, <1>5, <1>7 DEF ThreadType, lockVars, Keys

LEMMA PrepareNothingType ==
  ASSUME StoreType, ThreadType, NEW t \in Thread, PrepareNothing(t)
  PROVE  StoreType' /\ ThreadType'
<1>1. StoreType'
  BY StoreTypeKept DEF PrepareNothing
<1>2. PICK k \in todo[t] :
        /\ todo' = [todo EXCEPT ![t] = @ \ {k}]
        /\ GoTo(t, IF kind[t] = "single" THEN "release"
                   ELSE IF todo[t] = {k} THEN "encode" ELSE "prepare")
  BY DEF PrepareNothing
<1>3. UNCHANGED <<lockVars, kind, ops, ts, space>>
  BY DEF PrepareNothing
<1>4. PICK S \in SUBSET Key : S = todo[t] \ {k}
  BY DEF ThreadType
<1>5. todo' = [todo EXCEPT ![t] = S]
  BY <1>2, <1>4
<1> QED
  BY <1>1, <1>2, <1>3, <1>5, ThreadTypeGoTo DEF Label

LEMMA PrepareType ==
  ASSUME StoreType, ThreadType, NEW t \in Thread, NEW k \in todo[t], NEW o \in free, k \in Keys(t),
         /\ free' = free \ {o}
         /\ space' = [space EXCEPT ![t] =
                        [j \in DOMAIN @ \cup {k} |-> IF j = k THEN o ELSE @[j]]]
         /\ IF todo[t] = {k}
            THEN GoTo(t, IF kind[t] = "batch" THEN "encode" ELSE "write")
            ELSE UNCHANGED pc
         /\ todo' = [todo EXCEPT ![t] = IF kind[t] = "batch" THEN @ \ {k} ELSE {k}]
         /\ UNCHANGED <<pmemVars, index, chain, garbage, lockVars, clock, recVars,
                        kind, ops, ts, crashes>>
  PROVE  /\ StoreType' /\ ThreadType'
         /\ DOMAIN space'[t] = DOMAIN space[t] \cup {k}
         /\ space'[t][k] = o
         /\ \A j \in DOMAIN space[t] : j # k => space'[t][j] = space[t][j]
         /\ \A u \in Thread : u # t => space'[u] = space[u]
<1>1. StoreType'
  BY DEF StoreType, pmemVars, recVars, PmType, LogType
<1>2. k \in Key /\ o \in Offset
  BY DEF ThreadType, StoreType
<1>3. PICK f : f = [j \in DOMAIN space[t] \cup {k} |-> IF j = k THEN o ELSE space[t][j]]
  OBVIOUS
<1>4. /\ DOMAIN space[t] \subseteq Key
      /\ \A j \in DOMAIN space[t] : space[t][j] \in Offset
  BY SpaceTypeDef DEF ThreadType
<1>5. f \in SpaceType /\ DOMAIN f = DOMAIN space[t] \cup {k}
  <2>1. PICK K \in SUBSET Key : K = DOMAIN space[t] \cup {k}
    BY <1>2, <1>4
  <2>2. f \in [K -> Offset]
    BY <1>2, <1>3, <1>4, <2>1
  <2> QED
    BY <2>1, <2>2, SpaceTypeIntro
<1>6. space' = [space EXCEPT ![t] = f]
  BY <1>3
<1>7. space' \in [Thread -> SpaceType] /\ space'[t] = f /\ \A u \in Thread : u # t => space'[u] = space[u]
  BY <1>5, <1>6 DEF ThreadType
<1>8. todo' \in [Thread -> SUBSET Key] /\ pc' \in [Thread -> Label]
  BY <1>2 DEF ThreadType, GoTo, Label
<1>9. \A u \in Thread : DOMAIN space'[u] \subseteq DOMAIN ops[u]
  BY <1>5, <1>7 DEF ThreadType, Keys
<1>10. ThreadType'
  BY <1>7, <1>8, <1>9 DEF ThreadType, lockVars, Keys
<1> QED
  BY <1>1, <1>3, <1>5, <1>7, <1>10

LEMMA OverflowType ==
  ASSUME StoreType, ThreadType, NEW t \in Thread, PrepareOverflow(t)
  PROVE  StoreType' /\ ThreadType'
<1>1. /\ free' = Spaces(t) /\ space' = [space EXCEPT ![t] = NoSpace]
      /\ pc' = [pc EXCEPT ![t] = "fail"]
      /\ UNCHANGED <<pmemVars, index, chain, garbage, lockVars, clock, recVars,
                     kind, ops, todo, ts, crashes>>
  BY DEF PrepareOverflow, GoTo
<1>2. StoreType'
  BY <1>1, SpacesOf DEF StoreType, pmemVars, recVars, PmType, LogType
<1>3. /\ space' \in [Thread -> SpaceType] /\ pc' \in [Thread -> Label]
      /\ \A u \in Thread : DOMAIN space'[u] \subseteq DOMAIN ops[u]
  BY <1>1, NoSpaceType DEF ThreadType, Label, Keys
<1> QED
  BY <1>1, <1>2, <1>3 DEF ThreadType, lockVars, Keys

LEMMA SetStageType ==
  ASSUME log \in LogType, NEW s \in Slot,
         NEW stage \in {"Initializing", "Processing", "Committed"}, SetStage(s, stage)
  PROVE  /\ log' \in LogType
         /\ log'[s].stage = stage /\ log'[s].offs = log[s].offs
         /\ \A r \in Slot : r # s => log'[r] = log[r]
  BY DEF SetStage, LogType

LEMMA EncodeType ==
  ASSUME StoreType, ThreadType, NEW t \in Thread, EncodeTo(t)
  PROVE  StoreType' /\ ThreadType'
<1>1. /\ log' = [log EXCEPT ![SlotOf[t]] = [stage |-> "Initializing", offs |-> Spaces(t)]]
      /\ UNCHANGED <<pm, storeVars, lockVars, clock, recVars, kind, ops, todo, ts, space, crashes>>
      /\ GoTo(t, "process")
  BY DEF EncodeTo
<1>2. log' \in LogType
  BY <1>1, SpacesOf, BatchAssumption DEF StoreType, LogType
<1>3. StoreType'
  BY <1>1, <1>2 DEF StoreType, storeVars, recVars, PmType, LogType
<1> QED
  BY <1>1, <1>3, ThreadTypeGoTo DEF Label

LEMMA MarkType ==
  ASSUME StoreType, ThreadType, NEW t \in Thread,
         NEW stage \in {"Initializing", "Processing", "Committed"}, SetStage(SlotOf[t], stage),
         NEW l \in Label, GoTo(t, l), todo' = [todo EXCEPT ![t] = DOMAIN space[t]],
         UNCHANGED <<pm, storeVars, lockVars, clock, recVars, kind, ops, ts, space, crashes>>
  PROVE  StoreType' /\ ThreadType'
<1>1. SlotOf[t] \in Slot
  BY BatchAssumption
<1>2. log' \in LogType
  BY <1>1, SetStageType DEF StoreType
<1>3. StoreType'
  BY <1>2 DEF StoreType, storeVars, recVars, PmType, LogType
<1>4. PICK S \in SUBSET Key : S = DOMAIN space[t]
  BY SpaceTypeDef DEF ThreadType
<1>5. todo' = [todo EXCEPT ![t] = S]
  BY <1>4
<1> QED
  BY <1>3, <1>5, ThreadTypeGoTo

LEMMA MarkProcessingType ==
  ASSUME StoreType, ThreadType, NEW t \in Thread, MarkProcessing(t)
  PROVE  StoreType' /\ ThreadType'
<1>1. PICK l \in Label : l = IF DOMAIN space[t] = {} THEN "commit" ELSE "write"
  BY DEF Label
<1> QED
  BY <1>1, MarkType DEF MarkProcessing

LEMMA MarkCommittedType ==
  ASSUME StoreType, ThreadType, NEW t \in Thread, MarkCommitted(t)
  PROVE  StoreType' /\ ThreadType'
<1>1. PICK l \in Label : l = IF DOMAIN space[t] = {} THEN "release" ELSE "publish"
  BY DEF Label
<1> QED
  BY <1>1, MarkType DEF MarkCommitted

\* What Persist makes of the space it writes to.
Record(t, k) ==
  [key |-> k, ts |-> ts[t], status |-> IF ops[t][k] = "Put" THEN "Normal" ELSE "Outdated"]

LEMMA PersistType ==
  ASSUME StoreType, ThreadType, NEW t \in Thread, NEW k \in DOMAIN space[t],
         Persist(space[t][k], k, t)
  PROVE  /\ pm' \in PmType /\ space[t][k] \in Offset
         /\ pm'[space[t][k]] = Record(t, k)
         /\ \A o \in Offset : o # space[t][k] => pm'[o] = pm[o]
<1>1. k \in Key /\ space[t][k] \in Offset /\ ts[t] \in Timestamp
  BY SpaceTypeDef DEF ThreadType
<1>2. Record(t, k) \in [key : Key \cup {0}, ts : Timestamp,
                        status : {"Empty", "Normal", "Outdated", "Dirty"}]
  BY <1>1 DEF Record
<1>3. pm' = [pm EXCEPT ![space[t][k]] = Record(t, k)]
  BY DEF Persist, Record
<1> QED
  BY <1>1, <1>2, <1>3 DEF StoreType, PmType

LEMMA StringWriteType ==
  ASSUME StoreType, ThreadType, NEW t \in Thread, CallInv(t), StringWrite(t)
  PROVE  StoreType' /\ ThreadType'
<1>1. PICK k \in todo[t] : /\ Persist(space[t][k], k, t)
                           /\ todo' = [todo EXCEPT ![t] = @ \ {k}]
                           /\ GoTo(t, IF todo[t] = {k} THEN "commit" ELSE "write")
  BY DEF StringWrite
<1>2. UNCHANGED <<log, storeVars, lockVars, clock, recVars, kind, ops, ts, space, crashes>>
  BY DEF StringWrite
<1>3. k \in DOMAIN space[t]
  BY DEF StringWrite, At, CallInv
<1>4. StoreType'
  BY <1>1, <1>2, <1>3, PersistType DEF StoreType, storeVars, recVars, LogType, PmType
<1>5. PICK S \in SUBSET Key : S = todo[t] \ {k}
  BY DEF ThreadType
<1>6. todo' = [todo EXCEPT ![t] = S]
  BY <1>1, <1>5
<1> QED
  BY <1>1, <1>2, <1>4, <1>6, ThreadTypeGoTo DEF Label

LEMMA PersistSingleType ==
  ASSUME StoreType, ThreadType, NEW t \in Thread, CallInv(t), PersistSingle(t)
  PROVE  StoreType' /\ ThreadType'
<1>1. PICK k \in todo[t] : Persist(space[t][k], k, t)
  BY DEF PersistSingle
<1>2. /\ UNCHANGED <<log, storeVars, lockVars, clock, recVars, kind, ops, todo, ts, space, crashes>>
      /\ GoTo(t, "publish")
  BY DEF PersistSingle
<1>3. k \in DOMAIN space[t]
  BY DEF PersistSingle, At, CallInv
<1>4. StoreType'
  BY <1>1, <1>2, <1>3, PersistType DEF StoreType, storeVars, recVars, LogType, PmType
<1> QED
  BY <1>2, <1>4, ThreadTypeGoTo DEF Label

LEMMA PublishType ==
  ASSUME StoreType, ThreadType, NEW t \in Thread, CallInv(t), At(t, "publish"), NEW k \in todo[t],
         /\ index' = [index EXCEPT ![k] = space[t][k]]
         /\ chain' = [chain EXCEPT ![k] = @ \cup {space[t][k]}]
         /\ todo' = [todo EXCEPT ![t] = @ \ {k}]
         /\ space' = [space EXCEPT ![t] = [j \in DOMAIN @ \ {k} |-> @[j]]]
         /\ GoTo(t, IF todo[t] # {k} THEN "publish"
                    ELSE IF kind[t] = "batch" THEN "release" ELSE "remove")
         /\ UNCHANGED <<pmemVars, free, garbage, lockVars, clock, recVars, kind, ops, ts, crashes>>
  PROVE  /\ StoreType' /\ ThreadType'
         /\ k \in DOMAIN space[t] /\ k \in Key /\ space[t][k] \in Offset
         /\ DOMAIN space'[t] = DOMAIN space[t] \ {k}
         /\ \A j \in DOMAIN space[t] : j # k => space'[t][j] = space[t][j]
         /\ \A u \in Thread : u # t => space'[u] = space[u]
<1>1. /\ k \in DOMAIN space[t] /\ k \in Key /\ space[t][k] \in Offset
      /\ DOMAIN space[t] \subseteq Key
      /\ \A j \in DOMAIN space[t] : space[t][j] \in Offset
  BY SpaceTypeDef DEF At, CallInv, ThreadType
<1>2. StoreType'
  BY <1>1 DEF StoreType, pmemVars, recVars, PmType, LogType
<1>3. PICK f : f = [j \in DOMAIN space[t] \ {k} |-> space[t][j]]
  OBVIOUS
<1>4. f \in SpaceType /\ DOMAIN f = DOMAIN space[t] \ {k}
  <2>1. PICK K \in SUBSET Key : K = DOMAIN space[t] \ {k}
    BY <1>1
  <2>2. f \in [K -> Offset]
    BY <1>1, <1>3, <2>1
  <2> QED
    BY <2>1, <2>2, SpaceTypeIntro
<1>5. space' = [space EXCEPT ![t] = f]
  BY <1>3
<1>6. /\ space' \in [Thread -> SpaceType] /\ space'[t] = f
      /\ \A u \in Thread : u # t => space'[u] = space[u]
  BY <1>4, <1>5 DEF ThreadType
<1>7. todo' \in [Thread -> SUBSET Key] /\ pc' \in [Thread -> Label]
  BY DEF ThreadType, GoTo, Label
<1>8. \A u \in Thread : DOMAIN space'[u] \subseteq DOMAIN ops[u]
  BY <1>4, <1>6 DEF ThreadType, Keys
<1>9. ThreadType'
  BY <1>6, <1>7, <1>8 DEF ThreadType, lockVars, Keys
<1> QED
  BY <1>1, <1>2, <1>3, <1>4, <1>6, <1>9

\* Unlinked versions go to the garbage; the values among them become Dirty.
LEMMA UnlinkType ==
  ASSUME StoreType, NEW k \in Key, NEW S \in SUBSET chain[k], Unlink(k, S)
  PROVE  /\ pm' \in PmType /\ chain' \in [Key -> SUBSET Offset] /\ garbage' \subseteq Offset
         /\ chain'[k] = chain[k] \ S /\ \A j \in Key : j # k => chain'[j] = chain[j]
         /\ garbage' = garbage \cup S
         /\ \A o \in Offset : /\ pm'[o].key = pm[o].key /\ pm'[o].ts = pm[o].ts
                              /\ pm'[o].status = IF o \in S /\ pm[o].status = "Normal"
                                                 THEN "Dirty" ELSE pm[o].status
                              /\ o \notin S => pm'[o] = pm[o]
  BY SMT DEF StoreType, Unlink, PmType

LEMMA RemoveOutDatedType ==
  ASSUME StoreType, ThreadType, NEW t \in Thread, RemoveOutDated(t)
  PROVE  StoreType' /\ ThreadType'
<1>1. PICK k \in Keys(t), min \in Timestamp : Unlink(k, OutDated(k, min))
  BY DEF RemoveOutDated
<1>2. /\ UNCHANGED <<log, index, free, lockVars, clock, recVars, kind, ops, todo, ts, space, crashes>>
      /\ GoTo(t, "release")
  BY DEF RemoveOutDated
<1>3. k \in Key
  BY OpsType DEF ThreadType, Keys
<1>4. OutDated(k, min) \in SUBSET chain[k]
  BY DEF OutDated
<1>5. StoreType'
  BY <1>1, <1>2, <1>3, <1>4, UnlinkType DEF StoreType, recVars, LogType, PmType
<1> QED
  BY <1>2, <1>5, ThreadTypeGoTo DEF Label

LEMMA ReturnType ==
  ASSUME StoreType, ThreadType, NEW t \in Thread, CallInv(t), Return(t)
  PROVE  StoreType' /\ ThreadType'
<1>1. StoreType'
  BY StoreTypeKept DEF Return
<1>2. /\ lock' = [k \in Key |-> IF lock[k] = t THEN None ELSE lock[k]]
      /\ access' = [s \in Slot |-> IF access[s] = t THEN None ELSE access[s]]
      /\ ops' = [ops EXCEPT ![t] = NoOps] /\ todo' = [todo EXCEPT ![t] = {}]
      /\ ts' = [ts EXCEPT ![t] = 0] /\ pc' = [pc EXCEPT ![t] = "idle"]
      /\ kind' = kind /\ space' = space
  BY DEF Return, GoTo
<1>3. /\ lock' \in [Key -> Thread \cup {None}] /\ access' \in [Slot -> Thread \cup {None}]
      /\ todo' \in [Thread -> SUBSET Key] /\ pc' \in [Thread -> Label]
  BY <1>2 DEF ThreadType, Label
<1>4. ops' \in [Thread -> Batches \cup {NoOps}]
  BY <1>2 DEF ThreadType
<1>5. ts' \in [Thread -> Timestamp]
  BY SMT, <1>2, BatchAssumption DEF ThreadType, Timestamp
<1>6. DOMAIN space[t] = {}
  BY DEF Return, At, CallInv
<1>7. \A u \in Thread : DOMAIN space'[u] \subseteq DOMAIN ops'[u]
  BY <1>2, <1>6 DEF ThreadType, Keys
<1> QED
  BY <1>1, <1>2, <1>3, <1>4, <1>5, <1>7 DEF ThreadType, Keys

LEMMA CleanOutDatedType ==
  ASSUME StoreType, ThreadType, ChainInv, NEW k \in Key, CleanOutDated(k)
  PROVE  StoreType' /\ ThreadType'
<1>1. PICK min \in 1 .. MaxTs + 1 : \E S :
        /\ S = OutDated(k, min) \cup
                 (IF pm[index[k]].status = "Outdated" /\ pm[index[k]].ts < min
                  THEN {index[k]} ELSE {})
        /\ Unlink(k, S)
        /\ \/ index' = [index EXCEPT ![k] = kNullPMemOffset]
           \/ index' = [index EXCEPT ![k] = @]
  BY DEF CleanOutDated
<1>6. PICK S :
        /\ S = OutDated(k, min) \cup
                 (IF pm[index[k]].status = "Outdated" /\ pm[index[k]].ts < min
                  THEN {index[k]} ELSE {})
        /\ Unlink(k, S)
        /\ \/ index' = [index EXCEPT ![k] = kNullPMemOffset]
           \/ index' = [index EXCEPT ![k] = @]
  BY <1>1
<1>2. index[k] \in chain[k]
  BY DEF CleanOutDated, ChainInv
<1>3. S \in SUBSET chain[k]
  BY <1>6, <1>2 DEF OutDated
<1>4. UNCHANGED <<log, free, lockVars, clock, recVars, threadVars, crashes>>
  BY DEF CleanOutDated
<1>5. StoreType'
  BY SMT, <1>6, <1>3, <1>4, UnlinkType DEF StoreType, recVars, LogType, PmType
<1> QED
  BY <1>4, <1>5, ThreadTypeKept

LEMMA DestroyType ==
  ASSUME StoreType, NEW o \in Offset, Destroy(o)
  PROVE  /\ pm' \in PmType /\ pm'[o].status = "Empty"
         /\ \A n \in Offset : /\ pm'[n].key = pm[n].key /\ pm'[n].ts = pm[n].ts
                              /\ n # o => pm'[n] = pm[n]
  BY DEF StoreType, PmType, Destroy

LEMMA PurgeType ==
  ASSUME StoreType, ThreadType, NEW o \in Offset, PurgeAndFree(o)
  PROVE  StoreType' /\ ThreadType'
<1>1. /\ garbage' = garbage \ {o} /\ free' = free \cup {o}
      /\ UNCHANGED <<log, index, chain, lockVars, clock, recVars, threadVars, crashes>>
  BY DEF PurgeAndFree
<1>2. pm' \in PmType
  BY DestroyType DEF PurgeAndFree, StoreType
<1>3. StoreType'
  BY <1>1, <1>2 DEF StoreType, recVars, LogType, PmType
<1> QED
  BY <1>1, <1>3, ThreadTypeKept

LEMMA LoseDramType ==
  ASSUME StoreType, ThreadType, NEW torn, LoseDram(torn), crashes' \in 0 .. MaxCrashes
  PROVE  StoreType' /\ ThreadType'
<1>1. /\ pm' = [o \in Offset |-> IF o \in torn THEN NoRecord ELSE pm[o]]
      /\ index' = [k \in Key |-> kNullPMemOffset] /\ chain' = [k \in Key |-> {}]
      /\ free' = {} /\ garbage' = {}
      /\ lock' = [k \in Key |-> None] /\ access' = [s \in Slot |-> None]
      /\ clock' = 0 /\ mode' = "rollback" /\ scan' = Slot /\ newest' = 0
      /\ pc' = [u \in Thread |-> "idle"] /\ kind' = [u \in Thread |-> "single"]
      /\ ops' = [u \in Thread |-> NoOps] /\ todo' = [u \in Thread |-> {}]
      /\ ts' = [u \in Thread |-> 0] /\ space' = [u \in Thread |-> NoSpace]
      /\ log' = log
  BY DEF LoseDram
<1>2. 0 \in Timestamp
  BY SMT, BatchAssumption DEF Timestamp
<1>3. NoRecord \in [key : Key \cup {0}, ts : Timestamp,
                    status : {"Empty", "Normal", "Outdated", "Dirty"}]
  BY <1>2 DEF NoRecord
<1>4. pm' \in PmType
  BY <1>1, <1>3 DEF StoreType, PmType
<1>5. StoreType'
  BY <1>1, <1>2, <1>4 DEF StoreType, LogType, PmType
<1>6. space' \in [Thread -> SpaceType] /\ \A u \in Thread : DOMAIN space'[u] \subseteq DOMAIN ops'[u]
  BY <1>1, NoSpaceType
<1>7. /\ lock' \in [Key -> Thread \cup {None}] /\ access' \in [Slot -> Thread \cup {None}]
      /\ pc' \in [Thread -> Label] /\ kind' \in [Thread -> {"single", "batch"}]
      /\ ops' \in [Thread -> Batches \cup {NoOps}] /\ todo' \in [Thread -> SUBSET Key]
      /\ ts' \in [Thread -> Timestamp]
  BY <1>1, <1>2 DEF Label
<1> QED
  BY <1>5, <1>6, <1>7 DEF ThreadType, Keys

LEMMA RollbackType ==
  ASSUME StoreType, ThreadType, NEW s \in Slot, RollbackRecord(s) \/ RollbackLog(s)
  PROVE  StoreType' /\ ThreadType'
<1>1. CASE RollbackRecord(s)
  <2>1. UNCHANGED <<log, storeVars, lockVars, clock, recVars, threadVars, crashes>>
    BY <1>1 DEF RollbackRecord
  <2>2. PICK o \in log[s].offs : Destroy(o)
    BY <1>1 DEF RollbackRecord
  <2>3. o \in Offset
    BY DEF StoreType, LogType
  <2>4. StoreType'
    BY <2>1, <2>2, <2>3, DestroyType DEF StoreType, storeVars, recVars, LogType, PmType
  <2> QED
    BY <2>1, <2>4, ThreadTypeKept
<1>2. CASE RollbackLog(s)
  <2>1. /\ UNCHANGED <<pm, storeVars, lockVars, clock, mode, newest, threadVars, crashes>>
        /\ scan' = scan \ {s} /\ SetStage(s, "Initializing")
    BY <1>2 DEF RollbackLog
  <2>2. log' \in LogType
    BY <2>1, SetStageType DEF StoreType
  <2>3. StoreType'
    BY <2>1, <2>2 DEF StoreType, storeVars, LogType, PmType
  <2> QED
    BY <2>1, <2>3, ThreadTypeKept
<1> QED
  BY <1>1, <1>2

LEMMA RemoveLogsType ==
  ASSUME StoreType, ThreadType, RemoveLogs
  PROVE  StoreType' /\ ThreadType'
<1>1. /\ log' = [s \in Slot |-> EmptyLog] /\ mode' = "restore" /\ scan' = Offset
      /\ UNCHANGED <<pm, storeVars, lockVars, clock, newest, threadVars, crashes>>
  BY DEF RemoveLogs
<1>2. log' \in LogType
  BY <1>1 DEF LogType, EmptyLog
<1>3. StoreType'
  BY <1>1, <1>2 DEF StoreType, storeVars, LogType, PmType
<1> QED
  BY <1>1, <1>3, ThreadTypeKept

LEMMA RestoreFreeType ==
  ASSUME StoreType, ThreadType, NEW o \in Offset, RestoreFree(o)
  PROVE  StoreType' /\ ThreadType'
<1>1. /\ free' = free \cup {o} /\ scan' = scan \ {o}
      /\ UNCHANGED <<pmemVars, index, chain, garbage, lockVars, clock, mode, newest,
                     threadVars, crashes>>
  BY DEF RestoreFree
<1>2. StoreType'
  BY <1>1 DEF StoreType, pmemVars, LogType, PmType
<1> QED
  BY <1>1, <1>2, ThreadTypeKept

LEMMA MaxOfTwo ==
  ASSUME NEW a \in Nat, NEW b \in Nat
  PROVE  /\ Max({a, b}) \in {a, b} /\ a <= Max({a, b}) /\ b <= Max({a, b})
<1>1. \E x \in {a, b} : \A y \in {a, b} : x >= y
  BY SMT, a >= b \/ b >= a
<1> QED
  BY <1>1 DEF Max

\* The record at o is compared with the one that the entry of its key points to.
LEMMA RestoreRecordCases ==
  ASSUME StoreType, ThreadType, RecordInv, NEW o \in Offset, RestoreRecord(o)
  PROVE  \E k \in Key, loser \in Offset \cup {kNullPMemOffset} :
           /\ k = pm[o].key
           /\ \/ /\ index[k] # kNullPMemOffset /\ pm[index[k]].ts >= pm[o].ts
                 /\ loser = o /\ index' = index /\ chain' = chain
              \/ /\ index[k] # kNullPMemOffset => pm[index[k]].ts < pm[o].ts
                 /\ loser = index[k]
                 /\ index' = [index EXCEPT ![k] = o]
                 /\ chain' = [chain EXCEPT ![k] = {o}]
           /\ IF loser = kNullPMemOffset THEN UNCHANGED <<pm, free>>
              ELSE Destroy(loser) /\ free' = free \cup {loser}
<1>1. PICK k : k = pm[o].key
  OBVIOUS
<1>2. pm[o].status \in {"Normal", "Outdated"}
  BY DEF RestoreRecord, StoreType, PmType
<1>3. k \in Key
  BY <1>1, <1>2 DEF RecordInv, Live
<1>4. index[k] \in Offset \cup {kNullPMemOffset} /\ DOMAIN index = Key /\ DOMAIN chain = Key
  BY <1>3 DEF StoreType
<1>5. index = [index EXCEPT ![k] = @] /\ chain = [chain EXCEPT ![k] = @]
  BY <1>3 DEF StoreType
<1>6. CASE index[k] # kNullPMemOffset /\ pm[index[k]].ts >= pm[o].ts
  <2>1. /\ index' = [index EXCEPT ![k] = @] /\ chain' = [chain EXCEPT ![k] = @]
        /\ IF o = kNullPMemOffset THEN UNCHANGED <<pm, free>>
           ELSE Destroy(o) /\ free' = free \cup {o}
    BY <1>1, <1>6 DEF RestoreRecord
  <2> QED
    BY <1>1, <1>3, <1>5, <1>6, <2>1
<1>7. CASE ~(index[k] # kNullPMemOffset /\ pm[index[k]].ts >= pm[o].ts)
  <2>1. /\ index' = [index EXCEPT ![k] = o] /\ chain' = [chain EXCEPT ![k] = {o}]
        /\ IF index[k] = kNullPMemOffset THEN UNCHANGED <<pm, free>>
           ELSE Destroy(index[k]) /\ free' = free \cup {index[k]}
    BY <1>1, <1>7 DEF RestoreRecord
  <2>2. index[k] # kNullPMemOffset => pm[index[k]].ts < pm[o].ts
    BY SMT, <1>4, <1>7 DEF StoreType, PmType, Timestamp
  <2> QED
    BY <1>1, <1>3, <1>4, <2>1, <2>2
<1> QED
  BY <1>6, <1>7

LEMMA RestoreRecordType ==
  ASSUME StoreType, ThreadType, RecordInv, NEW o \in Offset, RestoreRecord(o)
  PROVE  /\ StoreType' /\ ThreadType'
         /\ newest <= newest' /\ pm[o].ts <= newest'
<1>1. PICK k \in Key, loser \in Offset \cup {kNullPMemOffset} :
        /\ \/ index' = index /\ chain' = chain
           \/ index' = [index EXCEPT ![k] = o] /\ chain' = [chain EXCEPT ![k] = {o}]
        /\ IF loser = kNullPMemOffset THEN UNCHANGED <<pm, free>>
           ELSE Destroy(loser) /\ free' = free \cup {loser}
  BY RestoreRecordCases
<1>2. /\ newest' = Max({newest, pm[o].ts}) /\ scan' = scan \ {o}
      /\ UNCHANGED <<log, garbage, lockVars, clock, mode, threadVars, crashes>>
  BY DEF RestoreRecord
<1>3. pm[o].ts \in Timestamp /\ newest \in Timestamp
  BY DEF StoreType, PmType
<1>4. newest' \in Timestamp /\ newest <= newest' /\ pm[o].ts <= newest'
  BY SMT, <1>2, <1>3, MaxOfTwo DEF Timestamp
<1>5. pm' \in PmType /\ free' \subseteq Offset
  <2>1. CASE loser = kNullPMemOffset
    BY <1>1, <2>1 DEF StoreType
  <2>2. CASE loser # kNullPMemOffset
    <3>1. loser \in Offset /\ Destroy(loser) /\ free' = free \cup {loser}
      BY <1>1, <2>2
    <3>2. pm' \in PmType
      BY <3>1, DestroyType
    <3> QED
      BY <3>1, <3>2 DEF StoreType
  <2> QED
    BY <2>1, <2>2
<1>6. index' \in [Key -> Offset \cup {kNullPMemOffset}] /\ chain' \in [Key -> SUBSET Offset]
  BY <1>1 DEF StoreType
<1>7. StoreType'
  BY <1>2, <1>4, <1>5, <1>6 DEF StoreType, LogType, PmType
<1> QED
  BY <1>2, <1>4, <1>7, ThreadTypeKept

LEMMA RestoreDoneType ==
  ASSUME StoreType, ThreadType, RestoreDone
  PROVE  StoreType' /\ ThreadType'
<1>1. /\ mode' = "up" /\ clock' = newest
      /\ UNCHANGED <<pmemVars, storeVars, lockVars, scan, newest, threadVars, crashes>>
  BY DEF RestoreDone
<1>2. StoreType'
  BY <1>1 DEF StoreType, pmemVars, storeVars, LogType, PmType
<1> QED
  BY <1>1, <1>2, ThreadTypeKept

----------------------------------------------------------------------------
(***************************************************************************)
(* What a step leaves alone.                                               *)
(***************************************************************************)
Kept(u) ==
  /\ pc'[u] = pc[u] /\ kind'[u] = kind[u] /\ ops'[u] = ops[u]
  /\ todo'[u] = todo[u] /\ ts'[u] = ts[u] /\ space'[u] = space[u]

Others(t) == \A u \in Thread : u # t => Kept(u)

LEMMA StampsKept ==
  ASSUME StampsLeft, StoreType, clock' = clock,
         \A u \in Thread : pc'[u] \in {"lock", "stamp"} => pc[u] \in {"lock", "stamp"}
  PROVE  StampsLeft'
<1>1. Unstamped' \subseteq Unstamped
  BY DEF Unstamped
<1>2. IsFiniteSet(Unstamped) /\ clock + Cardinality(Unstamped) <= MaxTs
  BY DEF StampsLeft
<1>3. /\ IsFiniteSet(Unstamped') /\ Cardinality(Unstamped') <= Cardinality(Unstamped)
      /\ Cardinality(Unstamped') \in Nat /\ Cardinality(Unstamped) \in Nat
  BY <1>1, <1>2, FS_Subset, FS_CardinalityType
<1>4. clock + Cardinality(Unstamped') <= MaxTs
  BY SMT, <1>2, <1>3, BatchAssumption DEF StoreType, Timestamp
<1> QED
  BY <1>3, <1>4 DEF StampsLeft

LEMMA LockKept ==
  ASSUME LockInv, NEW t \in Thread, Others(t), UNCHANGED <<lock, access, mode>>,
         pc[t] \notin {"idle", "lock"}, pc'[t] \notin {"idle", "lock"}, ops'[t] = ops[t]
  PROVE  LockInv'
<1>1. \A u \in Thread : pc'[u] # "idle" => mode' = "up" /\ access'[SlotOf[u]] = u
  BY DEF LockInv, Others, Kept
<1>2. ASSUME NEW u \in Thread, NEW k \in Key, HasLocked(u, k)' PROVE lock'[k] = u
  BY SMT, <1>2 DEF LockInv, Others, Kept, HasLocked, Keys
<1> QED
  BY <1>1, <1>2 DEF LockInv

LEMMA CallKept ==
  ASSUME NEW u \in Thread, Kept(u), CallInv(u)
  PROVE  CallInv(u)'
  BY DEF Kept, CallInv, Keys

LEMMA CallsKept ==
  ASSUME \A u \in Thread : CallInv(u), NEW t \in Thread, Others(t), CallInv(t)'
  PROVE  \A u \in Thread : CallInv(u)'
  BY CallKept DEF Others

\* Two calls never use the log of the same slot.
LEMMA OwnSlot ==
  ASSUME LockInv, NEW t \in Thread, NEW u \in Thread, pc[t] # "idle", pc[u] # "idle",
         SlotOf[t] = SlotOf[u]
  PROVE  t = u
  BY DEF LockInv

\* Two calls never hold the same key.
LEMMA OwnKey ==
  ASSUME LockInv, ThreadType, NEW t \in Thread, NEW u \in Thread, NEW k,
         HasLocked(t, k), HasLocked(u, k)
  PROVE  t = u /\ k \in Key /\ lock[k] = t
<1>1. k \in Key
  BY OpsType DEF HasLocked, Keys, ThreadType
<1> QED
  BY SMT, <1>1 DEF LockInv

LEMMA LogKept ==
  ASSUME LogInv, NEW t \in Thread, Others(t), UNCHANGED <<log, mode, scan>>,
         \/ ~Processing(t) /\ ~Processing(t)' /\ pc'[t] # "process"
         \/ Processing(t) /\ Processing(t)' /\ space'[t] = space[t]
  PROVE  LogInv'
<1>1. ASSUME NEW u \in Thread
      PROVE  /\ Processing(u)' => log'[SlotOf[u]].stage = "Processing"
             /\ (Processing(u) \/ pc[u] = "process")' => log'[SlotOf[u]].offs = Spaces(u)'
  <2>1. CASE u = t
    BY SMT, <2>1 DEF LogInv, Spaces, Processing
  <2>2. CASE u # t
    BY SMT, <2>2 DEF LogInv, Others, Kept, Spaces, Processing
  <2> QED
    BY <2>1, <2>2
<1>2. ASSUME NEW s \in Slot, log'[s].stage = "Processing"
      PROVE  \/ mode' = "rollback" /\ s \in scan'
             \/ \E u \in Thread : SlotOf[u] = s /\ Processing(u)'
  <2>1. CASE mode = "rollback" /\ s \in scan
    BY <2>1
  <2>2. CASE \E u \in Thread : SlotOf[u] = s /\ Processing(u)
    <3>1. PICK u \in Thread : SlotOf[u] = s /\ Processing(u)
      BY <2>2
    <3>2. Processing(u)'
      BY <3>1 DEF Others, Kept, Processing
    <3> QED
      BY <3>1, <3>2
  <2> QED
    BY <1>2, <2>1, <2>2 DEF LogInv
<1> QED
  BY <1>1, <1>2 DEF LogInv

LEMMA PlaceKept ==
  ASSUME PlaceInv, mode = "up", UNCHANGED <<storeVars, space, mode>>
  PROVE  PlaceInv'
<1>1. (free \cap garbage = {})' /\ ChainPlaces' /\ SpacePlaces'
  BY SMT DEF PlaceInv, ChainPlaces, SpacePlaces, storeVars
<1>2. Placed' /\ DownPlaces'
  BY DEF PlaceInv, Placed, DownPlaces, storeVars
<1> QED
  BY <1>1, <1>2 DEF PlaceInv

\* Records that count disappear, and no other change.
Fewer ==
  \A n \in Offset : Live(n)' => pm'[n] = pm[n]

LEMMA FewerLive ==
  ASSUME Fewer, NEW n \in Offset, Live(n)'
  PROVE  Live(n) /\ pm'[n] = pm[n]
  BY DEF Fewer, Live

LEMMA SamePm == ASSUME pm' = pm PROVE Fewer
  BY DEF Fewer

LEMMA RecordsKept ==
  ASSUME StoreType, StoreType', RecordInv, Fewer, mode' = mode, scan' = scan,
         clock <= clock', newest <= newest'
  PROVE  RecordInv'
<1>1. /\ clock \in Nat /\ clock' \in Nat /\ newest \in Nat /\ newest' \in Nat
      /\ \A o \in Offset : pm[o].ts \in Nat
  BY SMT DEF StoreType, PmType, Timestamp
<1>2. ASSUME NEW o \in Offset, Live(o)'
      PROVE  /\ pm'[o].key \in Key /\ pm'[o].ts >= 1
             /\ mode' = "up" => pm'[o].ts <= clock'
             /\ mode' = "restore" /\ o \notin scan' => pm'[o].ts <= newest'
  <2>1. Live(o) /\ pm'[o] = pm[o]
    BY <1>2, FewerLive
  <2> QED
    BY SMT, <1>1, <2>1 DEF RecordInv
<1>3. ASSUME NEW o \in Offset, NEW n \in Offset, Live(o)', Live(n)',
             pm'[o].key = pm'[n].key, pm'[o].ts = pm'[n].ts
      PROVE  o = n
  <2>1. Live(o) /\ pm'[o] = pm[o] /\ Live(n) /\ pm'[n] = pm[n]
    BY <1>3, FewerLive
  <2> QED
    BY <1>3, <2>1 DEF RecordInv
<1> QED
  BY <1>2, <1>3 DEF RecordInv

LEMMA ChainKept ==
  ASSUME ChainInv, UNCHANGED <<pm, index, chain>>
  PROVE  ChainInv'
  BY DEF ChainInv, Live

LEMMA LooseKept ==
  ASSUME LooseInv, mode = "up", mode' = "up", pm' = pm,
         \A o \in Offset : Loose(o)' => Loose(o)
  PROVE  LooseInv'
<1>1. ASSUME NEW o \in Offset, Loose(o)'
      PROVE  /\ pm'[o].status # "Normal"
             /\ pm'[o].status = "Outdated" =>
                  \A n \in Offset : pm'[n].status = "Normal" /\ pm'[n].key = pm'[o].key
                                    => pm'[o].ts < pm'[n].ts
  BY <1>1 DEF LooseInv
<1> QED
  BY <1>1 DEF LooseInv

\* A call whose keys nobody touches.
LEMMA StampKept ==
  ASSUME StoreType, StoreType', NEW u \in Thread, Kept(u), Stamped(u), StampOf(u), clock <= clock',
         \A n \in Offset : Live(n)' => \/ pm'[n].key \notin Keys(u)
                                       \/ Live(n) /\ pm'[n] = pm[n],
         \A k \in DOMAIN space[u] : Written(u, k) => pm'[space[u][k]] = pm[space[u][k]],
         \A k \in Keys(u) : Nothing(u, k) /\ HasValue(k)' => HasValue(k)
  PROVE  StampOf(u)'
<1>1. ts'[u] \in 1 .. clock'
  BY SMT DEF Kept, StampOf, StoreType, Timestamp
<1>2. ASSUME NEW k \in Keys(u)', (pc[u] # "publish" \/ k \in DOMAIN space[u])',
             NEW n \in Offset, Live(n)', pm'[n].key = k, ~(Written(u, k) /\ n = space[u][k])'
      PROVE  pm'[n].ts < ts'[u]
  <2>1. k \in Keys(u) /\ (pc[u] # "publish" \/ k \in DOMAIN space[u])
    BY <1>2 DEF Kept, Keys
  <2>2. ~(Written(u, k) /\ n = space[u][k])
    BY <1>2 DEF Kept, Written
  <2>3. Live(n) /\ pm'[n] = pm[n]
    BY <1>2, <2>1
  <2> QED
    BY <1>2, <2>1, <2>2, <2>3 DEF StampOf, Kept
<1>3. ASSUME NEW k \in DOMAIN space'[u], Written(u, k)'
      PROVE  pm'[space'[u][k]] = [key |-> k, ts |-> ts'[u],
                          status |-> IF ops'[u][k] = "Put" THEN "Normal" ELSE "Outdated"]
  <2>1. k \in DOMAIN space[u] /\ Written(u, k)
    BY <1>3 DEF Kept, Written
  <2> QED
    BY SMT, <2>1 DEF StampOf, Kept
<1>4. ASSUME NEW k \in Key, Nothing(u, k)' PROVE ops'[u][k] = "Delete" /\ ~HasValue(k)'
  <2>1. Nothing(u, k) /\ k \in Keys(u)
    BY <1>4 DEF Kept, Nothing, Keys
  <2> QED
    BY <2>1 DEF StampOf, Kept
<1> QED
  BY <1>1, <1>2, <1>3, <1>4 DEF StampOf

LEMMA StampsOfOthers ==
  ASSUME StoreType, StoreType', StampInv, NEW t \in Thread, Others(t), clock <= clock',
         UNCHANGED <<pm, index>>, Stamped(t)' => StampOf(t)'
  PROVE  StampInv'
<1>1. ASSUME NEW u \in Thread, Stamped(u)', u # t PROVE StampOf(u)'
  <2>1. Kept(u) /\ Stamped(u)
    BY <1>1 DEF Others, Kept, Stamped
  <2>2. StampOf(u)
    BY <2>1 DEF StampInv
  <2>3. \A k \in Keys(u) : HasValue(k)' => HasValue(k)
    BY DEF HasValue
  <2>4. \A n \in Offset : Live(n)' => Live(n) /\ pm'[n] = pm[n]
    BY DEF Live
  <2> QED
    BY <2>1, <2>2, <2>3, <2>4, StampKept
<1> QED
  BY <1>1 DEF StampInv

LEMMA BatchParts ==
  BatchInv => /\ StoreType /\ ThreadType /\ StampsLeft /\ LockInv
              /\ (\A u \in Thread : CallInv(u)) /\ LogInv
              /\ PlaceInv /\ RecordInv /\ ChainInv /\ LooseInv /\ StampInv
  BY TypeParts DEF BatchInv

LEMMA BatchIntro ==
  ASSUME StoreType', ThreadType', StampsLeft', LockInv', (\A u \in Thread : CallInv(u)'), LogInv',
         PlaceInv', RecordInv', ChainInv', LooseInv', StampInv'
  PROVE  BatchInv'
  BY TypePartsNext DEF BatchInv

\* No space becomes loose.
LEMMA LooseStep ==
  ASSUME NEW t \in Thread, Others(t), free' \subseteq free, garbage' \subseteq garbage,
         \A k \in DOMAIN space'[t] : ~Written(t, k)' => Loose(space'[t][k])
  PROVE  \A o \in Offset : Loose(o)' => Loose(o)
<1>1. ASSUME NEW o \in Offset, NEW u \in Thread, NEW k \in DOMAIN space'[u],
             space'[u][k] = o, ~Written(u, k)'
      PROVE  Loose(o)
  <2>1. CASE u = t
    BY <1>1, <2>1
  <2>2. CASE u # t
    BY <1>1, <2>2 DEF Others, Kept, Written, Loose
  <2> QED
    BY <2>1, <2>2
<1> QED
  BY <1>1 DEF Loose

\* A step that changes no more than the state of a call and its log.
LEMMA LogOnlyStep ==
  ASSUME BatchInv, NEW t \in Thread, Others(t), StoreType', ThreadType', mode = "up",
         UNCHANGED <<pm, storeVars, recVars, space>>, clock <= clock',
         StampsLeft', LockInv', CallInv(t)', LogInv',
         \A k \in DOMAIN space[t] : Written(t, k) => Written(t, k)',
         Stamped(t)' => StampOf(t)'
  PROVE  BatchInv'
<1>0. /\ StoreType /\ (\A u \in Thread : CallInv(u))
      /\ PlaceInv /\ RecordInv /\ ChainInv /\ LooseInv /\ StampInv
  BY BatchParts
<1>1. /\ pm' = pm /\ index' = index /\ chain' = chain /\ mode' = mode /\ scan' = scan
      /\ newest' = newest /\ free' = free /\ garbage' = garbage /\ space' = space
  BY DEF storeVars, recVars
<1>2. \A u \in Thread : CallInv(u)'
  BY <1>0, CallsKept
<1>4. PlaceInv'
  BY <1>0, <1>1, PlaceKept DEF storeVars
<1>5. RecordInv'
  BY SMT, <1>0, <1>1, SamePm, RecordsKept DEF StoreType, Timestamp
<1>6. ChainInv'
  BY <1>0, <1>1, ChainKept
<1>7. \A k \in DOMAIN space'[t] : ~Written(t, k)' => Loose(space'[t][k])
  BY <1>1 DEF Loose
<1>8. LooseInv'
  BY <1>0, <1>1, <1>7, LooseStep, LooseKept
<1>9. StampInv'
  BY <1>0, <1>1, StampsOfOthers
<1> QED
  BY <1>2, <1>4, <1>5, <1>6, <1>8, <1>9, BatchIntro

LEMMA CallOnlyStep ==
  ASSUME BatchInv, NEW t \in Thread, Others(t), StoreType', ThreadType', mode = "up",
         UNCHANGED <<pmemVars, storeVars, recVars, space, crashes>>, clock <= clock',
         StampsLeft', LockInv', CallInv(t)', ~Processing(t), ~Processing(t)', pc'[t] # "process",
         \A k \in DOMAIN space[t] : Written(t, k) => Written(t, k)',
         Stamped(t)' => StampOf(t)'
  PROVE  BatchInv'
<1>1. LogInv'
  BY BatchParts, LogKept DEF pmemVars, recVars
<1> QED
  BY <1>1, LogOnlyStep DEF pmemVars

LEMMA ClockKept == ASSUME StoreType, clock' = clock PROVE clock <= clock'
  BY SMT DEF StoreType, Timestamp

\* A call that writes its log.
LEMMA LogStep ==
  ASSUME LockInv, LogInv, NEW t \in Thread, Others(t), pc[t] # "idle", mode = "up", mode' = mode,
         \A r \in Slot : r # SlotOf[t] => log'[r] = log[r],
         Processing(t)' \/ pc'[t] = "process" => log'[SlotOf[t]].offs = Spaces(t)',
         log'[SlotOf[t]].stage = "Processing" <=> Processing(t)'
  PROVE  LogInv'
<1>1. ASSUME NEW u \in Thread
      PROVE  /\ Processing(u)' => log'[SlotOf[u]].stage = "Processing"
             /\ (Processing(u) \/ pc[u] = "process")' => log'[SlotOf[u]].offs = Spaces(u)'
  <2>1. CASE u = t
    BY <2>1
  <2>2. CASE u # t
    <3>0. pc'[u] = pc[u] /\ kind'[u] = kind[u] /\ space'[u] = space[u]
      BY <2>2 DEF Others, Kept
    <3>1. (Processing(u)' <=> Processing(u)) /\ pc'[u] = pc[u] /\ Spaces(u)' = Spaces(u)
      BY SMT, <3>0 DEF Processing, Spaces
    <3>2. Processing(u) \/ pc[u] = "process" => log'[SlotOf[u]] = log[SlotOf[u]]
      <4>1. Processing(u) \/ pc[u] = "process" => pc[u] # "idle"
        BY DEF Processing
      <4> QED
        BY <2>2, <4>1, OwnSlot, BatchAssumption
    <3> QED
      BY <3>1, <3>2 DEF LogInv
  <2> QED
    BY <2>1, <2>2
<1>2. ASSUME NEW s \in Slot, log'[s].stage = "Processing"
      PROVE  \E u \in Thread : SlotOf[u] = s /\ Processing(u)'
  <2>1. CASE s = SlotOf[t]
    BY <1>2, <2>1
  <2>2. CASE s # SlotOf[t]
    <3>1. PICK u \in Thread : SlotOf[u] = s /\ Processing(u)
      BY <1>2, <2>2 DEF LogInv
    <3>2. Processing(u)'
      BY <2>2, <3>1 DEF Others, Kept, Processing
    <3> QED
      BY <3>1, <3>2
  <2> QED
    BY <2>1, <2>2
<1> QED
  BY <1>1, <1>2 DEF LogInv

\* A call that goes on with what it knows.
LEMMA StampCarried ==
  ASSUME StoreType, NEW t \in Thread, StampOf(t), pc[t] # "publish", UNCHANGED <<pm, index, clock>>,
         ops'[t] = ops[t], ts'[t] = ts[t], space'[t] = space[t],
         \A k \in DOMAIN space[t] : Written(t, k)' <=> Written(t, k),
         \A k \in Key : Nothing(t, k)' => Nothing(t, k)
  PROVE  StampOf(t)'
<1>1. ts'[t] \in 1 .. clock'
  BY DEF StampOf
<1>2. ASSUME NEW k \in Keys(t)', NEW n \in Offset, Live(n)', pm'[n].key = k,
             ~(Written(t, k) /\ n = space[t][k])'
      PROVE  pm'[n].ts < ts'[t]
  <2>1. k \in Keys(t) /\ Live(n) /\ pm[n].key = k
    BY <1>2 DEF Keys, Live
  <2>2. ~(Written(t, k) /\ n = space[t][k])
    BY <1>2 DEF Written
  <2> QED
    BY <2>1, <2>2 DEF StampOf
<1>3. ASSUME NEW k \in DOMAIN space'[t], Written(t, k)'
      PROVE  pm'[space'[t][k]] = [key |-> k, ts |-> ts'[t],
                          status |-> IF ops'[t][k] = "Put" THEN "Normal" ELSE "Outdated"]
  <2>1. k \in DOMAIN space[t] /\ Written(t, k)
    BY <1>3
  <2>2. pm[space[t][k]] = [key |-> k, ts |-> ts[t],
                           status |-> IF ops[t][k] = "Put" THEN "Normal" ELSE "Outdated"]
    BY <2>1 DEF StampOf
  <2> QED
    BY <2>2
<1>4. ASSUME NEW k \in Key, Nothing(t, k)' PROVE ops'[t][k] = "Delete" /\ ~HasValue(k)'
  BY <1>4 DEF StampOf, HasValue
<1> QED
  BY <1>1, <1>2, <1>3, <1>4 DEF StampOf
=============================================================================
