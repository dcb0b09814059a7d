---------------------------- MODULE Collections -----------------------------
(***************************************************************************)
(* The life of the collections of a KVDK instance: how they are created,   *)
(* given a time to live, destroyed, created again under their name while   *)
(* the old one is still there, found by calls and iterators, taken away by *)
(* the workers of the cleaner, and found again after a crash               *)
(* (engine/kv_engine_{sorted,hash,list}.cpp, kv_engine_cleaner.cpp,        *)
(* sorted_collection/rebuilder.cpp).                                       *)
(*                                                                         *)
(* What PMem has of a collection is its header record, with the old        *)
(* versions behind it; a collection that is created over an outdated one   *)
(* of the same name has that one's header as its old version.  The         *)
(* elements of a collection are only there or not there.  Every event that *)
(* takes a timestamp takes a new one, and the offset of a header record is *)
(* its timestamp.  The replacement of a header is one step (the stores of  *)
(* it are in DLList), each name has a slot lock of its own, and freed      *)
(* records and objects are not used again.                                 *)
(***************************************************************************)
EXTENDS Integers, FiniteSets, SequencesExt, FiniteSetsExt

CONSTANTS
  Thread, Worker,
  Name,
  MaxTime,     \* bound: the timestamps that are given out
  MaxId,       \* bound: the collections that are created
  MaxNow,      \* bound: the ticks of the wall clock
  MaxFetch,    \* max_thread_num_ of the cleaner
  Workloads    \* what is called; a behaviour has one of them

Time == 1 .. MaxTime
Id == 1 .. MaxId
kPersistTime == MaxNow + 1
kMaxTimestamp == MaxTime + 1
Null == 0
Types == <<"Sorted", "List", "Hash">>   \* in the order the cleaner looks at them
Type == ToSet(Types)

(***************************************************************************)
(* A workload: type of each name; calls of each thread, in order, as       *)
(* <<operation, name, ttl>>; workers: those of the cleaner that run; full: *)
(* whether PMem may be full; crashes: a bound.                             *)
(***************************************************************************)

VARIABLES
  rec,         \* PMem: the header record at each offset
  elems,       \* PMem: the collections that have element records
  clock,       \* the last timestamp
  now,         \* the wall clock
  entry,       \* the hash entry of each name
  header,      \* HeaderRecord() of each collection, Null if it was never made
  lastId,      \* collection_id_
  expirable,   \* expirable_skiplists_, expirable_lists_, expirable_hlists_
  outdated,    \* outdated_collections_ of the cleaner
  snapshots,   \* the timestamps of the snapshots that are held
  th, todo,    \* the call of each thread, and those it has still to make
  wk,          \* the workers of the cleaner
  sys,         \* whether the engine runs or recovers, with its checkpoint
  left, invalid,   \* linked_headers_, invalid_skiplists_ of the rebuilder
  want,        \* history: what recovery has to restore under each name
  lost,        \* history: collections the cleaner dropped
  hasty,       \* history: collections it took that are newer than a snapshot
  misplaced,   \* history: collections registered in a set out of order, or while
               \* the cleaner had them
  workload

pmVars == <<rec, elems>>
tableVars == <<entry, header, lastId>>
fateVars == <<lost, hasty, misplaced>>
cleanerVars == <<expirable, outdated, wk, fateVars>>
rebuildVars == <<sys, left, invalid, want>>
vars == <<pmVars, clock, now, tableVars, cleanerVars, snapshots, th, todo, rebuildVars,
          workload>>

----------------------------------------------------------------------------
Unused == [state |-> "Free", id |-> 0, name |-> Null, status |-> "Normal", expire |-> 0, old |-> 0]

HeaderRecord(i) == rec[header[i]]
Freed(i) == header[i] # Null /\ HeaderRecord(i).state = "Free"
HasExpired(i) == HeaderRecord(i).expire <= now
TypeOf(i) == workload.type[HeaderRecord(i).name]

NoEntry == [id |-> Null, status |-> "Normal"]

lookupKey(n) ==
  IF entry[n] = NoEntry THEN "NotFound"
  ELSE IF entry[n].status = "Outdated" \/ HasExpired(entry[n].id) THEN "Outdated"
  ELSE "Ok"

\* The header of i is replaced by a new version of it.
Replace(i, ts, status, expire) ==
  [rec EXCEPT ![header[i]].state = "Unlinked",
              ![ts] = [HeaderRecord(i) EXCEPT !.status = status, !.expire = expire,
                                              !.old = header[i]]]

Versions(r, o) ==
  LET V[s \in Seq(Time)] ==
        IF r[Last(s)].old = Null THEN s ELSE V[Append(s, r[Last(s)].old)] IN
  V[<<o>>]

\* TTLCmp: j comes before a collection i that expires at this time.
TTLCmp(j, i, expire) ==
  \/ HeaderRecord(j).expire < expire
  \/ HeaderRecord(j).expire = expire /\ j < i

Placed(s, i, expire) ==
  InsertAt(s, Len(SelectSeq(s, LAMBDA j : TTLCmp(j, i, expire))) + 1, i)

\* What erase(i) and emplace(i) may leave.  Replacing a header changes the key of a
\* collection that is in the set; where the set is then out of order, a search of it
\* may end anywhere.
InOrder(s) ==
  \A j, k \in 1 .. Len(s) : j < k => TTLCmp(s[j], s[k], HeaderRecord(s[k]).expire)

EraseFrom(s, i) ==
  {SelectSeq(s, LAMBDA j : j # i)} \union (IF InOrder(s) THEN {} ELSE {s})

Emplace(s, i, expire) ==
  IF InOrder(s) THEN {IF i \in ToSet(s) THEN s ELSE Placed(s, i, expire)}
  ELSE {InsertAt(s, k, i) : k \in 1 .. Len(s) + 1} \union (IF i \in ToSet(s) THEN {s} ELSE {})

\* removeOutdatedCollection: along the versions of the header of i, those that
\* belong to another collection are cut off.
removeOutdatedCollection(i) ==
  LET chain == ToSet(Versions(rec, header[i])) IN
  [o \in Time |-> IF o \in chain /\ rec[o].old # Null /\ rec[rec[o].old].id # rec[o].id
                  THEN [rec[o] EXCEPT !.old = Null] ELSE rec[o]]

GlobalOldestSnapshotTs == Min(snapshots \union {kMaxTimestamp})

----------------------------------------------------------------------------
(***************************************************************************)
(* Calls.  Create, Destroy and Expire hold the slot lock of the name; they *)
(* and the calls that use a collection hold a local snapshot, an iterator  *)
(* only the snapshot it reads.                                             *)
(***************************************************************************)
Idle == [pc |-> "idle", name |-> Null, id |-> Null, ts |-> Null, until |-> 0]
Locking == {"publish", "outdate", "register", "expire"}
ActiveLocked == {t \in Thread : th[t].pc \in Locking}   \* mutant: without those that read
Active == {t \in Thread : th[t].pc \in Locking \union {"use"}}

SlotFree(n) == \A t \in Thread : th[t].pc \in Locking => th[t].name # n

Called(t, op, n, ttl) ==
  /\ sys.pc = "run"
  /\ th[t] = Idle
  /\ todo[t] # <<>>
  /\ Head(todo[t]) = <<op, n, ttl>>
  /\ todo' = [todo EXCEPT ![t] = Tail(@)]

\* The local snapshot is released.
Release(t) == wk' = [w \in Worker |-> [wk[w] EXCEPT !.wait = @ \ {t}]]

\* A step that takes a collection for one of another kind, or that uses one that is
\* freed, may do anything.
Undefined == sys' = [sys EXCEPT !.pc = "undefined"]

\* A freed collection is in a set that is searched by comparing expire times.
Dangling == \E ty \in Type : \E i \in ToSet(expirable[ty]) : Freed(i)

WithCleaner(i) ==
  \/ \E ty \in Type : \E q \in outdated[ty] : q.id = i
  \/ \E w \in Worker : wk[w].id = i

Misplace(i, set) ==
  misplaced' = IF InOrder(set) /\ ~WithCleaner(i) THEN misplaced ELSE misplaced \union {i}

Returned == UNCHANGED <<pmVars, clock, tableVars, expirable, wk, snapshots, th>>

\* buildSkiplist, buildHashlist, buildList
Create(t, n) ==
  /\ Called(t, "Create", n, 0)
  /\ SlotFree(n)
  /\ \/ /\ lookupKey(n) \in {"NotFound", "Outdated"}
        /\ clock < MaxTime
        /\ lastId < MaxId
        /\ LET ts == clock + 1
               i == lastId + 1
               old == IF lookupKey(n) = "Outdated" THEN header[entry[n].id] ELSE Null IN
           /\ rec' = [rec EXCEPT ![ts] = [state |-> "Linked", id |-> i, name |-> n,
                         status |-> "Normal", expire |-> kPersistTime, old |-> old]]
           /\ header' = [header EXCEPT ![i] = ts]
           /\ clock' = ts
           /\ lastId' = i
           /\ th' = [th EXCEPT ![t] = [Idle EXCEPT !.pc = "publish", !.name = n, !.id = i]]
        /\ UNCHANGED <<elems, entry, expirable, wk, snapshots>>
     \/ /\ workload.full \/ lookupKey(n) = "Ok"
        /\ Returned
  /\ UNCHANGED <<now, outdated, fateVars, rebuildVars, workload>>

Publish(t) ==
  /\ th[t].pc = "publish"
  /\ entry' = [entry EXCEPT ![th[t].name] = [id |-> th[t].id, status |-> "Normal"]]
  /\ th' = [th EXCEPT ![t] = Idle]
  /\ Release(t)
  /\ UNCHANGED <<pmVars, clock, now, header, lastId, expirable, outdated, fateVars, snapshots,
                 todo, rebuildVars, workload>>

PersistDestroyed(n) == kPersistTime    \* mutant: destroyed with no time at all

\* SortedDestroy, HashDestroy, ListDestroy; only the first gives an expire time.
DestroyedExpire(n) == IF workload.type[n] = "Sorted" THEN 0 ELSE kPersistTime

Destroy(t, n) ==
  /\ Called(t, "Destroy", n, 0)
  /\ SlotFree(n)
  /\ \/ /\ lookupKey(n) = "Ok"
        /\ clock < MaxTime
        /\ LET ts == clock + 1
               i == entry[n].id IN
           /\ rec' = Replace(i, ts, "Outdated", DestroyedExpire(n))
           /\ header' = [header EXCEPT ![i] = ts]
           /\ clock' = ts
           /\ th' = [th EXCEPT ![t] = [Idle EXCEPT !.pc = "outdate", !.name = n, !.id = i]]
        /\ UNCHANGED <<elems, entry, lastId, expirable, wk, snapshots>>
     \/ /\ workload.full \/ lookupKey(n) # "Ok"
        /\ Returned
  /\ UNCHANGED <<now, outdated, fateVars, rebuildVars, workload>>

Outdate(t) ==
  /\ th[t].pc = "outdate"
  /\ entry' = [entry EXCEPT ![th[t].name] = [id |-> th[t].id, status |-> "Outdated"]]
  /\ th' = [th EXCEPT ![t].pc = "register"]
  /\ UNCHANGED <<pmVars, clock, now, header, lastId, cleanerVars, snapshots, todo,
                 rebuildVars, workload>>

Register(t) ==
  LET i == th[t].id
      set == expirable[TypeOf(i)] IN
  /\ th[t].pc = "register"
  /\ ~Dangling
  /\ \E s \in Emplace(set, i, HeaderRecord(i).expire) :
       expirable' = [expirable EXCEPT ![TypeOf(i)] = s]
  /\ Misplace(i, set)
  /\ th' = [th EXCEPT ![t] = Idle]
  /\ Release(t)
  /\ UNCHANGED <<pmVars, clock, now, tableVars, outdated, lost, hasty, snapshots, todo,
                 rebuildVars, workload>>

\* Expire: the name is looked up, then the header replaced under the mutex of the
\* expirable set, with the timestamp of the local snapshot.
Expire(t, n, ttl) ==
  /\ Called(t, "Expire", n, ttl)
  /\ SlotFree(n)
  /\ \/ /\ lookupKey(n) = "Ok"
        /\ clock < MaxTime
        /\ clock' = clock + 1
        /\ th' = [th EXCEPT ![t] = [pc |-> "expire", name |-> n, id |-> entry[n].id,
                                    ts |-> clock + 1, until |-> now + ttl]]
        /\ UNCHANGED <<pmVars, tableVars, expirable, wk, snapshots>>
     \/ /\ lookupKey(n) # "Ok"
        /\ Returned
  /\ UNCHANGED <<now, outdated, fateVars, rebuildVars, workload>>

SetExpireTime(t) ==
  LET i == th[t].id
      ty == TypeOf(i) IN
  /\ th[t].pc = "expire"
  /\ ~Dangling
  /\ \E done \in IF workload.full THEN BOOLEAN ELSE {TRUE} :
       LET expire == IF done THEN th[t].until ELSE HeaderRecord(i).expire IN
       /\ rec' = IF done THEN Replace(i, th[t].ts, "Normal", expire) ELSE rec
       /\ header' = IF done THEN [header EXCEPT ![i] = th[t].ts] ELSE header
       /\ IF ty = "List" THEN UNCHANGED expirable
          ELSE \E s \in UNION {Emplace(e, i, expire) : e \in EraseFrom(expirable[ty], i)} :
                 expirable' = [expirable EXCEPT ![ty] = s]
  /\ Misplace(i, expirable[ty])
  /\ th' = [th EXCEPT ![t] = Idle]
  /\ Release(t)
  /\ UNCHANGED <<elems, clock, now, entry, lastId, outdated, lost, hasty, snapshots, todo,
                 rebuildVars, workload>>

\* What Register and SetExpireTime do when a collection of the set is freed.
CompareFreed(t) ==
  /\ th[t].pc \in {"register", "expire"}
  /\ Dangling
  /\ Undefined
  /\ UNCHANGED <<pmVars, clock, now, tableVars, cleanerVars, snapshots, th, todo, left, invalid,
                 want, workload>>

\* A call that finds a collection without its lock and then writes to it, as
\* SortedPut does.
Use(t, n) ==
  /\ Called(t, "Use", n, 0)
  /\ th' = IF lookupKey(n) = "Ok"
           THEN [th EXCEPT ![t] = [Idle EXCEPT !.pc = "use", !.id = entry[n].id]] ELSE th
  /\ UNCHANGED <<pmVars, clock, now, tableVars, cleanerVars, snapshots, rebuildVars, workload>>

Used(t) ==
  /\ th[t].pc = "use"
  /\ elems' = elems \union {th[t].id}
  /\ th' = [th EXCEPT ![t] = Idle]
  /\ Release(t)
  /\ UNCHANGED <<rec, clock, now, tableVars, expirable, outdated, fateVars, snapshots, todo,
                 rebuildVars, workload>>

\* SortedIteratorCreate, SortedIteratorRelease
Iterate(t, n) ==
  /\ Called(t, "Iterate", n, 0)
  /\ clock < MaxTime
  /\ clock' = clock + 1
  /\ IF lookupKey(n) = "Ok"
     THEN /\ snapshots' = snapshots \union {clock + 1}
          /\ th' = [th EXCEPT ![t] =
                      [Idle EXCEPT !.pc = "iterate", !.id = entry[n].id, !.ts = clock + 1]]
     ELSE UNCHANGED <<snapshots, th>>
  /\ UNCHANGED <<pmVars, now, tableVars, cleanerVars, rebuildVars, workload>>

Iterated(t) ==
  /\ sys.pc = "run"
  /\ th[t].pc = "iterate"
  /\ snapshots' = snapshots \ {th[t].ts}
  /\ th' = [th EXCEPT ![t] = Idle]
  /\ UNCHANGED <<pmVars, clock, now, tableVars, cleanerVars, todo, rebuildVars, workload>>

\* What is on PMem under the name n: the collection, and when it expires.
Nothing == [id |-> Null, expire |-> 0]
Durable(n) ==
  LET on == {o \in Time : rec[o].state = "Linked" /\ rec[o].name = n /\ rec[o].status = "Normal"} IN
  IF on = {} THEN Nothing ELSE [id |-> rec[Max(on)].id, expire |-> rec[Max(on)].expire]

\* GetSnapshot(true)
Checkpoint(t, n) ==
  /\ Called(t, "Checkpoint", n, 0)
  /\ clock < MaxTime
  /\ clock' = clock + 1
  /\ snapshots' = snapshots \union {clock + 1}
  /\ sys' = [sys EXCEPT !.checkpoint = clock + 1]
  /\ want' = [m \in Name |-> Durable(m)]
  /\ UNCHANGED <<pmVars, now, tableVars, cleanerVars, th, left, invalid, workload>>

Step(t) ==
  /\ sys.pc = "run"
  /\ \/ Publish(t) \/ Outdate(t) \/ Register(t) \/ SetExpireTime(t) \/ Used(t)
     \/ CompareFreed(t)

Call(t) ==
  \E n \in Name :
    \/ Create(t, n) \/ Destroy(t, n) \/ Use(t, n) \/ Iterate(t, n) \/ Checkpoint(t, n)
    \/ \E ttl \in 1 .. kPersistTime : Expire(t, n, ttl)

\* The wall clock goes on.
Tick ==
  /\ sys.pc # "undefined"
  /\ now < MaxNow
  /\ now' = now + 1
  /\ UNCHANGED <<pmVars, clock, tableVars, cleanerVars, snapshots, th, todo, rebuildVars,
                 workload>>

----------------------------------------------------------------------------
(***************************************************************************)
(* A round of a worker of the cleaner: cleanOutDated and the loop of       *)
(* cleanWork behind it.                                                    *)
(***************************************************************************)
Resting == [pc |-> "search", min |-> Null, id |-> Null, wait |-> {}, slot |-> Null, raw |-> Null]

\* How many of s, from the front, have expired.
ExpiredFront(s) ==
  Min({k - 1 : k \in {j \in 1 .. Len(s) : ~HasExpired(s[j])}} \union {Len(s)})

SearchOutdatedCollections(w) ==
  LET ns == Min({ExpiredFront(expirable["Sorted"]), MaxFetch})
      nl == Min({ExpiredFront(expirable["List"]), MaxFetch - ns})
      nh == Min({ExpiredFront(expirable["Hash"]), MaxFetch - ns - nl})
      n == [ty \in Type |-> CASE ty = "Sorted" -> ns [] ty = "List" -> nl [] ty = "Hash" -> nh]
      at == [ty \in Type |-> CASE ty = "Sorted" -> 0 [] ty = "List" -> ns [] ty = "Hash" -> ns + nl] IN
  /\ wk[w].pc = "search"
  /\ ~Dangling
  /\ clock + ns + nl + nh <= MaxTime
  /\ clock' = clock + ns + nl + nh
  /\ outdated' = [ty \in Type |-> outdated[ty] \union
                    {[id |-> expirable[ty][k], ts |-> clock + at[ty] + k] : k \in 1 .. n[ty]}]
  /\ expirable' = [ty \in Type |-> SubSeq(expirable[ty], n[ty] + 1, Len(expirable[ty]))]
  /\ wk' = [wk EXCEPT ![w].pc = "oldest"]
  /\ UNCHANGED <<pmVars, now, tableVars, fateVars, snapshots, th, todo, rebuildVars, workload>>

\* FetchOutdatedCollections: the oldest snapshot, then the front of a queue.
ReadOldest(w) ==
  /\ wk[w].pc = "oldest"
  /\ wk' = [wk EXCEPT ![w].pc = "fetch", ![w].min = GlobalOldestSnapshotTs]
  /\ UNCHANGED <<pmVars, clock, now, tableVars, expirable, outdated, fateVars, snapshots, th,
                 todo, rebuildVars, workload>>

Oldest(ty) == CHOOSE q \in outdated[ty] : \A p \in outdated[ty] : q.ts <= p.ts
CanFetch(w, ty) == outdated[ty] # {} /\ Oldest(ty).ts < wk[w].min

Fetch(w) ==
  LET from == SelectSeq(Types, LAMBDA ty : CanFetch(w, ty))
      q == Oldest(Head(from)) IN
  /\ wk[w].pc = "fetch"
  /\ IF from = <<>>
     THEN /\ wk' = [wk EXCEPT ![w] = [Resting EXCEPT !.pc = "scan"]]
          /\ UNCHANGED <<outdated, hasty>>
     ELSE /\ wk' = [wk EXCEPT ![w] = [Resting EXCEPT !.pc = "erase", !.id = q.id]]
          /\ outdated' = [outdated EXCEPT ![Head(from)] = @ \ {q}]
          /\ hasty' = IF q.ts < GlobalOldestSnapshotTs THEN hasty ELSE hasty \union {q.id}
  /\ UNCHANGED <<pmVars, clock, now, tableVars, expirable, lost, misplaced, snapshots, th, todo,
                 rebuildVars, workload>>

AnyErased(n, i) == NoEntry   \* mutant: the entry is erased whatever it refers to

\* The entry of the name is erased if it is that of the collection.
Erased(n, i) == IF entry[n].id = i THEN NoEntry ELSE entry[n]

\* The lookup ends at the entry of m, which decides: at that of the name itself; when
\* the name has none, at another one of its bucket, or at one that is empty or belongs
\* to no collection, and then the collection is dropped.
Erase(w) ==
  LET i == wk[w].id
      n == HeaderRecord(i).name IN
  /\ wk[w].pc = "erase"
  /\ ~Freed(i)
  /\ SlotFree(n)
  /\ \/ \E m \in Name :
          /\ entry[m] # NoEntry
          /\ m = n \/ (entry[n] = NoEntry /\ SlotFree(m))
          /\ IF workload.type[m] = workload.type[n]
             THEN /\ entry' = [entry EXCEPT ![m] = Erased(m, i)]
                  /\ rec' = removeOutdatedCollection(entry[m].id)
                  /\ wk' = [wk EXCEPT ![w].pc = "scan", ![w].wait = Active]
                  /\ UNCHANGED sys
             ELSE Undefined /\ UNCHANGED <<entry, rec, wk>>
          /\ UNCHANGED lost
     \/ /\ entry[n] = NoEntry
        /\ wk' = [wk EXCEPT ![w] = [Resting EXCEPT !.pc = "scan"]]
        /\ lost' = lost \union {i}
        /\ UNCHANGED <<entry, rec, sys>>
  /\ UNCHANGED <<elems, clock, now, header, lastId, expirable, outdated, hasty, misplaced,
                 snapshots, th, todo, left, invalid, want, workload>>

\* The scan of the hash table, slot by slot in one block of it: a live collection whose
\* elements have no entries of their own is kept past the slot lock, to be cleaned
\* if its cleaning lock is free.
ScanSlot(w, n) ==
  /\ wk[w].pc = "scan"
  /\ wk[w].slot < n
  /\ SlotFree(n)
  /\ workload.type[n] \in {"Sorted", "List"}
  /\ lookupKey(n) = "Ok"
  /\ wk' = [wk EXCEPT ![w].pc = "kept", ![w].slot = n, ![w].raw = entry[n].id]
  /\ UNCHANGED <<pmVars, clock, now, tableVars, expirable, outdated, fateVars, snapshots, th,
                 todo, rebuildVars, workload>>

CleaningLocked(i) ==
  \E w \in Worker : \/ wk[w].pc = "clean" /\ wk[w].raw = i
                    \/ wk[w].pc = "free" /\ wk[w].id = i

TryCleaningLock(w) ==
  /\ wk[w].pc = "kept"
  /\ ~Freed(wk[w].raw)
  /\ wk' = IF CleaningLocked(wk[w].raw) THEN [wk EXCEPT ![w].pc = "scan", ![w].raw = Null]
           ELSE [wk EXCEPT ![w].pc = "clean"]
  /\ UNCHANGED <<pmVars, clock, now, tableVars, expirable, outdated, fateVars, snapshots, th,
                 todo, rebuildVars, workload>>

ReleaseCleaningLock(w) ==
  /\ wk[w].pc = "clean"
  /\ wk' = [wk EXCEPT ![w].pc = "scan", ![w].raw = Null]
  /\ UNCHANGED <<pmVars, clock, now, tableVars, expirable, outdated, fateVars, snapshots, th,
                 todo, rebuildVars, workload>>

\* purgeAndFree, after each slot and when the scan is over: DestroyAll when the calls
\* that were in progress have ended.  The elements go first, the header and its old
\* versions last.
DestroyElems(w) ==
  /\ wk[w].pc = "scan"
  /\ wk[w].id # Null
  /\ wk[w].wait = {}
  /\ ~Freed(wk[w].id) /\ ~CleaningLocked(wk[w].id)
  /\ elems' = elems \ {wk[w].id}
  /\ wk' = [wk EXCEPT ![w].pc = "free"]
  /\ UNCHANGED <<rec, clock, now, tableVars, expirable, outdated, fateVars, snapshots, th, todo,
                 rebuildVars, workload>>

DestroyHeader(w) ==
  LET gone == ToSet(Versions(rec, header[wk[w].id])) IN
  /\ wk[w].pc = "free"
  /\ rec' = [o \in Time |-> IF o \in gone THEN Unused ELSE rec[o]]
  /\ wk' = [wk EXCEPT ![w].pc = "scan", ![w].id = Null]
  /\ UNCHANGED <<elems, clock, now, tableVars, expirable, outdated, fateVars, snapshots, th, todo,
                 rebuildVars, workload>>

EndRound(w) ==
  /\ wk[w].pc = "scan"
  /\ wk[w].id = Null
  /\ wk' = [wk EXCEPT ![w] = Resting]
  /\ UNCHANGED <<pmVars, clock, now, tableVars, expirable, outdated, fateVars, snapshots, th,
                 todo, rebuildVars, workload>>

\* What the steps above do when the collection they use is freed.
UseFreed(w) ==
  /\ \/ wk[w].pc = "search" /\ Dangling
     \/ wk[w].pc = "erase" /\ Freed(wk[w].id)
     \/ wk[w].pc = "kept" /\ Freed(wk[w].raw)
     \/ wk[w].pc = "scan" /\ wk[w].id # Null /\ wk[w].wait = {} /\ Freed(wk[w].id)
  /\ Undefined
  /\ UNCHANGED <<pmVars, clock, now, tableVars, cleanerVars, snapshots, th, todo, left, invalid,
                 want, workload>>

Work(w) ==
  /\ sys.pc = "run"
  /\ w \in workload.workers
  /\ \/ SearchOutdatedCollections(w) \/ ReadOldest(w) \/ Fetch(w) \/ Erase(w)
     \/ \E n \in Name : ScanSlot(w, n)
     \/ TryCleaningLock(w) \/ ReleaseCleaningLock(w)
     \/ DestroyElems(w) \/ DestroyHeader(w) \/ EndRound(w) \/ UseFreed(w)

----------------------------------------------------------------------------
(***************************************************************************)
(* A crash, and the recovery of the sorted collections.                    *)
(***************************************************************************)
Crash ==
  /\ sys.pc # "undefined"
  /\ sys.crashes > 0
  /\ sys' = [sys EXCEPT !.pc = "scan", !.crashes = @ - 1]
  /\ want' = IF sys.pc = "run" /\ sys.checkpoint = Null THEN [n \in Name |-> Durable(n)] ELSE want
  /\ entry' = [n \in Name |-> NoEntry]
  /\ header' = [i \in Id |-> Null]
  /\ lastId' = 0
  /\ expirable' = [ty \in Type |-> <<>>]
  /\ outdated' = [ty \in Type |-> {}]
  /\ snapshots' = {}
  /\ th' = [t \in Thread |-> Idle]
  /\ wk' = [w \in Worker |-> Resting]
  /\ left' = {}
  /\ invalid' = {}
  /\ lost' = {} /\ hasty' = {} /\ misplaced' = {}
  /\ UNCHANGED <<pmVars, clock, now, todo, workload>>

UnlinkedInvalid(o) == rec[o].state = "Unlinked"   \* mutant: also with a checkpoint

\* AddHeader of every header: one that is not linked is freed, unless there is a
\* checkpoint it may belong to.
Invalid(o) == rec[o].state = "Unlinked" /\ sys.checkpoint = Null

AddHeaders ==
  /\ sys.pc = "scan"
  /\ rec' = [o \in Time |-> IF Invalid(o) THEN Unused ELSE rec[o]]
  /\ left' = {o \in Time : rec[o].state = "Linked"}
  /\ sys' = [sys EXCEPT !.pc = "init"]
  /\ UNCHANGED <<elems, clock, now, tableVars, cleanerVars, snapshots, th, todo, invalid, want,
                 workload>>

findCheckpointVersion(o) ==
  LET same == SelectSeq(Versions(rec, o), LAMBDA v : rec[v].id = rec[o].id)
      old == SelectSeq(same, LAMBDA v : v <= sys.checkpoint) IN
  IF sys.checkpoint = Null THEN o ELSE IF old = <<>> THEN Null ELSE Head(old)

initRebuildLists ==
  LET o == CHOOSE p \in left : \A q \in left : rec[p].id <= rec[q].id
      i == rec[o].id
      v == findCheckpointVersion(o) IN
  /\ sys.pc = "init"
  /\ left # {}
  /\ left' = left \ {o}
  /\ lastId' = Max({lastId, i})
  /\ header' = [header EXCEPT ![i] = IF v = Null THEN o ELSE v]
  /\ LET linked == IF v \in {Null, o} THEN rec
                   ELSE [rec EXCEPT ![o].state = "Unlinked", ![v].state = "Linked"] IN
     IF v = Null \/ rec[v].status = "Outdated" \/ rec[v].expire <= now
     THEN /\ invalid' = invalid \union {i}
          /\ rec' = linked
          /\ UNCHANGED entry
     ELSE /\ entry[rec[o].name] = NoEntry
          /\ entry' = [entry EXCEPT ![rec[o].name] = [id |-> i, status |-> rec[v].status]]
          /\ rec' = [linked EXCEPT ![v].old = Null]
          /\ UNCHANGED invalid
  /\ UNCHANGED <<elems, clock, now, cleanerVars, snapshots, th, todo, sys, want, workload>>

\* cleanInvalidRecords: the headers that are not linked, then Destroy of the invalid
\* collections, the elements of one before its header.
CleanUnlinked ==
  /\ sys.pc = "init"
  /\ left = {}
  /\ rec' = [o \in Time |-> IF rec[o].state = "Unlinked" THEN Unused ELSE rec[o]]
  /\ sys' = [sys EXCEPT !.pc = "clean"]
  /\ UNCHANGED <<elems, clock, now, tableVars, cleanerVars, snapshots, th, todo, left, invalid,
                 want, workload>>

DestroyInvalid(i) ==
  /\ sys.pc = "clean"
  /\ i \in invalid
  /\ IF i \in elems
     THEN /\ elems' = elems \ {i}
          /\ UNCHANGED <<rec, invalid>>
     ELSE /\ rec' = [rec EXCEPT ![header[i]] = Unused]
          /\ invalid' = invalid \ {i}
          /\ UNCHANGED elems
  /\ UNCHANGED <<clock, now, tableVars, cleanerVars, snapshots, th, todo, sys, left, want,
                 workload>>

\* The checkpoint is released and the engine runs.
Recovered ==
  /\ sys.pc = "clean"
  /\ invalid = {}
  /\ sys' = [sys EXCEPT !.pc = "run", !.checkpoint = Null]
  /\ UNCHANGED <<pmVars, clock, now, tableVars, cleanerVars, snapshots, th, todo, left, invalid,
                 want, workload>>

Recover ==
  AddHeaders \/ initRebuildLists \/ CleanUnlinked \/ Recovered \/ \E i \in Id : DestroyInvalid(i)

----------------------------------------------------------------------------
Init ==
  /\ workload \in Workloads
  /\ rec = [o \in Time |-> Unused]
  /\ elems = {}
  /\ clock = 0
  /\ now = 0
  /\ entry = [n \in Name |-> NoEntry]
  /\ header = [i \in Id |-> Null]
  /\ lastId = 0
  /\ expirable = [ty \in Type |-> <<>>]
  /\ outdated = [ty \in Type |-> {}]
  /\ snapshots = {}
  /\ th = [t \in Thread |-> Idle]
  /\ todo = workload.calls
  /\ wk = [w \in Worker |-> Resting]
  /\ sys = [pc |-> "run", checkpoint |-> Null, crashes |-> workload.crashes]
  /\ left = {}
  /\ invalid = {}
  /\ want = [n \in Name |-> Nothing]
  /\ lost = {} /\ hasty = {} /\ misplaced = {}

Next ==
  \/ \E t \in Thread : Call(t) \/ Step(t) \/ Iterated(t)
  \/ Tick
  \/ \E w \in Worker : Work(w)
  \/ Crash
  \/ Recover

Spec ==
  /\ Init /\ [][Next]_vars
  /\ \A t \in Thread : WF_vars(Step(t))
  /\ \A w \in Worker : WF_vars(Work(w))
  /\ WF_vars(Recover)

----------------------------------------------------------------------------
TypeOK ==
  /\ rec \in [Time -> [state : {"Free", "Linked", "Unlinked"}, id : 0 .. MaxId,
                       name : Name \union {Null}, status : {"Normal", "Outdated"},
                       expire : 0 .. MaxNow + kPersistTime, old : 0 .. MaxTime]]
  /\ elems \subseteq Id
  /\ clock \in 0 .. MaxTime
  /\ now \in 0 .. MaxNow
  /\ entry \in [Name -> [id : 0 .. MaxId, status : {"Normal", "Outdated"}]]
  /\ header \in [Id -> 0 .. MaxTime]
  /\ expirable \in [Type -> Seq(Id)]
  /\ \A ty \in Type : outdated[ty] \subseteq [id : Id, ts : Time]
  /\ snapshots \subseteq Time
  /\ wk \in [Worker -> [pc : {"search", "oldest", "fetch", "erase", "scan", "kept", "clean", "free"},
                        min : 0 .. kMaxTimestamp, id : 0 .. MaxId, wait : SUBSET Thread,
                        slot : Name \union {Null}, raw : 0 .. MaxId]]
  /\ sys.pc \in {"run", "scan", "init", "clean", "undefined"}
  /\ left \subseteq Time /\ invalid \subseteq Id
  /\ lost \union hasty \union misplaced \subseteq Id

\* The old version of a header record, also when it is the header of an earlier
\* collection of that name, is a record that is still there.
OldVersionsThere ==
  \A o \in Time : rec[o].state # "Free" /\ rec[o].old # Null /\ sys.pc = "run" =>
    rec[rec[o].old].state # "Free"

\* Nobody can reach a collection that is freed: no call in progress, no hash entry,
\* neither an expirable set nor the queue of the cleaner, no worker that cleans or
\* destroys it (purgeAndFree frees the Skiplist with its records), no iterator unless
\* the cleaner took the collection with an oldest snapshot read before the iterator's
\* was made, and no header has one as its old version: removeOutdatedCollection says
\* "collection should not be destroyed yet!".  Left out are the collections that were
\* registered to expire while the cleaner had them or in a set that was out of order,
\* and the pointers a scan keeps past the slot lock.
NoFreedCollection ==
  LET calls == {th[t].id : t \in {u \in Thread : th[u].pc # "iterate"}}
      iterators == {th[t].id : t \in {u \in Thread : th[u].pc = "iterate"}}
      sets == UNION {ToSet(expirable[ty]) : ty \in Type}
      queued == {q.id : q \in UNION {outdated[ty] : ty \in Type}}
      worked == {wk[w].id : w \in Worker}
                \union {wk[w].raw : w \in {v \in Worker : wk[v].pc = "clean"}}
      held == calls \union (iterators \ hasty) \union {entry[n].id : n \in Name}
              \union sets \union queued \union worked IN
  TypeOK /\ OldVersionsThere /\ \A i \in held \ (misplaced \union {Null}) : ~Freed(i)

\* The same with nothing left out: no step uses a freed collection, and no iterator is
\* on one.  The scan of the cleaner, two workers beside an iterator, and a collection
\* that is destroyed or given a new time when its time has come do not keep it.
NothingFreedUsed ==
  sys.pc # "undefined" /\ \A t \in Thread : th[t].id # Null => ~Freed(th[t].id)

\* A collection that was created, and neither destroyed nor expired, is the one its
\* name finds; the cleaner takes away no other entry than that of the collection it
\* destroys.  A collection that is given a new time after the cleaner has queued it is
\* left out: FetchOutdatedCollections does not ask again whether it has expired.
LiveCollectionsFound ==
  sys.pc = "run" =>
    \A i \in Id :
      /\ header[i] # Null
      /\ i \notin misplaced
      /\ HeaderRecord(i).state = "Linked"
      /\ HeaderRecord(i).status = "Normal"
      /\ ~HasExpired(i)
      /\ \A t \in Thread : th[t].pc = "publish" => th[t].id # i
      => entry[HeaderRecord(i).name] = [id |-> i, status |-> "Normal"]

\* When the engine runs again, recovery has found under every name the collection
\* that was there at the crash, or at the checkpoint, and no other, whatever of
\* destroyed ones, of later ones and of their headers was still in PMem; and nothing
\* is left there but the headers and the elements of the collections it found.
RecoveryRestores ==
  [][sys.pc = "clean" /\ sys'.pc = "run" =>
       LET found == {entry[n].id : n \in Name} \ {Null} IN
       /\ \A n \in Name :
            /\ entry[n].id \in {Null, want[n].id}
            /\ entry[n].id = Null => want[n].expire <= now
       /\ {o \in Time : rec[o].state # "Free"} = {header[i] : i \in found}
       /\ elems \subseteq found]_vars

\* What is outdated, of the kinds that are registered for it: a destroyed sorted
\* collection, and sorted and hash collections whose time has come and that were made
\* since the engine started.
Outdated(i) ==
  \/ TypeOf(i) = "Sorted" /\ HeaderRecord(i).status = "Outdated"
  \/ /\ TypeOf(i) \in {"Sorted", "Hash"}
     /\ HeaderRecord(i).status = "Normal" /\ HasExpired(i)
     /\ sys.crashes = workload.crashes

\* A collection that is destroyed or expired is freed in the end, unless the cleaner
\* dropped it, it was registered in a set out of order, or a snapshot is never
\* released; recovery comes to its end.
OutdatedAreFreed ==
  <>[](\/ sys.pc = "undefined"
       \/ /\ sys.pc = "run"
          /\ \/ snapshots # {}
             \/ \A i \in Id \ (lost \union misplaced) :
                  header[i] # Null /\ ~Freed(i) => ~Outdated(i))
=============================================================================
