------------------------------- MODULE DLList -------------------------------
(***************************************************************************)
(* The persistent doubly linked list under a hash collection: writers that *)
(* insert, update and unlink records under the lock table, the cleaner,    *)
(* the replacement of the list header by Expire, one-element batches with  *)
(* their rollback log, a crash between any two persisted pointers, and the *)
(* recovery that repairs the links and rebuilds the index.                 *)
(*                                                                         *)
(* A write that persists a whole record that nothing points to yet is one  *)
(* step; the crash that tears it leaves the space as the crash before it.  *)
(* Each later pointer is a step of its own.                                *)
(***************************************************************************)
EXTENDS Integers, FiniteSets, FiniteSetsExt

CONSTANTS
  Thread,       \* the access threads, numbers
  NumKeys,      \* the keys of the collection are 1 .. NumKeys
  NumOffsets,   \* the record spaces in PMem
  NumElems,     \* the list holds the keys 1 .. NumElems at the start
  Deleted,      \* those of them that are deleted and not yet cleaned
  LockOf,       \* the entry of the lock table a record hashes to
  Workloads,    \* the calls each thread may make, one choice for a behaviour
  Rebuilder,    \* "hash" or "list": whose initRebuildLists recovery runs
  MaxCalls,     \* bound: calls made in a behaviour
  MaxCrashes,   \* bound: crashes in a behaviour
  None

Key == 1 .. NumKeys
Offset == 1 .. NumOffsets
kNullPMemOffset == 0
Link == Offset \union {kNullPMemOffset}
Lock == {LockOf[o] : o \in Offset}
Coll == 0                       \* the name of the collection, as a hash key
AnyKey == Key \union {Coll}
Val == Thread \union {0, Max(Thread) + 1}
InitialVal == Max(Thread) + 1

Ops == {"Put", "Delete", "Clean", "Expire"}
Calls == [op : Ops, key : AnyKey, batch : BOOLEAN]
NoCall == [op |-> "Put", key |-> Coll, batch |-> FALSE]

\* The constants fit together: the header and each initial key have a space.
ASSUME DLListAssumption ==
  /\ Thread \subseteq Nat \ {0} /\ IsFiniteSet(Thread) /\ Thread # {}
  /\ {NumKeys, NumOffsets, NumElems, MaxCalls, MaxCrashes} \subseteq Nat
  /\ NumElems <= NumKeys /\ NumOffsets > NumElems /\ Deleted \subseteq 1 .. NumElems
  /\ LockOf \in [Offset -> Nat]
  /\ Workloads \subseteq [Thread -> SUBSET Calls]
  /\ Rebuilder \in {"hash", "list"}
  /\ None \notin Thread

VARIABLES
  pm,       \* persistent: the record in each space
  log,      \* persistent: records of batches that are not committed
  free,     \* spaces the allocator may hand out
  garbage,  \* records to free, each with the calls that may still see it
  header,   \* DLList::header_
  index,    \* hash table: the record of each key, 0 if there is none
  keylock,  \* holder of the hash slot lock of each key
  dllock,   \* holder of each entry of the lock table
  pc, call, new, cur, back, prev, next, need,  \* the call of each thread
  mode,     \* "run", or the phase of recovery
  todo,     \* recovery: spaces still to be scanned
  rb,       \* recovery: the record being unlinked and how far that is
  headers,  \* recovery: linked headers found by the scan
  iter,     \* recovery: next record of the rebuild
  unlinked, \* recovery: records to destroy when the rebuild is over
  workload, \* one of Workloads
  held,     \* history: the value each key has for good, whatever crashes
  calls, crashes

dram == <<free, garbage, header, index, keylock, dllock>>
local == <<pc, call, new, cur, back, prev, next, need>>
recovery == <<mode, todo, rb, headers, iter, unlinked>>
bounds == <<workload, calls, crashes>>
vars == <<pm, log, dram, local, recovery, held, bounds>>

Record ==
  [type : {"Empty", "Header", "Elem"}, key : AnyKey, val : Val,
   status : {"Normal", "Outdated", "Dirty"}, old : Link, prev : Link, next : Link,
   ts : 0 .. MaxCalls]

EmptyRecord ==
  [type |-> "Empty", key |-> Coll, val |-> 0, status |-> "Normal",
   old |-> kNullPMemOffset, prev |-> kNullPMemOffset, next |-> kNullPMemOffset, ts |-> 0]

NoWork == [rec |-> kNullPMemOffset, stage |-> "none"]

-----------------------------------------------------------------------------
(* What the links say.                                                     *)

CheckNextLinkage(p, o) == p[o].next # kNullPMemOffset /\ p[p[o].next].prev = o
CheckPrevLinkage(p, o) == p[o].prev # kNullPMemOffset /\ p[p[o].prev].next = o

\* The records that the links of one kind lead to from a record.
Chain(link, o) ==
  LET C[i \in Offset] ==
        IF i = 1 THEN {link[o]} \ {kNullPMemOffset}
        ELSE LET S == C[i - 1] IN S \union ({link[x] : x \in S} \ {kNullPMemOffset})
  IN  C[NumOffsets]

\* The older versions of a record.
OlderVersions(o) == Chain([x \in Offset |-> pm[x].old], o)

\* removeOutDatedVersion, when no snapshot needs an older version: the chain is
\* cut, and what was live in it becomes Dirty.
CutOlderVersions(o) ==
  [x \in Offset |->
     IF x = o THEN [pm[x] EXCEPT !.old = kNullPMemOffset]
     ELSE IF x \in OlderVersions(o) /\ pm[x].status = "Normal"
          THEN [pm[x] EXCEPT !.status = "Dirty"]
     ELSE pm[x]]

\* Records leave for the pending lists of the cleaner.  They are freed once the
\* calls that run now are over (LocalOldestSnapshotTS passes their release time).
InCall == {u \in Thread : pc[u] # "idle"}
Release(S) == garbage \union [rec : S, waits : {InCall}]

-----------------------------------------------------------------------------
\* A list that earlier calls have filled: the header in space 1, then the keys.
Init ==
  LET last == NumElems + 1
      Initial(o) ==
        [EmptyRecord EXCEPT !.type = IF o = 1 THEN "Header" ELSE "Elem",
                            !.key = o - 1,
                            !.val = IF o - 1 \in Deleted \union {Coll} THEN 0 ELSE InitialVal,
                            !.status = IF o - 1 \in Deleted THEN "Outdated" ELSE "Normal",
                            !.prev = IF o = 1 THEN last ELSE o - 1,
                            !.next = IF o = last THEN 1 ELSE o + 1]
  IN  /\ pm = [o \in Offset |-> IF o <= last THEN Initial(o) ELSE EmptyRecord]
      /\ log = {}
      /\ free = {o \in Offset : o > last}
      /\ garbage = {}
      /\ header = 1
      /\ index = [k \in Key |-> IF k <= NumElems THEN k + 1 ELSE kNullPMemOffset]
      /\ keylock = [k \in AnyKey |-> None]
      /\ dllock = [l \in Lock |-> None]
      /\ pc = [t \in Thread |-> "idle"]
      /\ call = [t \in Thread |-> NoCall]
      /\ back = [t \in Thread |-> FALSE]
      /\ need = [t \in Thread |-> {}]
      /\ new = [t \in Thread |-> kNullPMemOffset]
      /\ cur = new /\ prev = new /\ next = new
      /\ mode = "run" /\ todo = {} /\ rb = NoWork /\ headers = {}
      /\ iter = kNullPMemOffset /\ unlinked = {}
      /\ workload \in Workloads
      /\ held = [k \in Key |-> IF k <= NumElems /\ k \notin Deleted THEN InitialVal ELSE 0]
      /\ calls = 0 /\ crashes = 0

-----------------------------------------------------------------------------
(* The calls.  Each holds the slot lock of its key from Call to Return.    *)

\* Look the key up and, if the call writes a record, allocate its space; a batch
\* then persists its log.  An allocation that fails ends the call as it began.
CallPut(t, c) ==
  /\ c.op = "Put"
  /\ \E o \in free, b \in BOOLEAN :
       /\ new' = [new EXCEPT ![t] = o]
       /\ free' = free \ {o}
       /\ back' = [back EXCEPT ![t] = b /\ index[c.key] = kNullPMemOffset]
       /\ log' = IF c.batch THEN log \union {o} ELSE log
  /\ cur' = [cur EXCEPT ![t] = index[c.key]]
  /\ pc' = [pc EXCEPT ![t] = "read"]
  /\ UNCHANGED <<pm, garbage>>

CallDelete(t, c) ==
  LET e == index[c.key] IN
  /\ c.op = "Delete"
  /\ IF e = kNullPMemOffset \/ pm[e].status = "Outdated"
     THEN /\ pc' = [pc EXCEPT ![t] = "absent"]
          /\ UNCHANGED <<new, free, log, cur>>
     ELSE /\ \E o \in free : /\ new' = [new EXCEPT ![t] = o]
                             /\ free' = free \ {o}
                             /\ log' = IF c.batch THEN log \union {o} ELSE log
          /\ cur' = [cur EXCEPT ![t] = e]
          /\ pc' = [pc EXCEPT ![t] = "read"]
  /\ UNCHANGED <<pm, garbage, back>>

\* The cleaner at the slot of a deleted key that no snapshot needs.
CallClean(t, c) ==
  LET e == index[c.key] IN
  /\ c.op = "Clean"
  /\ e # kNullPMemOffset /\ pm[e].status = "Outdated"
  /\ pm' = CutOlderVersions(e)
  /\ garbage' = Release(OlderVersions(e))
  /\ cur' = [cur EXCEPT ![t] = e]
  /\ pc' = [pc EXCEPT ![t] = "read"]
  /\ UNCHANGED <<new, free, log, back>>

\* SetExpireTime persists the new header with the links of the old one, which it
\* reads without a lock.
CallExpire(t, c) ==
  /\ c.op = "Expire"
  /\ \E o \in free :
       /\ pm' = [pm EXCEPT ![o] = [pm[header] EXCEPT !.old = header, !.ts = calls + 1]]
       /\ new' = [new EXCEPT ![t] = o]
       /\ free' = free \ {o}
  /\ cur' = [cur EXCEPT ![t] = header]
  /\ pc' = [pc EXCEPT ![t] = "read"]
  /\ UNCHANGED <<garbage, log, back>>

Call(t) ==
  /\ mode = "run" /\ pc[t] = "idle" /\ calls < MaxCalls
  /\ \E c \in workload[t] :
       /\ keylock[c.key] = None
       /\ CallPut(t, c) \/ CallDelete(t, c) \/ CallClean(t, c) \/ CallExpire(t, c)
       /\ keylock' = [keylock EXCEPT ![c.key] = t]
       /\ call' = [call EXCEPT ![t] = c]
  /\ calls' = calls + 1
  /\ UNCHANGED <<header, index, dllock, prev, next, need, recovery, held, workload,
                 crashes>>

\* A Delete that finds nothing to delete.
Absent(t) ==
  /\ pc[t] = "absent"
  /\ pc' = [pc EXCEPT ![t] = "return"]
  /\ UNCHANGED <<pm, log, dram, call, new, cur, back, prev, next, need, recovery, held, bounds>>

Inserts(t) == cur[t] = kNullPMemOffset

\* InsertAfter and InsertBefore read a neighbour of the header and will lock the
\* record before the new one; acquireRecordLock reads both links of the record
\* and will lock the record before it and the record.
ReadLinks(t) ==
  LET p == IF ~Inserts(t) THEN pm[cur[t]].prev
           ELSE IF back[t] THEN pm[header].prev ELSE header
      n == IF ~Inserts(t) THEN pm[cur[t]].next
           ELSE IF back[t] THEN header ELSE pm[header].next
  IN  /\ pc[t] = "read"
      /\ prev' = [prev EXCEPT ![t] = p]
      /\ next' = [next EXCEPT ![t] = n]
      /\ need' = [need EXCEPT ![t] = {LockOf[p]} \union
                                     (IF Inserts(t) THEN {} ELSE {LockOf[cur[t]]})]
      /\ pc' = [pc EXCEPT ![t] = "lock"]
      /\ UNCHANGED <<pm, log, dram, call, new, cur, back, recovery, held, bounds>>

\* One lock of a MultiGuard, which takes them in order and each entry once.
AcquireLock(t) ==
  LET l == Min(need[t]) IN
  /\ pc[t] = "lock"
  /\ dllock[l] = None
  /\ dllock' = [dllock EXCEPT ![l] = t]
  /\ need' = [need EXCEPT ![t] = @ \ {l}]
  /\ pc' = [pc EXCEPT ![t] = IF need[t] = {l} THEN "check" ELSE "lock"]
  /\ UNCHANGED <<pm, log, free, garbage, header, index, keylock, call, new, cur, back,
                 prev, next, recovery, held, bounds>>

Unlock(t) == dllock' = [l \in Lock |-> IF dllock[l] = t THEN None ELSE dllock[l]]

\* The links are what they were before the locks were taken.
LinksKept(t) ==
  IF Inserts(t)
  THEN pm[prev[t]].next = next[t] /\ pm[next[t]].prev = prev[t]
  ELSE pm[cur[t]].prev = prev[t] /\ pm[cur[t]].next = next[t]

OnList(t) == pm[prev[t]].next = cur[t]

\* Update, unlike Replace and Remove, also looks at the link that comes back.
UpdateChecks(t) == OnList(t) /\ pm[next[t]].prev = cur[t]

\* Mutant: the locks are kept.
RetryHolding(t) ==
  /\ pc[t] = "check"
  /\ \/ ~LinksKept(t)
     \/ call[t].op \in {"Put", "Delete"} /\ ~Inserts(t) /\ ~UpdateChecks(t)
  /\ pc' = [pc EXCEPT ![t] = "read"]
  /\ UNCHANGED <<pm, log, dram, call, new, cur, back, prev, next, need, recovery, held,
                 bounds>>

\* The linkage changed before the locks were taken: unlock and read it again.
Retry(t) ==
  /\ pc[t] = "check"
  /\ \/ ~LinksKept(t)
     \/ call[t].op \in {"Put", "Delete"} /\ ~Inserts(t) /\ ~UpdateChecks(t)
  /\ Unlock(t)
  /\ pc' = [pc EXCEPT ![t] = "read"]
  /\ UNCHANGED <<pm, log, free, garbage, header, index, keylock, call, new, cur, back,
                 prev, next, need, recovery, held, bounds>>

\* InsertBetween and Update: persist the new record between its neighbours.
PersistDLRecord(t) ==
  /\ pc[t] = "check" /\ LinksKept(t)
  /\ call[t].op \in {"Put", "Delete"} /\ (Inserts(t) \/ UpdateChecks(t))
  /\ pm' = [pm EXCEPT ![new[t]] =
              [type |-> "Elem", key |-> call[t].key,
               val |-> IF call[t].op = "Put" THEN t ELSE 0,
               status |-> IF call[t].op = "Put" THEN "Normal" ELSE "Outdated",
               old |-> cur[t], prev |-> prev[t], next |-> next[t], ts |-> 0]]
  /\ pc' = [pc EXCEPT ![t] = "link1"]
  /\ UNCHANGED <<log, dram, call, new, cur, back, prev, next, need, recovery, held, bounds>>

\* Replace of a header.  The header of an empty list is its own neighbour: then
\* the new one is linked to itself, and the link of the old one broken last.
ReplaceHeader(t) ==
  LET only == prev[t] = cur[t] /\ next[t] = cur[t] IN
  /\ pc[t] = "check" /\ LinksKept(t) /\ call[t].op = "Expire" /\ OnList(t)
  /\ IF only
     THEN /\ prev' = [prev EXCEPT ![t] = new[t]]
          /\ next' = [next EXCEPT ![t] = new[t]]
          /\ UNCHANGED pm
     ELSE /\ pm' = [pm EXCEPT ![new[t]].prev = prev[t], ![new[t]].next = next[t]]
          /\ UNCHANGED <<prev, next>>
  /\ pc' = [pc EXCEPT ![t] = "link1"]
  /\ UNCHANGED <<log, dram, call, new, cur, back, need, recovery, held, bounds>>

\* Remove of a record of the list.
Remove(t) ==
  /\ pc[t] = "check" /\ LinksKept(t) /\ call[t].op = "Clean" /\ OnList(t)
  /\ pc' = [pc EXCEPT ![t] = "link1"]
  /\ UNCHANGED <<pm, log, dram, call, new, cur, back, prev, next, need, recovery, held, bounds>>

\* The call has taken effect, and a crash will not undo it.
TakeEffect(t) ==
  held' = [held EXCEPT ![call[t].key] = IF call[t].op = "Put" THEN t ELSE 0]

\* linkRecord writes the link of the predecessor first; Remove goes the other way.
FirstLink(t) ==
  /\ pc[t] = "link1"
  /\ pm' = IF call[t].op = "Clean" THEN [pm EXCEPT ![next[t]].prev = prev[t]]
                                   ELSE [pm EXCEPT ![prev[t]].next = new[t]]
  /\ IF call[t].op \in {"Put", "Delete"} /\ ~call[t].batch
     THEN TakeEffect(t) ELSE UNCHANGED held
  /\ pc' = [pc EXCEPT ![t] = "link2"]
  /\ UNCHANGED <<log, dram, call, new, cur, back, prev, next, need, recovery, bounds>>

SecondLink(t) ==
  /\ pc[t] = "link2"
  /\ pm' = IF call[t].op = "Clean" THEN [pm EXCEPT ![prev[t]].next = next[t]]
                                   ELSE [pm EXCEPT ![next[t]].prev = new[t]]
  /\ IF prev[t] = new[t]
     THEN pc' = [pc EXCEPT ![t] = "link3"] /\ UNCHANGED dllock
     ELSE pc' = [pc EXCEPT ![t] = "index"] /\ Unlock(t)
  /\ UNCHANGED <<log, free, garbage, header, index, keylock, call, new, cur, back, prev,
                 next, need, recovery, held, bounds>>

BreakOldHeader(t) ==
  /\ pc[t] = "link3"
  /\ pm' = [pm EXCEPT ![cur[t]].prev = new[t]]
  /\ Unlock(t)
  /\ pc' = [pc EXCEPT ![t] = "index"]
  /\ UNCHANGED <<log, free, garbage, header, index, keylock, call, new, cur, back, prev,
                 next, need, recovery, held, bounds>>

\* Mutant: header_ stays with the old header.
UpdateIndexOnly(t) ==
  LET c == call[t] IN
  /\ pc[t] = "index"
  /\ index' = IF c.op = "Expire" THEN index
              ELSE [index EXCEPT ![c.key] = IF c.op = "Clean" THEN kNullPMemOffset
                                                              ELSE new[t]]
  /\ garbage' = IF c.op = "Clean" THEN Release({cur[t]}) ELSE garbage
  /\ pc' = [pc EXCEPT ![t] = IF c.batch THEN "commit" ELSE "return"]
  /\ UNCHANGED <<pm, log, free, header, keylock, dllock, call, new, cur, back, prev, next,
                 need, recovery, held, bounds>>

\* The hash entry, or header_, follows the list; the cleaner erases the entry.
UpdateIndex(t) ==
  LET c == call[t] IN
  /\ pc[t] = "index"
  /\ CASE c.op \in {"Put", "Delete"} ->
            index' = [index EXCEPT ![c.key] = new[t]] /\ UNCHANGED <<header, garbage>>
       [] c.op = "Clean" ->
            /\ index' = [index EXCEPT ![c.key] = kNullPMemOffset]
            /\ garbage' = Release({cur[t]})
            /\ UNCHANGED header
       [] c.op = "Expire" -> header' = new[t] /\ UNCHANGED <<index, garbage>>
  /\ pc' = [pc EXCEPT ![t] = IF c.batch THEN "commit" ELSE "return"]
  /\ UNCHANGED <<pm, log, free, keylock, dllock, call, new, cur, back, prev, next, need,
                 recovery, held, bounds>>

\* BatchWriteLog::MarkCommitted
MarkCommitted(t) ==
  /\ pc[t] = "commit"
  /\ log' = log \ {new[t]}
  /\ TakeEffect(t)
  /\ pc' = [pc EXCEPT ![t] = "return"]
  /\ UNCHANGED <<pm, dram, call, new, cur, back, prev, next, need, recovery, bounds>>

Return(t) ==
  /\ pc[t] = "return"
  /\ pc' = [pc EXCEPT ![t] = "idle"]
  /\ keylock' = [keylock EXCEPT ![call[t].key] = None]
  /\ garbage' = {[g EXCEPT !.waits = @ \ {t}] : g \in garbage}
  /\ call' = [call EXCEPT ![t] = NoCall]
  /\ back' = [back EXCEPT ![t] = FALSE]
  /\ new' = [new EXCEPT ![t] = kNullPMemOffset]
  /\ cur' = [cur EXCEPT ![t] = kNullPMemOffset]
  /\ prev' = [prev EXCEPT ![t] = kNullPMemOffset]
  /\ next' = [next EXCEPT ![t] = kNullPMemOffset]
  /\ UNCHANGED <<pm, log, free, header, index, dllock, need, recovery, held, bounds>>

\* removeOutDatedVersion of a key nobody writes, by the cleaner, or by a writer
\* that comes by.
CleanOutDated(k) ==
  /\ mode = "run" /\ keylock[k] = None
  /\ index[k] # kNullPMemOffset /\ pm[index[k]].old # kNullPMemOffset
  /\ pm' = CutOlderVersions(index[k])
  /\ garbage' = Release(OlderVersions(index[k]))
  /\ UNCHANGED <<log, free, header, index, keylock, dllock, local, recovery, held, bounds>>

\* purgeAndFreeDLRecords: what it frees is Dirty or Outdated, so it stays readable
\* in PMem until the space is used again.
PurgeAndFree(g) ==
  /\ mode = "run" /\ g.waits = {}
  /\ garbage' = garbage \ {g}
  /\ free' = free \union {g.rec}
  /\ UNCHANGED <<pm, log, header, index, keylock, dllock, local, recovery, held, bounds>>

-----------------------------------------------------------------------------
(* Crash and recovery.                                                     *)

Crash ==
  /\ crashes < MaxCrashes
  /\ crashes' = crashes + 1
  /\ free' = {} /\ garbage' = {} /\ header' = kNullPMemOffset
  /\ index' = [k \in Key |-> kNullPMemOffset]
  /\ keylock' = [k \in AnyKey |-> None]
  /\ dllock' = [l \in Lock |-> None]
  /\ pc' = [t \in Thread |-> "idle"]
  /\ call' = [t \in Thread |-> NoCall]
  /\ back' = [t \in Thread |-> FALSE]
  /\ need' = [t \in Thread |-> {}]
  /\ new' = [t \in Thread |-> kNullPMemOffset]
  /\ cur' = new' /\ prev' = new' /\ next' = new'
  /\ mode' = "rollback" /\ todo' = {}
  /\ rb' = NoWork /\ headers' = {} /\ iter' = kNullPMemOffset /\ unlinked' = {}
  /\ UNCHANGED <<pm, log, held, workload, calls>>

\* Mutant: a linked record is removed even if it has an old version.
RollbackRemoves(o) ==
  LET linked == pm[o].type # "Empty" /\ CheckPrevLinkage(pm, o) IN
  /\ mode = "rollback" /\ rb = NoWork /\ o \in log
  /\ rb' = [rec |-> o, stage |-> IF linked THEN "remove1" ELSE "destroy"]
  /\ UNCHANGED <<pm, log, dram, local, mode, todo, headers, iter, unlinked, held, bounds>>

\* HashListRebuilder::Rollback: a linked record gives its place to its old version
\* or is removed; then, and also if it is not linked, it is destroyed.
RollbackStart(o) ==
  LET r == pm[o]
      linked == r.type # "Empty" /\ CheckPrevLinkage(pm, o)
  IN  /\ mode = "rollback" /\ rb = NoWork /\ o \in log
      /\ IF linked /\ r.old # kNullPMemOffset
         THEN pm' = [pm EXCEPT ![r.old].prev = r.prev, ![r.old].next = r.next]
         ELSE UNCHANGED pm
      /\ rb' = [rec |-> o, stage |-> CASE linked /\ r.old # kNullPMemOffset -> "replace1"
                                       [] linked /\ r.old = kNullPMemOffset -> "remove1"
                                       [] OTHER -> "destroy"]
      /\ UNCHANGED <<log, dram, local, mode, todo, headers, iter, unlinked, held, bounds>>

NextStage(s) ==
  CASE s = "replace1" -> "replace2" [] s = "remove1" -> "remove2" [] OTHER -> "destroy"

RollbackLink ==
  LET r == pm[rb.rec] IN
  /\ mode = "rollback" /\ rb.stage \in {"replace1", "replace2", "remove1", "remove2"}
  /\ pm' = CASE rb.stage = "replace1" -> [pm EXCEPT ![r.prev].next = r.old]
             [] rb.stage = "replace2" -> [pm EXCEPT ![r.next].prev = r.old]
             [] rb.stage = "remove1" -> [pm EXCEPT ![r.next].prev = r.prev]
             [] rb.stage = "remove2" -> [pm EXCEPT ![r.prev].next = r.next]
  /\ rb' = [rb EXCEPT !.stage = NextStage(@)]
  /\ UNCHANGED <<log, dram, local, mode, todo, headers, iter, unlinked, held, bounds>>

RollbackDestroy ==
  /\ mode = "rollback" /\ rb.stage = "destroy"
  /\ pm' = [pm EXCEPT ![rb.rec].type = "Empty"]
  /\ rb' = [rb EXCEPT !.stage = "mark"]
  /\ UNCHANGED <<log, dram, local, mode, todo, headers, iter, unlinked, held, bounds>>

\* BatchWriteLog::MarkInitializing
RollbackDone ==
  /\ mode = "rollback" /\ rb.stage = "mark"
  /\ log' = log \ {rb.rec}
  /\ rb' = NoWork
  /\ UNCHANGED <<pm, dram, local, mode, todo, headers, iter, unlinked, held, bounds>>

\* No log is left; the scan of PMem begins.  The records that restoreData frees
\* without a look at their links may be freed at any time of the scan, so they are
\* freed first.
RemoveLogs ==
  LET dead == {o \in Offset : pm[o].type = "Empty" \/ pm[o].status = "Dirty"} IN
  /\ mode = "rollback" /\ rb = NoWork /\ log = {}
  /\ mode' = "scan" /\ todo' = Offset \ dead
  /\ free' = dead
  /\ UNCHANGED <<pm, log, garbage, header, index, keylock, dllock, local, rb, headers, iter,
                 unlinked, held, bounds>>

\* Mutant: the linkage is checked and not repaired.
RepairsNothing(o) == [pm EXCEPT ![o] = @]

\* CheckAndRepairLinkage: the links after it, given that one of them is right.
Repaired(o) ==
  IF CheckNextLinkage(pm, o) THEN pm ELSE [pm EXCEPT ![pm[o].next].prev = o]

\* restoreData at one record: repair what is linked, purge the rest.
RestoreRecord(o) ==
  /\ mode = "scan" /\ o \in todo
  /\ todo' = todo \ {o}
  /\ IF CheckNextLinkage(pm, o) \/ CheckPrevLinkage(pm, o)
     THEN /\ pm' = Repaired(o)
          /\ headers' = IF pm[o].type = "Header" THEN headers \union {o} ELSE headers
          /\ UNCHANGED free
     ELSE /\ pm' = [pm EXCEPT ![o].type = "Empty"]
          /\ free' = free \union {o}
          /\ UNCHANGED headers
  /\ UNCHANGED <<log, garbage, header, index, keylock, dllock, local, mode, rb, iter,
                 unlinked, held, bounds>>

Newest(S) == CHOOSE h \in S : \A g \in S : pm[g].ts <= pm[h].ts

\* initRebuildLists.  Of two headers with one id the hash rebuilder keeps the newer
\* and breaks the links of the other; the list rebuilder takes both, and gives up
\* when it finds the name already in the hash table.
InitRebuildLists ==
  LET h == Newest(headers) IN
  /\ mode = "scan" /\ todo = {} /\ headers # {}
  /\ IF Rebuilder = "list" /\ Cardinality(headers) > 1
     THEN mode' = "aborted" /\ UNCHANGED <<pm, header, iter, unlinked>>
     ELSE /\ pm' = [o \in Offset |->
                      IF o = h THEN [pm[o] EXCEPT !.old = kNullPMemOffset]
                      ELSE IF o \in headers THEN [pm[o] EXCEPT !.prev = h]
                      ELSE pm[o]]
          /\ header' = h
          /\ iter' = pm[h].next
          /\ unlinked' = headers \ {h}
          /\ mode' = "rebuild"
  /\ headers' = {}
  /\ UNCHANGED <<log, free, garbage, index, keylock, dllock, local, todo, rb, held, bounds>>

\* rebuildIndex at one record: a live one enters the hash table, a deleted one
\* begins to leave the list.
RebuildIndex ==
  LET r == pm[iter] IN
  /\ mode = "rebuild" /\ rb = NoWork /\ iter # header
  /\ IF r.status = "Outdated"
     THEN /\ pm' = [pm EXCEPT ![r.next].prev = r.prev]
          /\ rb' = [rec |-> iter, stage |-> "remove2"]
          /\ unlinked' = unlinked \union {iter}
          /\ UNCHANGED index
     ELSE /\ pm' = [pm EXCEPT ![iter].old = kNullPMemOffset]
          /\ index' = [index EXCEPT ![r.key] = iter]
          /\ UNCHANGED <<rb, unlinked>>
  /\ iter' = r.next
  /\ UNCHANGED <<log, free, garbage, header, keylock, dllock, local, mode, todo, headers,
                 held, bounds>>

RebuildRemove ==
  LET r == pm[rb.rec] IN
  /\ mode = "rebuild" /\ rb # NoWork
  /\ pm' = [pm EXCEPT ![r.prev].next = r.next]
  /\ rb' = NoWork
  /\ UNCHANGED <<log, dram, local, mode, todo, headers, iter, unlinked, held, bounds>>

\* cleanInvalidRecords, and the instance is open again.
CleanInvalidRecords ==
  LET dead == {o \in unlinked : ~(CheckPrevLinkage(pm, o) /\ CheckNextLinkage(pm, o))} IN
  /\ mode = "rebuild" /\ rb = NoWork /\ iter = header
  /\ pm' = [o \in Offset |-> IF o \in dead THEN [pm[o] EXCEPT !.type = "Empty"] ELSE pm[o]]
  /\ free' = free \union dead
  /\ unlinked' = {} /\ iter' = kNullPMemOffset
  /\ mode' = "run"
  /\ UNCHANGED <<log, garbage, header, index, keylock, dllock, local, todo, rb, headers,
                 held, bounds>>

-----------------------------------------------------------------------------
Step(t) ==
  \/ Absent(t) \/ ReadLinks(t) \/ AcquireLock(t) \/ Retry(t)
  \/ PersistDLRecord(t) \/ ReplaceHeader(t) \/ Remove(t)
  \/ FirstLink(t) \/ SecondLink(t) \/ BreakOldHeader(t)
  \/ UpdateIndex(t) \/ MarkCommitted(t) \/ Return(t)

Recover ==
  \/ \E o \in Offset : RollbackStart(o) \/ RestoreRecord(o)
  \/ RollbackLink \/ RollbackDestroy \/ RollbackDone \/ RemoveLogs
  \/ InitRebuildLists \/ RebuildIndex \/ RebuildRemove \/ CleanInvalidRecords

Next ==
  \/ \E t \in Thread : Call(t) \/ Step(t)
  \/ \E k \in Key : CleanOutDated(k)
  \/ \E g \in garbage : PurgeAndFree(g)
  \/ Crash
  \/ Recover

\* A call that has begun goes on, and so does a recovery; nobody has to call.
Fairness == (\A t \in Thread : WF_vars(Step(t))) /\ WF_vars(Recover)

Spec == Init /\ [][Next]_vars /\ Fairness

-----------------------------------------------------------------------------
(* Properties.                                                             *)

\* Every variable has its type, in calls and in every phase of a recovery.
TypeOK ==
  /\ pm \in [Offset -> Record]
  /\ log \subseteq Offset /\ free \subseteq Offset
  /\ garbage \subseteq [rec : Offset, waits : SUBSET Thread]
  /\ header \in Link /\ index \in [Key -> Link]
  /\ keylock \in [AnyKey -> Thread \union {None}]
  /\ dllock \in [Lock -> Thread \union {None}]
  /\ pc \in [Thread -> {"idle", "absent", "read", "lock", "check", "link1",
                        "link2", "link3", "index", "commit", "return"}]
  /\ call \in [Thread -> Calls] /\ back \in [Thread -> BOOLEAN]
  /\ {new, cur, prev, next} \subseteq [Thread -> Link]
  /\ need \in [Thread -> SUBSET Lock]
  /\ mode \in {"run", "rollback", "scan", "rebuild", "aborted"}
  /\ todo \subseteq Offset /\ headers \subseteq Offset /\ unlinked \subseteq Offset
  /\ rb.rec \in Link /\ iter \in Link
  /\ held \in [Key -> Val]

\* The records after one along the next links, as far as they go.
After(o) == Chain([x \in Offset |-> pm[x].next], o)

\* The header of the list: the newest from which the next links lead back to it.
Headers == {o \in Offset : pm[o].type = "Header" /\ o \in After(o)}
ListHeader == Newest(Headers)

\* The elements of the list.
Elems == After(ListHeader) \ {ListHeader}

\* No call writes a link into a record that has been freed, or links to one: the
\* check under the locks turns away the neighbours that were freed meanwhile.  (The
\* check itself may read a freed neighbour: between the last link of Replace and the
\* store to header_ a push still starts from the old header, whose next is stale.)
NoFreedNeighbour ==
  \A t \in Thread :
    /\ {cur[t], new[t]} \intersect free = {}
    /\ pc[t] \in {"link1", "link2", "link3"} => {prev[t], next[t]} \intersect free = {}

\* "existing header should be linked on its list" (SetExpireTime), and the cleaner
\* finds the deleted record it unlinks on the list: neither assertion fails, so
\* Replace and Remove never return false to these two callers.
RecordFoundOnList ==
  \A t \in Thread :
    pc[t] = "check" /\ call[t].op \in {"Clean", "Expire"} /\ LinksKept(t) => OnList(t)

\* In every state, a crash at any pointer included, the next links run from the
\* header through live records, one for a key, back to the header; none of them is
\* free or about to be freed, and a link whose lock nobody holds has its way back,
\* but for a new record whose second link is still to be written (linkRecord, Remove,
\* Replace, CheckAndRepairLinkage).  The calls stay on it.
ListWhole ==
  LET elems == Elems
      forward == elems \union {ListHeader}
      linking == {new[t] : t \in {u \in Thread : pc[u] = "link2"}}
  IN  /\ TypeOK /\ NoFreedNeighbour /\ RecordFoundOnList
      /\ Headers # {}
      /\ \A o \in elems : pm[o].type = "Elem" /\ pm[o].status # "Dirty"
      /\ \A x, y \in elems : pm[x].key = pm[y].key => x = y
      /\ forward \intersect (free \union {g.rec : g \in garbage}) = {}
      /\ mode = "run" =>
           \A o \in forward \ linking :
             dllock[LockOf[o]] = None => CheckNextLinkage(pm, o)

\* While nobody writes a key its hash entry is its record on the list, and
\* header_ is the header: a recovery rebuilds what the calls had built.
IndexMatchesList ==
  LET elems == Elems IN
  mode = "run" =>
    /\ \A k \in Key : keylock[k] = None =>
         {o \in elems : pm[o].key = k} = {index[k]} \ {kNullPMemOffset}
    /\ keylock[Coll] = None => header = ListHeader

\* What the list holds if the instance crashes now: the records on it, each record
\* of a batch that is not committed standing for what its rollback puts back.
Durable ==
  LET kept == {IF o \in log THEN pm[o].old ELSE o : o \in Elems} \ {kNullPMemOffset} IN
  [k \in Key |->
     IF \E o \in kept : pm[o].key = k
     THEN pm[CHOOSE o \in kept : pm[o].key = k].val ELSE 0]

\* HashPut, HashDelete and a batch take effect in one step, at the link of the
\* predecessor or at the commit; no other step of a call, no crash and no step of a
\* recovery changes what the collection holds ("The data will be rollbacked if the
\* instance crash during a batch write").
CollectionKept == Durable = held

\* Once nobody calls and nothing crashes any more (MaxCalls, MaxCrashes), every call
\* has returned and the instance is open: the lock table cannot deadlock, no retry
\* goes on for ever, and every recovery comes to its end.
Settles == <>[](mode = "run" /\ \A t \in Thread : pc[t] = "idle")

\* The list rebuilder never meets a second header of a list ("hash entry of list
\* records should not be inserted before rebuild").
OneHeaderPerList == mode # "aborted"
=============================================================================
