-------------------------------- MODULE List --------------------------------
(***************************************************************************)
(* Lists of a KVDK instance: engine/list_collection (List, its iterator    *)
(* and its rebuilder), the list operations of engine/kv_engine_list.cpp,   *)
(* cleanList of the cleaner, and snapshots and checkpoints as far as lists *)
(* see them.                                                               *)
(*                                                                         *)
(* A list has its records in PMem, in a circular doubly linked list with   *)
(* old versions behind the records, and a deque of the live ones in DRAM.  *)
(* An operation of a DLList is one step here; DLList has its stores one by *)
(* one.  A call that uses no batch log takes the lock of the list and its  *)
(* timestamp in one step and does its work in another: snapshots and       *)
(* iterators take no lock.  A batch takes a step per record and may crash  *)
(* between them.  Headers are the offsets 1 .. NumLists and stay.          *)
(***************************************************************************)
EXTENDS Integers, FiniteSets, SequencesExt, TLC

CONSTANTS
  NumLists,
  MaxOffset,   \* bound: the records PMem has space for, headers included
  Elem,        \* the elements of lists
  Workloads    \* what is called, and how often; a behaviour has one of them

Lists == 1 .. NumLists
Offset == 1 .. MaxOffset
Null == 0                          \* kNullPMemOffset
Pos == {"Front", "Back"}

(***************************************************************************)
(* calls: the operations that are called; maxOps, maxCrashes, maxPasses:   *)
(* bounds on calls, crashes and passes of the cleaner; recover:            *)
(* configs_.recover_to_checkpoint; start: elements pushed before; on,      *)
(* vals: the lists and the values of the calls.                            *)
(***************************************************************************)
Workload ==
  [calls : SUBSET {"Push", "Pop", "Insert", "Erase", "Replace", "BatchPush",
                   "BatchPop", "Move", "Snapshot", "Checkpoint", "Iterate"},
   maxOps : Nat, maxCrashes : Nat, maxPasses : Nat, recover : BOOLEAN,
   start : Seq(Lists \X Elem), on : SUBSET Lists, vals : SUBSET Elem]

ASSUME ListAssumption ==
  /\ NumLists \in Nat \ {0} /\ MaxOffset \in Nat
  /\ \A w \in Workloads : /\ w.start \in Seq(Lists \X Elem)
                          /\ NumLists + Len(w.start) <= MaxOffset

VARIABLES
  pm,          \* PMem: the record at each offset
  free,        \* the offsets the allocator may give out
  log,         \* the batch log of the thread that runs batches
  checkpoint,  \* persist_checkpoint_: its timestamp, 0 if it is not valid
  live,        \* live_records_ of each list
  batch,       \* the batch that runs: the lists it locks, and what is left of it
  call,        \* the call without log that holds the lock of each list
  pending,     \* unlinked records to be freed, with their release time
  local,       \* LocalOldestSnapshotTS()
  clock,       \* the last timestamp given out
  snapshot,    \* the timestamp of the global snapshot, 0 if there is none
  taking,      \* the timestamp of the snapshot that is being made, or 0
  cleaner,     \* the list that is cleaned (0: none), the record at hand, the
               \* next one, and what the pass has unlinked
  iter,        \* an iterator of the snapshot
  mode, at, unlinked,   \* recovery: its phase, its place, unlinked_records
  saved,       \* history: the contents of the lists at the snapshot
  spoiled,     \* history: the lists that lost something to the making of it
  lapsed,      \* history: what has been freed since the snapshot
  expect,      \* history: the contents that recovery has to restore
  workload, ops, crashes, passes

pmVars    == <<pm, free, log, checkpoint>>
cleanVars == <<pending, local, cleaner, passes>>
lockVars  == <<batch, call>>
snapCtl   == <<snapshot, taking, lapsed>>
histVars  == <<saved, spoiled>>
snapVars  == <<snapCtl, histVars, iter>>
recVars   == <<mode, at, unlinked, expect, crashes>>
vars == <<pmVars, live, lockVars, clock, cleanVars, snapVars, recVars, workload, ops>>

EmptyRecord ==
  [list |-> 0, val |-> 0, status |-> "Empty", ts |-> 0, old |-> 0, prev |-> 0, next |-> 0]
Header(l) ==
  [list |-> l, val |-> 0, status |-> "Normal", ts |-> 0, old |-> 0, prev |-> l, next |-> l]
IsElem(o) == o \notin Lists
Validate(p, o) == p[o].status # "Empty"

----------------------------------------------------------------------------
(***************************************************************************)
(* The operations of a DLList on PMem p.                                   *)
(***************************************************************************)
\* linkRecord: o stands between prev and next.
LinkRecord(p, prev, next, o, record) ==
  LET q == [p EXCEPT ![o] = [record EXCEPT !.prev = prev, !.next = next]]
      r == [q EXCEPT ![prev].next = o] IN
  [r EXCEPT ![next].prev = o]

InsertBetween(p, prev, next, o, l, val, ts) ==
  LinkRecord(p, prev, next, o,
    [EmptyRecord EXCEPT !.list = l, !.val = val, !.status = "Normal", !.ts = ts])

\* Update links a new record with the current one as its old version.
Update(p, current, o, val, status, ts) ==
  LinkRecord(p, p[current].prev, p[current].next, o,
    [list |-> p[current].list, val |-> val, status |-> status, ts |-> ts,
     old |-> current, prev |-> 0, next |-> 0])

OnList(p, o) == p[p[o].prev].next = o
Unlink(p, o) ==
  [[p EXCEPT ![p[o].next].prev = p[o].prev] EXCEPT ![p[o].prev].next = p[o].next]
Replace(p, o, new) == LinkRecord(p, p[o].prev, p[o].next, new, p[new])

CheckPrevLinkage(p, o) == OnList(p, o) /\ p[p[o].prev].list = p[o].list
CheckNextLinkage(p, o) == p[p[o].next].prev = o /\ p[p[o].next].list = p[o].list
CheckLinkage(p, o) == CheckPrevLinkage(p, o) /\ CheckNextLinkage(p, o)

\* The records of l in the order of their next links, the header left out.
Linked(p, l) ==
  LET W[s \in Seq(Offset)] ==
        IF p[Last(s)].next = l \/ Len(s) > MaxOffset THEN Tail(s)
        ELSE W[Append(s, p[Last(s)].next)] IN
  W[<<l>>]

\* The versions of o that chain from it, o included.
Versions(p, o) ==
  LET V[s \in Seq(Offset)] ==
        IF p[Last(s)].old = Null \/ Len(s) > MaxOffset THEN s
        ELSE V[Append(s, p[Last(s)].old)] IN
  V[<<o>>]

\* The first version of o that is not newer than ts, Null if there is none.
VersionAt(p, o, ts) ==
  LET old == SelectSeq(Versions(p, o), LAMBDA v : p[v].ts <= ts) IN
  IF old = <<>> THEN Null ELSE Head(old)

Values(p, s) == IF s = <<>> THEN <<>> ELSE [i \in DOMAIN s |-> p[s[i]].val]
NormalOnes(p, s) == SelectSeq(s, LAMBDA o : o # Null /\ p[o].status = "Normal")

\* What l holds: records of a batch in process do not count.
Contents(l) ==
  LET version(o) == IF log.stage = "Processing" /\ o \in ToSet(log.entries)
                    THEN pm[o].old ELSE o
      s == Linked(pm, l) IN
  Values(pm, NormalOnes(pm, [i \in DOMAIN s |-> version(s[i])]))

AllContents == [l \in Lists |-> Contents(l)]

\* What l holds in p at time ts, and what it holds now.
ContentsAt(p, l, ts) ==
  LET s == Linked(p, l) IN
  Values(p, NormalOnes(p, [i \in DOMAIN s |-> VersionAt(p, s[i], ts)]))
ContentsNow(p, l) == Values(p, NormalOnes(p, Linked(p, l)))

----------------------------------------------------------------------------
NoCleaner == [list |-> 0, cur |-> 0, next |-> 0, purge |-> {}]
NoIter == [list |-> 0, at |-> 0, dir |-> "Front", got |-> <<>>, phase |-> "none",
           from |-> <<>>, lost |-> FALSE]
NoLog == [stage |-> "Initializing", entries |-> <<>>]

NoBatch == [lists |-> {}, ts |-> 0, todo |-> <<>>]
NoCall == [name |-> "none", ts |-> 0]

StartPMem(start) ==
  LET P[k \in 0 .. Len(start)] ==
        IF k = 0 THEN [o \in Offset |-> IF o \in Lists THEN Header(o) ELSE EmptyRecord]
        ELSE LET l == start[k][1] IN
             InsertBetween(P[k - 1], P[k - 1][l].prev, l, NumLists + k, l, start[k][2], k)
  IN P[Len(start)]

Init ==
  /\ workload \in Workloads
  /\ pm = StartPMem(workload.start)
  /\ free = {o \in Offset : pm[o].status = "Empty"}
  /\ log = NoLog /\ checkpoint = 0
  /\ live = [l \in Lists |-> Linked(pm, l)]
  /\ batch = NoBatch /\ call = [l \in Lists |-> NoCall]
  /\ pending = {} /\ local = 0 /\ clock = Len(workload.start)
  /\ snapshot = 0 /\ taking = 0 /\ lapsed = {} /\ spoiled = {} /\ cleaner = NoCleaner /\ iter = NoIter
  /\ mode = "run" /\ at = 0 /\ unlinked = {}
  /\ saved = AllContents /\ expect = AllContents
  /\ ops = 0 /\ crashes = 0 /\ passes = 0

\* A new record needs space; without it the call returns PmemOverflow.
Space == Min(free)
Tick == clock' = clock + 1

Singles == {"Push", "Pop", "Insert", "Erase", "Replace"}
Running == {l \in Lists : call[l] # NoCall}
Locked == batch.lists \union Running

\* A batch on lists L, which it locks, or a snapshot.
Call(name, L) ==
  /\ mode = "run" /\ name \in workload.calls
  /\ ops + Cardinality(Running) < workload.maxOps
  /\ L \cap Locked = {}
  /\ ops' = ops + 1
  /\ UNCHANGED call

\* Any other call: the lock of the list, then the timestamp.
TakeTimestamp(l, name) ==
  /\ mode = "run" /\ name \in Singles \cap workload.calls
  /\ ops + Cardinality(Running) < workload.maxOps
  /\ l \notin Locked
  /\ call' = [call EXCEPT ![l] = [name |-> name, ts |-> clock + 1]]
  /\ Tick
  /\ UNCHANGED <<pmVars, live, batch, cleanVars, snapVars, recVars, workload, ops>>

\* The snapshot that exists or is being made.  It sees the calls whose
\* timestamps are older, also those that were under way when it was made.
SnapshotTs == IF taking # 0 THEN taking ELSE snapshot

Save(l, p, ts) ==
  /\ saved' = IF ts < SnapshotTs THEN [saved EXCEPT ![l] = ContentsNow(p, l)] ELSE saved
  /\ UNCHANGED spoiled

\* What is cut off while a snapshot is being made is not kept for it.
SaveCut(l, p) ==
  /\ saved' = IF taking # 0 THEN [saved EXCEPT ![l] = ContentsAt(p, l, taking)] ELSE saved
  /\ spoiled' = spoiled \union {m \in {l} : saved'[m] # saved[m]}

Return(l, name) ==
  /\ mode = "run" /\ call[l].name = name
  /\ call' = [call EXCEPT ![l] = NoCall]
  /\ ops' = ops + 1

GlobalOldestSnapshotTs == IF snapshot = 0 THEN clock + 1 ELSE snapshot

(***************************************************************************)
(* removeOutDatedVersion: the versions behind the one that the oldest      *)
(* snapshot sees are cut off, and the normal ones marked dirty.            *)
(***************************************************************************)
OutdatedVersions(p, o, ts) ==
  LET kept == VersionAt(p, o, ts) IN IF kept = Null THEN Null ELSE p[kept].old

RemoveOutDatedVersionLinked(p, o, ts) ==
  LET cut == OutdatedVersions(p, o, ts) IN
  IF cut = Null THEN p
  ELSE LET gone == ToSet(Versions(p, cut)) IN
       [q \in Offset |->
          IF q \in gone /\ p[q].status = "Normal" THEN [p[q] EXCEPT !.status = "Dirty"]
          ELSE p[q]]

RemoveOutDatedVersion(p, o, ts) ==
  LET cut == OutdatedVersions(p, o, ts) IN
  IF cut = Null THEN p
  ELSE LET gone == ToSet(Versions(p, cut)) IN
       [q \in Offset |->
          IF q = VersionAt(p, o, ts) THEN [p[q] EXCEPT !.old = Null]
          ELSE IF q \in gone /\ p[q].status = "Normal"
          THEN [p[q] EXCEPT !.status = "Dirty"] ELSE p[q]]

\* After a pop: unless a cleaner works on the list.
RemoveAndCacheOutdatedVersion(p, o, l) ==
  LET cut == OutdatedVersions(p, o, GlobalOldestSnapshotTs) IN
  IF cleaner.list = l \/ cut = Null
  THEN pm' = p /\ Save(l, p, p[o].ts) /\ UNCHANGED <<pending, clock>>
  ELSE /\ pm' = RemoveOutDatedVersion(p, o, GlobalOldestSnapshotTs)
       /\ pending' = pending \union {<<cut, clock + 1>>}
       /\ Tick
       /\ IF p[o].ts < SnapshotTs THEN Save(l, p, p[o].ts) ELSE SaveCut(l, pm')

----------------------------------------------------------------------------
(***************************************************************************)
(* Calls without a batch log.                                              *)
(***************************************************************************)
\* A new record before the i-th live record, or behind all of them.
AddRecord(l, i, prev, next, val) ==
  /\ free # {}
  /\ pm' = InsertBetween(pm, prev, next, Space, l, val, call[l].ts)
  /\ free' = free \ {Space}
  /\ live' = [live EXCEPT ![l] = InsertAt(@, i, Space)]
  /\ Save(l, pm', call[l].ts)
  /\ UNCHANGED <<log, checkpoint, batch, clock, cleanVars, snapCtl, iter, recVars,
                 workload>>

ListPush(l, pos, val) ==
  /\ Return(l, "Push")
  /\ IF pos = "Front" THEN AddRecord(l, 1, l, pm[l].next, val)
     ELSE AddRecord(l, Len(live[l]) + 1, pm[l].prev, l, val)

InsertBefore(l, i, val) ==
  LET next == live[l][i] IN AddRecord(l, i, pm[next].prev, next, val)
InsertAfter(l, i, val) ==
  LET prev == live[l][i] IN AddRecord(l, i + 1, prev, pm[prev].next, val)

\* i is an index of the list; negative ones count from its end.
ListInsertAt(l, i, val) == Return(l, "Insert") /\ InsertBefore(l, i, val)

\* An index equal to the size, or one before the first element, passes the
\* check of InsertAt, Erase and Update: what is then read is no element.
Indexed == {"Insert", "Erase", "Replace"}
IndexPastEnd(l) ==
  /\ mode = "run" /\ call[l].name \in Indexed
  /\ mode' = "undefined"
  /\ UNCHANGED <<pmVars, live, lockVars, clock, cleanVars, snapVars, at, unlinked, expect,
                 crashes, workload, ops>>

\* NotFound: an empty list, an index or an element that is not there.
\* PmemOverflow: no space.
CallFails(l) ==
  /\ \/ call[l].name \in Indexed
     \/ call[l].name = "Pop" /\ live[l] = <<>>
     \/ call[l] # NoCall /\ free = {}
  /\ Return(l, call[l].name)
  /\ UNCHANGED <<pmVars, live, batch, clock, cleanVars, snapVars, recVars, workload>>

\* The first live record with the element.
FindLiveRecord(l, elem) ==
  Min({i \in DOMAIN live[l] : pm[live[l][i]].val = elem})

ListInsertBefore(l, elem, val) ==
  /\ Return(l, "Insert") /\ elem \in ToSet(Values(pm, live[l]))
  /\ InsertBefore(l, FindLiveRecord(l, elem), val)

ListInsertAfter(l, elem, val) ==
  /\ Return(l, "Insert") /\ elem \in ToSet(Values(pm, live[l]))
  /\ InsertAfter(l, FindLiveRecord(l, elem), val)

\* Pops and erases put an outdated record in the place of the i-th live one.
OutdateRecord(l, i) ==
  /\ free # {}
  /\ RemoveAndCacheOutdatedVersion(
       Update(pm, live[l][i], Space, 0, "Outdated", call[l].ts), Space, l)
  /\ free' = free \ {Space}
  /\ UNCHANGED <<log, checkpoint, batch, local, cleaner, passes, snapCtl, iter, recVars,
                 workload>>

RemoveRecord(l, i) ==
  /\ OutdateRecord(l, i)
  /\ live' = [live EXCEPT ![l] = RemoveAt(@, i)]

ListPopFrontOnly(l, pos) ==
  /\ Return(l, "Pop") /\ live[l] # <<>>
  /\ OutdateRecord(l, IF pos = "Front" THEN 1 ELSE Len(live[l]))
  /\ live' = [live EXCEPT ![l] = Tail(@)]

ListPop(l, pos) ==
  /\ Return(l, "Pop") /\ live[l] # <<>>
  /\ RemoveRecord(l, IF pos = "Front" THEN 1 ELSE Len(live[l]))

ListErase(l, i) == Return(l, "Erase") /\ RemoveRecord(l, i)

ListReplace(l, i, val) ==
  /\ Return(l, "Replace") /\ free # {}
  /\ pm' = Update(pm, live[l][i], Space, val, "Normal", call[l].ts)
  /\ free' = free \ {Space}
  /\ live' = [live EXCEPT ![l][i] = Space]
  /\ Save(l, pm', call[l].ts)
  /\ UNCHANGED <<log, checkpoint, batch, clock, cleanVars, snapCtl, iter, recVars,
                 workload>>

----------------------------------------------------------------------------
(***************************************************************************)
(* Batches.  The first step allocates, encodes the log and marks it as     *)
(* Processing; then PopN and PushN write one record after the other.  A    *)
(* second batch would have a log of its own; one runs at a time here.      *)
(***************************************************************************)
EncodeOnly(spaces) == log' = [stage |-> "Initializing", entries |-> <<>>]
MarkProcessing(spaces) == log' = [stage |-> "Processing", entries |-> spaces]

StartBatch(todo) ==
  /\ Len(todo) <= Cardinality(free)
  /\ LET spaces == SubSeq(SetToSortSeq(free, <), 1, Len(todo)) IN
     /\ batch' = [lists |-> {todo[i].list : i \in DOMAIN todo}, ts |-> clock + 1,
                  todo |-> [i \in DOMAIN todo |-> todo[i] @@ [space |-> spaces[i]]]]
     /\ MarkProcessing(spaces)
     /\ free' = free \ ToSet(spaces)
  /\ Tick
  /\ UNCHANGED <<pm, checkpoint, live, cleanVars, snapVars, recVars, workload>>

\* When PMem is exhausted PreparePushN gives the spaces back and returns Ok:
\* PushN goes on with them, and with more of them than there are.
PushWithoutSpaces(pushes) ==
  /\ pushes > Cardinality(free)
  /\ mode' = "undefined"
  /\ UNCHANGED <<pmVars, live, batch, clock, cleanVars, snapVars, at, unlinked, expect,
                 crashes, workload>>

\* PreparePopN: the records from one end; a list without records is refused,
\* and without space the spaces go back and the call returns PmemOverflow.
ToPop(l, pos, n) ==
  LET k == IF n < Len(live[l]) THEN n ELSE Len(live[l]) IN
  [i \in 1 .. k |-> [list |-> l, kind |-> "pop", pos |-> pos, val |-> 0,
                     rec |-> IF pos = "Front" THEN live[l][i]
                             ELSE live[l][Len(live[l]) + 1 - i]]]
ToPush(l, pos, vals) ==
  [i \in DOMAIN vals |-> [list |-> l, kind |-> "push", pos |-> pos, val |-> vals[i],
                          rec |-> Null]]

ListBatchPush(l, pos, vals) ==
  /\ batch = NoBatch /\ Call("BatchPush", {l})
  /\ StartBatch(ToPush(l, pos, vals)) \/ PushWithoutSpaces(Len(vals))

ListBatchPop(l, pos, n) ==
  /\ batch = NoBatch /\ Call("BatchPop", {l}) /\ live[l] # <<>>
  /\ StartBatch(ToPop(l, pos, n))

\* A move from one end to the same end of a list only reads.  The pop gets
\* its space before the push does.
ListMove(src, srcPos, dst, dstPos) ==
  /\ batch = NoBatch /\ Call("Move", {src, dst}) /\ live[src] # <<>>
  /\ ~(src = dst /\ srcPos = dstPos)
  /\ LET pop == ToPop(src, srcPos, 1) IN
     \/ StartBatch(pop \o ToPush(dst, dstPos, <<pm[pop[1].rec].val>>))
     \/ free # {} /\ PushWithoutSpaces(2)

PopOrPush ==
  /\ mode = "run" /\ batch.todo # <<>>
  /\ LET b == Head(batch.todo)
         l == b.list IN
     IF b.kind = "pop"
     THEN /\ pm' = Update(pm, b.rec, b.space, 0, "Outdated", batch.ts)
          /\ live' = [live EXCEPT ![l] = SelectSeq(@, LAMBDA o : o # b.rec)]
     ELSE IF b.pos = "Front"
     THEN /\ pm' = InsertBetween(pm, l, pm[l].next, b.space, l, b.val, batch.ts)
          /\ live' = [live EXCEPT ![l] = <<b.space>> \o @]
     ELSE /\ pm' = InsertBetween(pm, pm[l].prev, l, b.space, l, b.val, batch.ts)
          /\ live' = [live EXCEPT ![l] = Append(@, b.space)]
  /\ batch' = [batch EXCEPT !.todo = Tail(@)]
  /\ UNCHANGED <<free, log, checkpoint, call, clock, cleanVars, snapVars, recVars, workload,
                 ops>>

MarkCommitted ==
  /\ mode = "run" /\ batch # NoBatch /\ batch.todo = <<>>
  /\ log' = NoLog
  /\ batch' = NoBatch
  /\ saved' = [l \in Lists |-> IF l \in batch.lists /\ batch.ts < SnapshotTs
                              THEN ContentsNow(pm, l) ELSE saved[l]]
  /\ UNCHANGED <<pm, free, checkpoint, live, call, clock, cleanVars, snapCtl, spoiled, iter,
                 recVars, workload, ops>>

----------------------------------------------------------------------------
(***************************************************************************)
(* Snapshots, checkpoints and iterators.  NewGlobalSnapshot takes its      *)
(* timestamp, waits for older batches and registers the snapshot.  An      *)
(* iterator takes no lock and holds no local snapshot.                     *)
(***************************************************************************)
NewGlobalSnapshot ==
  /\ \/ Call("Checkpoint", {})
     \/ Call("Snapshot", {})
  /\ snapshot = 0 /\ taking = 0
  /\ taking' = clock + 1
  /\ saved' = AllContents /\ spoiled' = {}
  /\ lapsed' = {}
  /\ Tick
  /\ UNCHANGED <<pmVars, live, batch, cleanVars, snapshot, iter, recVars, workload>>

GetSnapshot(makeCheckpoint) ==
  /\ mode = "run" /\ taking # 0
  /\ (IF makeCheckpoint THEN "Checkpoint" ELSE "Snapshot") \in workload.calls
  /\ batch = NoBatch \/ taking < batch.ts
  /\ snapshot' = taking /\ taking' = 0
  /\ checkpoint' = IF makeCheckpoint THEN taking ELSE checkpoint
  /\ UNCHANGED <<pm, free, log, live, lockVars, clock, cleanVars, histVars, lapsed, iter,
                 recVars, workload, ops>>

ReleaseSnapshot ==
  /\ mode = "run" /\ snapshot # 0 /\ iter = NoIter
  /\ checkpoint' = IF checkpoint = snapshot THEN 0 ELSE checkpoint
  /\ snapshot' = 0 /\ lapsed' = {}
  /\ UNCHANGED <<pm, free, log, live, lockVars, clock, cleanVars, taking, histVars, iter,
                 recVars, workload, ops>>

Link(o, dir) == IF dir = "Front" THEN pm[o].next ELSE pm[o].prev

\* ListIteratorCreate, and SeekToFirst or SeekToLast.
IteratorSeek(l, dir) ==
  /\ mode = "run" /\ "Iterate" \in workload.calls
  /\ snapshot # 0 /\ iter = NoIter
  /\ iter' = [list |-> l, at |-> Link(l, dir), dir |-> dir, got |-> <<>>, phase |-> "look",
              from |-> saved[l], lost |-> FALSE]
  /\ UNCHANGED <<pmVars, live, lockVars, clock, cleanVars, snapCtl, histVars, recVars,
                 workload, ops>>

\* The next record.  A record that is not on the list any more keeps its links;
\* what they lead to may have been freed.
Moved ==
  [iter EXCEPT !.at = Link(iter.at, iter.dir),
               !.lost = @ \/ (Link(iter.at, iter.dir) \in lapsed /\ ~OnList(pm, iter.at))]

FindNewestVersion(o) == o
FindValidVersion(o) == VersionAt(pm, o, snapshot)

\* skipInvalidRecords looks at one record.
SkipInvalidRecords ==
  /\ mode = "run" /\ iter.phase = "look" /\ IsElem(iter.at)
  /\ LET v == FindValidVersion(iter.at) IN
     iter' = IF v = Null \/ pm[v].status = "Outdated"
             THEN Moved
             ELSE [iter EXCEPT !.at = v, !.got = Append(@, pm[v].val), !.phase = "found"]
  /\ UNCHANGED <<pmVars, live, lockVars, clock, cleanVars, snapCtl, histVars, recVars,
                 workload, ops>>

IteratorNext ==
  /\ mode = "run" /\ iter.phase = "found"
  /\ iter' = [Moved EXCEPT !.phase = "look"]
  /\ UNCHANGED <<pmVars, live, lockVars, clock, cleanVars, snapCtl, histVars, recVars,
                 workload, ops>>

\* At the header the iterator is not valid any more.
IteratorRelease ==
  /\ mode = "run" /\ iter # NoIter /\ ~IsElem(iter.at)
  /\ iter' = NoIter
  /\ UNCHANGED <<pmVars, live, lockVars, clock, cleanVars, snapCtl, histVars, recVars,
                 workload, ops>>

----------------------------------------------------------------------------
(***************************************************************************)
(* The cleaner.  cleanList moves on before it takes the lock of the list.  *)
(* What it unlinks is freed when all local snapshots are newer than the    *)
(* end of its pass; only calls in progress hold local snapshots.           *)
(***************************************************************************)
UpdateLocalOldestSnapshot(l) ==
  /\ mode = "run" /\ cleaner.list = 0 /\ passes < workload.maxPasses
  /\ passes' = passes + 1
  /\ local' = Min({clock + 1} \union {call[m].ts : m \in Running}
                   \union (IF batch = NoBatch THEN {} ELSE {batch.ts}))
  /\ cleaner' = [NoCleaner EXCEPT !.list = l, !.next = pm[l].next]
  /\ Tick
  /\ UNCHANGED <<pmVars, live, lockVars, pending, snapVars, recVars, workload, ops>>

CleanNext ==
  /\ mode = "run" /\ cleaner.list # 0 /\ cleaner.cur = 0 /\ IsElem(cleaner.next)
  /\ cleaner' = [cleaner EXCEPT !.cur = cleaner.next, !.next = pm[cleaner.next].next]
  /\ UNCHANGED <<pmVars, live, lockVars, clock, pending, local, passes, snapVars, recVars,
                 workload, ops>>

CleanRecord ==
  /\ mode = "run" /\ cleaner.cur # 0 /\ cleaner.list \notin Locked
  /\ LET cur == cleaner.cur
         oldest == IF GlobalOldestSnapshotTs < local THEN GlobalOldestSnapshotTs ELSE local
         cut == OutdatedVersions(pm, cur, oldest)
         p == RemoveOutDatedVersion(pm, cur, oldest)
         clean == p[cur].status = "Outdated" /\ p[cur].ts < oldest /\ OnList(p, cur) IN
     /\ pm' = IF clean THEN Unlink(p, cur) ELSE p
     /\ SaveCut(cleaner.list, pm')
     /\ cleaner' = [cleaner EXCEPT !.cur = 0, !.purge =
          @ \union ({cut} \ {Null}) \union (IF clean THEN {cur} ELSE {})]
  /\ UNCHANGED <<free, log, checkpoint, live, lockVars, clock, pending, local, passes,
                 snapCtl, iter, recVars, workload, ops>>

CleanEnd ==
  /\ mode = "run" /\ cleaner.list # 0 /\ cleaner.cur = 0 /\ ~IsElem(cleaner.next)
  /\ pending' = pending \union {<<o, clock + 1>> : o \in cleaner.purge}
  /\ cleaner' = NoCleaner
  /\ Tick
  /\ UNCHANGED <<pmVars, live, lockVars, local, passes, snapVars, recVars, workload, ops>>

\* purgeAndFreeDLRecords: a record that is not Normal is freed as it is.
PurgeAndFree ==
  /\ mode = "run"
  /\ \E e \in pending :
       /\ e[2] < local
       /\ LET gone == ToSet(Versions(pm, e[1])) IN
          /\ pm' = [o \in Offset |-> IF o \in gone /\ pm[o].status = "Normal"
                                     THEN EmptyRecord ELSE pm[o]]
          /\ free' = free \union gone
          /\ lapsed' = IF SnapshotTs = 0 THEN {} ELSE lapsed \union gone
          /\ iter' = [iter EXCEPT !.lost = @ \/ iter.at \in gone]
       /\ pending' = pending \ {e}
  /\ UNCHANGED <<log, checkpoint, live, lockVars, clock, local, cleaner, passes, snapshot,
                 taking, histVars, recVars, workload, ops>>

----------------------------------------------------------------------------
(***************************************************************************)
(* Crash and recovery: batchWriteRollbackLogs, restoreData, Rebuild of the *)
(* ListRebuilder.  DRAM is lost; a crash may hit the recovery.             *)
(***************************************************************************)
Crash ==
  /\ mode # "undefined" /\ crashes < workload.maxCrashes
  /\ crashes' = crashes + 1
  /\ expect' = IF mode # "run" THEN expect
               ELSE IF checkpoint # 0 /\ workload.recover THEN saved ELSE AllContents
  /\ mode' = "rollback" /\ at' = Len(log.entries)
  /\ unlinked' = {} /\ live' = [l \in Lists |-> <<>>]
  /\ free' = {} /\ pending' = {} /\ local' = 0 /\ clock' = 0
  /\ batch' = NoBatch /\ call' = [l \in Lists |-> NoCall] /\ cleaner' = NoCleaner
  /\ snapshot' = 0 /\ taking' = 0 /\ lapsed' = {} /\ iter' = NoIter
  /\ UNCHANGED <<pm, log, checkpoint, passes, histVars, workload, ops>>

\* The record of a log entry is replaced by its old version or removed.
RolledBack(p, o) ==
  IF ~(Validate(p, o) /\ CheckPrevLinkage(p, o)) THEN p
  ELSE IF p[o].old # Null THEN Replace(p, o, p[o].old) ELSE Unlink(p, o)

Rollback ==
  /\ mode = "rollback"
  /\ IF at > 0
     THEN /\ pm' = [RolledBack(pm, log.entries[at]) EXCEPT ![log.entries[at]] = EmptyRecord]
          /\ at' = at - 1
          /\ UNCHANGED <<log, mode>>
     ELSE /\ log' = NoLog
          /\ mode' = "restore" /\ at' = 1
          /\ UNCHANGED pm
  /\ UNCHANGED <<free, checkpoint, live, lockVars, clock, cleanVars, snapVars, unlinked,
                 expect, crashes, workload, ops>>

\* restoreData at one record: AddElem or AddHeader.
Restore ==
  /\ mode = "restore"
  /\ LET dead == pm[at].status \in {"Empty", "Dirty"}
         linked == CheckNextLinkage(pm, at) \/ CheckPrevLinkage(pm, at) IN
     /\ clock' = IF ~dead /\ pm[at].ts > clock THEN pm[at].ts ELSE clock
     /\ IF dead \/ (~linked /\ checkpoint = 0)
        THEN /\ pm' = IF dead THEN pm ELSE [pm EXCEPT ![at] = EmptyRecord]
             /\ free' = free \union {at}
             /\ UNCHANGED unlinked
        ELSE /\ unlinked' = IF linked THEN unlinked ELSE unlinked \union {at}
             /\ UNCHANGED <<pm, free>>
  /\ IF at < MaxOffset THEN at' = at + 1 /\ UNCHANGED mode
     ELSE at' = pm[1].next /\ mode' = "rebuild"
  /\ UNCHANGED <<log, checkpoint, live, lockVars, cleanVars, snapVars, expect, crashes,
                 workload, ops>>

FindCheckpointVersion(o) == IF checkpoint = 0 THEN o ELSE VersionAt(pm, o, checkpoint)

AddUnlinkedRecord == unlinked' = unlinked \union {at}

\* rebuildIndex at one record, or at the header of a list that is done.
RebuildIndex ==
  /\ mode = "rebuild"
  /\ IF IsElem(at)
     THEN LET v == FindCheckpointVersion(at)
              l == pm[at].list IN
          /\ at' = pm[at].next
          /\ UNCHANGED mode
          /\ IF v = Null \/ pm[v].status = "Outdated"
             THEN /\ pm' = Unlink(pm, at)
                  /\ AddUnlinkedRecord
                  /\ UNCHANGED live
             ELSE /\ pm' = [IF v = at THEN pm ELSE Replace(pm, at, v)
                            EXCEPT ![v].old = Null]
                  /\ IF v = at THEN UNCHANGED unlinked ELSE AddUnlinkedRecord
                  /\ live' = [live EXCEPT ![l] = Append(@, v)]
     ELSE /\ IF at < NumLists THEN at' = pm[at + 1].next /\ UNCHANGED mode
             ELSE at' = 0 /\ mode' = "clean"
          /\ UNCHANGED <<pm, unlinked, live>>
  /\ UNCHANGED <<free, log, checkpoint, lockVars, clock, cleanVars, snapVars, expect,
                 crashes, workload, ops>>

CleanInvalidRecords ==
  /\ mode = "clean"
  /\ LET gone == {o \in unlinked : ~CheckLinkage(pm, o)} IN
     /\ pm' = [o \in Offset |-> IF o \in gone THEN EmptyRecord ELSE pm[o]]
     /\ free' = free \union gone
  /\ unlinked' = {} /\ mode' = "release"
  /\ UNCHANGED <<log, checkpoint, live, lockVars, clock, cleanVars, snapVars, at, expect,
                 crashes, workload, ops>>

\* The end of restoreExistingData.
ReleaseCheckpoint ==
  /\ mode = "release"
  /\ checkpoint' = 0
  /\ mode' = "run"
  /\ UNCHANGED <<pm, free, log, live, lockVars, clock, cleanVars, snapVars, at, unlinked,
                 expect, crashes, workload, ops>>

Next ==
  \/ \E l \in workload.on, pos \in Pos :
       \/ \E val \in workload.vals : ListPush(l, pos, val)
       \/ ListPop(l, pos)
       \/ \E vals \in {<<e, f>> : e, f \in workload.vals} : ListBatchPush(l, pos, vals)
       \/ ListBatchPop(l, pos, 2)
       \/ \E dst \in Lists, dstPos \in Pos : ListMove(l, pos, dst, dstPos)
       \/ IteratorSeek(l, pos)
  \/ \E l \in workload.on, elem \in Elem, val \in workload.vals :
       ListInsertBefore(l, elem, val) \/ ListInsertAfter(l, elem, val)
  \/ \E l \in workload.on : \E i \in DOMAIN live[l] :
       \/ \E val \in workload.vals : ListInsertAt(l, i, val) \/ ListReplace(l, i, val)
       \/ ListErase(l, i)
  \/ \E l \in workload.on :
       (\E name \in Singles : TakeTimestamp(l, name)) \/ IndexPastEnd(l) \/ CallFails(l)
  \/ PopOrPush \/ MarkCommitted
  \/ NewGlobalSnapshot \/ GetSnapshot(TRUE) \/ GetSnapshot(FALSE) \/ ReleaseSnapshot
  \/ SkipInvalidRecords \/ IteratorNext \/ IteratorRelease
  \/ (\E l \in workload.on : UpdateLocalOldestSnapshot(l)) \/ CleanNext \/ CleanRecord
  \/ CleanEnd \/ PurgeAndFree
  \/ Crash \/ Rollback \/ Restore \/ RebuildIndex \/ CleanInvalidRecords
  \/ ReleaseCheckpoint

Spec == Init /\ [][Next]_vars

----------------------------------------------------------------------------
TypeOK ==
  /\ pm \in [Offset -> [list : 0 .. NumLists, val : Elem \union {0},
                        status : {"Normal", "Outdated", "Dirty", "Empty"}, ts : Nat,
                        old : Offset \union {Null}, prev : Offset \union {0},
                        next : Offset \union {0}]]
  /\ free \subseteq Offset /\ unlinked \subseteq Offset
  /\ log.stage \in {"Initializing", "Processing"} /\ log.entries \in Seq(Offset)
  /\ {checkpoint, clock, local, snapshot, taking, at} \subseteq Nat
  /\ call \in [Lists -> [name : Singles \union {"none"}, ts : Nat]]
  /\ lapsed \subseteq Offset /\ spoiled \subseteq Lists /\ saved \in [Lists -> Seq(Elem)]
  /\ live \in [Lists -> Seq(Offset)]
  /\ pending \in SUBSET (Offset \X Nat)
  /\ batch.lists \subseteq Lists
  /\ iter.got \in Seq(Elem)
  /\ mode \in {"run", "undefined", "rollback", "restore", "rebuild", "clean", "release"}

(***************************************************************************)
(* "we track live records in a deque to support fast write operations"     *)
(* (List): the deque holds the records of the list that are not deleted,   *)
(* in their order, also half-way through a batch and after recovery, up to *)
(* a call that reads past an end (NoReadPastEnd).                          *)
(***************************************************************************)
DequeMatchesList ==
  mode = "run" => \A l \in Lists : live[l] = NormalOnes(pm, Linked(pm, l))

(***************************************************************************)
(* Every record is in one place: on a list or behind a record that is, to  *)
(* be freed once no reader is left, reserved by the batch, or free.  None  *)
(* is lost, and none is free while it can still be reached, up to a call   *)
(* that reads past an end (NoReadPastEnd).                                 *)
(***************************************************************************)
OnLists(l) == UNION {ToSet(Versions(pm, o)) : o \in ToSet(Linked(pm, l))}
Places ==
  LET pendingOnes == {e[1] : e \in pending} \union cleaner.purge IN
  {free, Lists, {batch.todo[i].space : i \in DOMAIN batch.todo}}
    \union {OnLists(l) : l \in Lists}
    \union {ToSet(Versions(pm, o)) : o \in pendingOnes}

EachRecordInOnePlace ==
  /\ TypeOK
  /\ mode = "run" =>
       /\ UNION Places = Offset
       /\ \A A, B \in Places : A # B => A \cap B = {}

(***************************************************************************)
(* "iterator will iterate all elems at snapshot version"                   *)
(* (ListIteratorCreate): from either end an iterator returns, in order,    *)
(* the elements of the calls with timestamps before that of the snapshot,  *)
(* whatever is written and cleaned meanwhile.  Such a call that had not    *)
(* linked its record when the iterator started may be seen or not.  Left   *)
(* out are lists that were cut between the reading of the timestamp and    *)
(* the registration of the snapshot, and iterators that are lost: that     *)
(* stand on a freed record, or that a record off the list led to one       *)
(* (IteratorOnLiveRecord).                                                 *)
(***************************************************************************)
IteratorSeesSnapshot ==
  iter # NoIter /\ ~iter.lost /\ iter.list \notin spoiled =>
    \E elems \in {iter.from, saved[iter.list]} :
      LET want == IF iter.dir = "Front" THEN elems ELSE Reverse(elems) IN
      /\ IsPrefix(iter.got, want)
      /\ ~IsElem(iter.at) => iter.got = want

(***************************************************************************)
(* "the holding snapshot will forbid newer data being freed": while an     *)
(* iterator stands at an element, neither the record of the element nor    *)
(* the one its next call moves to has been given back to the allocator.    *)
(***************************************************************************)
IteratorOnLiveRecord ==
  iter.phase = "found" => {iter.at, Link(iter.at, iter.dir)} \cap free = {}

(***************************************************************************)
(* "recover the instance to the checkpoint version if this true"           *)
(* (recover_to_checkpoint): the lists that recovery ends with are the ones *)
(* the configuration asks for.                                             *)
(***************************************************************************)
RecoveredAsConfigured == mode = "release" => AllContents = expect

(***************************************************************************)
(* "Status::NotFound if the index beyond list size." (ListErase), and the  *)
(* assertion of PushN that there is a space for every element: no call     *)
(* reads past the end of the deque or of the spaces it got.                *)
(***************************************************************************)
NoReadPastEnd == mode # "undefined"

(***************************************************************************)
(* Each call takes effect at once, also ListMove and batches, which write  *)
(* record by record: a crash before the log is marked Committed undoes all *)
(* of them, a later one nothing, wherever it hits and however often.  Only *)
(* a recovery to a checkpoint goes back, to all lists as they were at its  *)
(* timestamp: but for what was cut off while it was being made.            *)
(***************************************************************************)
Abstract == INSTANCE AtomicLists WITH
  MaxBatch <- 2,
  lists <- IF mode \in {"run", "undefined"} THEN AllContents ELSE expect,
  kept <- saved,
  open <- {l \in Running : call[l].ts < SnapshotTs}
            \union (IF batch.ts < SnapshotTs THEN batch.lists ELSE {}),
  making <- taking # 0,
  done <- IF batch = NoBatch THEN ops ELSE ops - 1
ListsAreAtomic == Abstract!AtomicListsSpec
=============================================================================
