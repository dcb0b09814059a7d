------------------------------ MODULE Skiplist ------------------------------
(***************************************************************************)
(* A sorted collection of a KVDK instance: Skiplist of                     *)
(* engine/sorted_collection/skiplist.cpp, the calls of                     *)
(* engine/kv_engine_sorted.cpp, and what the cleaner does to it            *)
(* (engine/kv_engine_cleaner.cpp).                                         *)
(*                                                                         *)
(* The records are in PMem, in a circular doubly linked list ordered by    *)
(* key with old versions behind the records.  Some of them have a node in  *)
(* DRAM; the nodes are linked at their heights, without locks, and a node  *)
(* is deleted by a tag on its links.  The collection may also be indexed   *)
(* by the hash table.  A search goes down the nodes and then along the     *)
(* records while others write.                                             *)
(*                                                                         *)
(* An operation of the DLList is one step here; DLList has its stores one  *)
(* by one.  A round of the loop of SeekNode is one step: links that are    *)
(* tagged never change, so its reads can be taken together with its CAS,   *)
(* or with the first read if there is none.  A record's offset stands for  *)
(* its timestamp, which a write takes when it has locked the slot, and for *)
(* its value.  Freed records and nodes are not used again and keep their   *)
(* contents, so that whoever still refers to one can be told.              *)
(***************************************************************************)
EXTENDS Integers, FiniteSets, SequencesExt, FiniteSetsExt

CONSTANTS
  Thread,
  Key,         \* positive numbers; 0 is the key of the header
  MaxHeight,   \* kMaxHeight
  MaxOffset,   \* bound: the records PMem has space for, the header included
  MaxNode,     \* bound: the nodes that are made, the header's included
  Workloads    \* what is called; a behaviour has one of them

Offset == 1 .. MaxOffset
Node == 1 .. MaxNode
Height == 1 .. MaxHeight
Null == 0
HeaderNode == 1
Cleaner == 0      \* the cleaner as the holder of a slot lock
Nobody == -1

(***************************************************************************)
(* hash: index_with_hashtable_; start: the records there are at first, as  *)
(* <<key, status, height of the node>>; calls: what each thread may call,  *)
(* as <<operation, key>>; each, passes: bounds on the calls of a thread    *)
(* and on the passes of the cleaner; heights: the heights of new nodes;    *)
(* full: whether PMem may be full.                                         *)
(***************************************************************************)

VARIABLES
  rec,        \* PMem: the record at each offset
  clock,      \* the last timestamp given out
  header,     \* header_ of the DLList
  node,       \* the nodes in DRAM; the record of HeaderNode is HeaderRecord()
  made,       \* the last node made
  obsolete, pending,   \* obsolete_nodes_, pending_deletion_nodes_
  freed,      \* nodes that are freed
  index,      \* the hash entry of each key
  slot,       \* the holder of the slot lock of each key
  size,       \* size_
  th,         \* the call of each thread
  retired,    \* unlinked records, with the calls that may still refer to them
  clean,      \* the cleaner
  snapshots,  \* the timestamps of the snapshots that are held
  seen,       \* history: the values each key had since a write or the deletion of
              \* a node began, and those a Get or an iterator may return
  workload, calls, passes

pmVars    == <<rec, clock>>
nodeVars  == <<node, made, obsolete, pending, freed>>
cleanVars == <<retired, clean, passes>>
vars == <<pmVars, header, nodeVars, index, slot, size, th, cleanVars, snapshots, seen,
          workload, calls>>

----------------------------------------------------------------------------
(***************************************************************************)
(* The operations of the DLList on PMem r.                                 *)
(***************************************************************************)
Unused == [kind |-> "None", key |-> 0, status |-> "Normal", old |-> 0, prev |-> 0, next |-> 0]
IsElem(r, o) == r[o].kind = "Elem"

LinkDLRecord(r, prev, next, o, record) ==
  LET q == [r EXCEPT ![o] = [record EXCEPT !.prev = prev, !.next = next]]
      s == [q EXCEPT ![prev].next = o] IN
  [s EXCEPT ![next].prev = o]

Between(r, prev, next) == r[prev].next = next /\ r[next].prev = prev

InsertBetween(r, prev, next, o, k) ==
  LinkDLRecord(r, prev, next, o, [Unused EXCEPT !.kind = "Elem", !.key = k])

\* Update wants both neighbours to point at the record.
CanUpdate(r, o) == Between(r, r[o].prev, o) /\ Between(r, o, r[o].next)

Update(r, current, o, status) ==
  LinkDLRecord(r, r[current].prev, r[current].next, o,
    [r[current] EXCEPT !.status = status, !.old = current])

OnList(r, o) == r[r[o].prev].next = o
Unlink(r, o) ==
  LET q == [r EXCEPT ![r[o].next].prev = r[o].prev] IN
  [q EXCEPT ![r[o].prev].next = r[o].next]

\* Replace: a header that is alone points to itself, and the old one to it.
Replace(r, o, new) ==
  IF r[o].prev = o
  THEN [r EXCEPT ![new].prev = new, ![new].next = new, ![o].prev = new]
  ELSE LinkDLRecord(r, r[o].prev, r[o].next, new, r[new])

\* The records of the list behind h.
Linked(r, h) ==
  LET W[s \in Seq(Offset)] ==
        IF r[Last(s)].next = h \/ Len(s) > MaxOffset THEN Tail(s)
        ELSE W[Append(s, r[Last(s)].next)] IN
  W[<<h>>]

Versions(r, o) ==
  LET V[s \in Seq(Offset)] ==
        IF r[Last(s)].old = Null \/ Len(s) > MaxOffset THEN s
        ELSE V[Append(s, r[Last(s)].old)] IN
  V[<<o>>]

\* The first version of o that is not newer than ts, Null if there is none.
VersionAt(r, o, ts) ==
  LET old == SelectSeq(Versions(r, o), LAMBDA v : v <= ts) IN
  IF old = <<>> THEN Null ELSE Head(old)

kMaxTimestamp == MaxOffset + 1
GlobalOldestSnapshotTs == Min(snapshots \union {kMaxTimestamp})

\* removeOutDatedVersion: what is behind the version the oldest snapshot sees
\* is cut off.
OutDatedVersions(r, o, min) ==
  LET v == VersionAt(r, o, min) IN
  IF v = Null THEN {} ELSE ToSet(Tail(Versions(r, v)))

RemoveOutDatedVersion(r, o, min) ==
  LET v == VersionAt(r, o, min)
      cut == OutDatedVersions(r, o, min) IN
  [p \in Offset |-> IF p = v THEN [r[p] EXCEPT !.old = Null]
                   ELSE IF p \in cut /\ r[p].status = "Normal"
                        THEN [r[p] EXCEPT !.status = "Dirty"] ELSE r[p]]

HeaderRecord == node[HeaderNode].record
OnListOf(r, h, k) == {o \in ToSet(Linked(r, h)) : r[o].key = k}

\* What snapshot ts sees: the versions, in the order of the list.
ViewAt(r, h, ts) ==
  LET at == [i \in DOMAIN Linked(r, h) |-> VersionAt(r, Linked(r, h)[i], ts)] IN
  SelectSeq(at, LAMBDA v : v # Null /\ r[v].status = "Normal")

\* The record of key k that is valid, Null if there is none.
ValueOf(r, h, k) ==
  LET v == {o \in OnListOf(r, h, k) : r[o].status = "Normal"} IN
  IF v = {} THEN Null ELSE CHOOSE o \in v : TRUE
----------------------------------------------------------------------------
(***************************************************************************)
(* The state at first: the records of the workload, with their nodes.      *)
(***************************************************************************)
NoNode == [key |-> 0, height |-> 0, record |-> Null, links |-> 0,
           next |-> [h \in Height |-> Null], del |-> [h \in Height |-> FALSE]]
NoEntry == [status |-> "None", node |-> Null, record |-> Null]

StartRecords(w) ==
  LET n == Len(w.start) IN
  [o \in Offset |->
     IF o = 1 THEN [Unused EXCEPT !.kind = "Header", !.prev = n + 1,
                                  !.next = IF n = 0 THEN 1 ELSE 2]
     ELSE IF o <= n + 1
     THEN [Unused EXCEPT !.kind = "Elem", !.key = w.start[o - 1][1],
                         !.status = w.start[o - 1][2], !.prev = o - 1,
                         !.next = IF o = n + 1 THEN 1 ELSE o + 1]
     ELSE Unused]

\* The nodes of the records at offsets os, with the heights h[o], linked.
NodesOf(r, os, h) ==
  LET high == SelectSeq(os, LAMBDA o : h[o] > 0)
      Next(n, l) == {m \in n + 1 .. Len(high) + 1 : h[high[m - 1]] >= l} IN
  [n \in Node |->
     IF n > Len(high) + 1 THEN NoNode
     ELSE [NoNode EXCEPT !.key = IF n = 1 THEN 0 ELSE r[high[n - 1]].key,
                         !.height = IF n = 1 THEN MaxHeight ELSE h[high[n - 1]],
                         !.record = IF n = 1 THEN 1 ELSE high[n - 1],
                         !.links = IF n = 1 THEN MaxHeight ELSE h[high[n - 1]],
                         !.next = [l \in Height |->
                            IF (n = 1 \/ h[high[n - 1]] >= l) /\ Next(n, l) # {}
                            THEN Min(Next(n, l)) ELSE Null]]]

NodeOfRecord(nodes, o) == {n \in Node \ {HeaderNode} : nodes[n].record = o}

IndexOf(r, nodes, k, h) ==
  LET o == OnListOf(r, h, k) IN
  IF o = {} THEN NoEntry
  ELSE LET e == CHOOSE e \in o : TRUE
           n == NodeOfRecord(nodes, e) IN
       [status |-> r[e].status,
        node |-> IF n = {} THEN Null ELSE CHOOSE m \in n : TRUE,
        record |-> IF n = {} THEN e ELSE Null]

NoCall == [op |-> "None", pc |-> "idle", key |-> 0,
           prevs |-> [h \in Height |-> Null], nexts |-> [h \in Height |-> Null],
           at |-> Null, level |-> 0, from |-> Null, top |-> 0, low |-> 0, gone |-> {},
           prev |-> Null, next |-> Null, space |-> FALSE, existing |-> Null,
           new |-> Null, dram |-> Null, link |-> 0, ts |-> 0, got |-> <<>>,
           late |-> FALSE, astray |-> "no"]

NoPass == [pc |-> "idle", at |-> Null, record |-> Null, node |-> Null, level |-> 0,
           min |-> 0, purge |-> {}]

NothingSeen == [k \in Key |-> {}]

SkiplistInit ==
  /\ workload \in Workloads
  /\ rec = StartRecords(workload)
  /\ clock = Len(workload.start) + 1
  /\ header = 1
  /\ node = NodesOf(rec, Linked(rec, 1),
                    [o \in Offset |-> IF o \in 2 .. clock THEN workload.start[o - 1][3] ELSE 0])
  /\ made = Cardinality({n \in Node : node[n] # NoNode})
  /\ obsolete = {} /\ pending = {} /\ freed = {}
  /\ index = [k \in Key |-> IF workload.hash THEN IndexOf(rec, node, k, 1) ELSE NoEntry]
  /\ slot = [k \in Key |-> Nobody]
  /\ size = Len(ViewAt(rec, 1, clock))
  /\ th = [t \in Thread |-> NoCall]
  /\ retired = {}
  /\ clean = NoPass /\ passes = 0
  /\ snapshots = {}
  /\ seen = [t \in Thread \union {Cleaner} |-> NothingSeen]
  /\ calls = [t \in Thread |-> 0]
----------------------------------------------------------------------------
(***************************************************************************)
(* Calls.  A call holds a local snapshot from its begin to its end, and a  *)
(* record that was unlinked in between is not freed before its end.        *)
(***************************************************************************)
Active == {t \in Thread : th[t].op \notin {"None", "Iterate"}}

(***************************************************************************)
(* History.  A search without hash index that starts at a node while a     *)
(* write or the cleaner has not brought it up to date goes along records   *)
(* that have left the list, as the list was then: a Get may return a value *)
(* its key had since the oldest such write began.  With the hash index     *)
(* only writes of the same key matter.                                     *)
(***************************************************************************)
Watched == {k \in Key : \E t \in Thread : <<"Get", k>> \in workload.calls[t]}
Now == [k \in Key |-> IF k \in Watched THEN {ValueOf(rec, HeaderRecord, k)} ELSE {}]

Writing == {u \in Thread : th[u].op \in {"Put", "Delete"} /\ th[u].pc # "return"}
Behind(k) == {u \in Writing : workload.hash => th[u].key = k} \union {Cleaner}

\* The value of the last write of k that has returned.
LastWritten(k) ==
  LET w == {u \in Thread : th[u].key = k /\ th[u].new # Null}
      o == IF w = {} THEN Null ELSE th[CHOOSE u \in w : TRUE].existing IN
  IF w = {} THEN ValueOf(rec, HeaderRecord, k)
  ELSE IF o # Null /\ rec[o].status = "Normal" THEN o ELSE Null

SeeWrite(k, o) ==
  seen' = [u \in DOMAIN seen |->
    IF \/ u = Cleaner /\ clean.pc = "mark"
       \/ u \in Writing
       \/ u # Cleaner /\ th[u].op = "Get" /\ th[u].key = k /\ th[u].pc # "return"
    THEN [seen[u] EXCEPT ![k] = IF k \in Watched THEN @ \union {o} ELSE @] ELSE seen[u]]

\* What an iterator that starts now may return of key k: what its snapshot sees,
\* what a write with an older timestamp has still to link, and nothing if the
\* cleaner is about to cut k's versions with an oldest snapshot read before.
AtSnapshot(k) ==
  LET old == {VersionAt(rec, o, clock) : o \in OnListOf(rec, HeaderRecord, k)}
      linking == {u \in Writing : th[u].key = k /\ th[u].new = Null}
      cutting == IF workload.hash THEN clean.record ELSE rec[clean.record].key IN
  (IF old = {} THEN {Null}
   ELSE {IF o # Null /\ rec[o].status = "Normal" THEN o ELSE Null : o \in old})
  \union {IF th[u].op = "Put" THEN th[u].ts ELSE Null : u \in linking}
  \union (IF clean.pc = "lock" /\ cutting = k THEN {Null} ELSE {})

CanBegin(t, op, k) ==
  /\ th[t].pc = "idle"
  /\ calls[t] < workload.each
  /\ <<op, k>> \in workload.calls[t]

\* Seek: from the header at full height down to the lowest level.
StartSeek(c) ==
  [c EXCEPT !.pc = "seek", !.at = HeaderNode, !.from = HeaderNode, !.level = MaxHeight,
            !.top = MaxHeight, !.low = 1, !.gone = {},
            !.prevs = [h \in Height |-> Null], !.nexts = [h \in Height |-> Null],
            !.prev = Null, !.next = Null]

StartCall(op, k) ==
  LET c == [NoCall EXCEPT !.op = op, !.key = k] IN
  IF workload.hash THEN [c EXCEPT !.pc = "lookup"] ELSE StartSeek(c)

SortedGet(t, k) ==
  /\ CanBegin(t, "Get", k)
  /\ th' = [th EXCEPT ![t] = [StartCall("Get", k) EXCEPT !.ts = LastWritten(k)]]
  /\ seen' = [seen EXCEPT ![t][k] = Now[k] \union UNION {seen[u][k] : u \in Behind(k)}]
  /\ UNCHANGED <<pmVars, header, nodeVars, index, slot, size, cleanVars, snapshots,
                 workload, calls>>

\* sortedPutImpl and sortedDeleteImpl lock the slot of the key and take new_ts.
SortedWrite(t, op, k) ==
  /\ op \in {"Put", "Delete"}
  /\ CanBegin(t, op, k)
  /\ slot[k] = Nobody
  /\ clock + 1 \in Offset
  /\ clock' = clock + 1
  /\ slot' = [slot EXCEPT ![k] = t]
  /\ th' = [th EXCEPT ![t] = [StartCall(op, k) EXCEPT !.ts = clock + 1]]
  /\ seen' = [seen EXCEPT ![t] = Now]
  /\ UNCHANGED <<rec, header, nodeVars, index, size, cleanVars, snapshots, workload, calls>>

EndCall(t) ==
  /\ th[t].pc = "return"
  /\ th' = [th EXCEPT ![t] = NoCall]
  /\ slot' = [k \in Key |-> IF slot[k] = t THEN Nobody ELSE slot[k]]
  /\ retired' = {[x EXCEPT !.wait = @ \ {t}] : x \in retired}
  /\ snapshots' = IF th[t].op = "Iterate" THEN snapshots \ {th[t].ts} ELSE snapshots
  /\ seen' = [seen EXCEPT ![t] = NothingSeen]
  /\ calls' = [calls EXCEPT ![t] = @ + 1]
  /\ UNCHANGED <<pmVars, header, nodeVars, index, size, clean, passes, workload>>

----------------------------------------------------------------------------
(***************************************************************************)
(* SeekNode, one round of its loop after the other.                        *)
(***************************************************************************)
Seeking(t) == th[t].pc = "seek"
NextOf(t) == node[th[t].at].next[th[t].level]
SeekUnchanged ==
  UNCHANGED <<pmVars, header, made, pending, freed, index, slot, size, cleanVars, snapshots,
              seen, workload, calls>>

SeekRollBackInPlace(t) ==
  LET c == th[t] IN
  /\ Seeking(t)
  /\ node[c.at].del[c.level]
  /\ th' = [th EXCEPT ![t] =
       IF c.level < c.top THEN [c EXCEPT !.level = @ + 1, !.at = c.prevs[c.level + 1]]
       ELSE [c EXCEPT !.at = c.from]]
  /\ UNCHANGED <<node, obsolete>>
  /\ SeekUnchanged

\* The node is deleted: go back to the level above, or to the start, or begin
\* again at the header; the nodes that were to become obsolete are forgotten.
SeekRollBack(t) ==
  LET c == th[t] IN
  /\ Seeking(t)
  /\ node[c.at].del[c.level]
  /\ th' = [th EXCEPT ![t] =
       IF c.level < c.top THEN [c EXCEPT !.level = @ + 1, !.at = c.prevs[c.level + 1]]
       ELSE IF c.at # c.from THEN [c EXCEPT !.at = c.from]
       ELSE [c EXCEPT !.at = HeaderNode, !.from = HeaderNode, !.level = MaxHeight,
                      !.top = MaxHeight, !.gone = {}]]
  /\ UNCHANGED <<node, obsolete>>
  /\ SeekUnchanged

\* The next node is deleted: take it out of this level.
SeekRemove(t) ==
  LET c == th[t]
      n == NextOf(t)
      i == c.level IN
  /\ Seeking(t)
  /\ ~ node[c.at].del[i]
  /\ n # Null /\ node[n].del[i]
  /\ node' = [node EXCEPT ![c.at].next[i] = node[n].next[i], ![n].links = @ - 1]
  /\ th' = [th EXCEPT ![t].gone = IF node[n].links = 1 THEN @ \union {n} ELSE @]
  /\ UNCHANGED obsolete
  /\ SeekUnchanged

SeekForward(t) ==
  LET c == th[t]
      n == NextOf(t) IN
  /\ Seeking(t)
  /\ ~ node[c.at].del[c.level]
  /\ n # Null /\ ~ node[n].del[c.level] /\ node[n].key < c.key
  /\ th' = [th EXCEPT ![t].at = n]
  /\ UNCHANGED <<node, obsolete>>
  /\ SeekUnchanged

\* The place at this level is found.  After the last one the nodes that have no
\* links become obsolete.
SeekDown(t) ==
  LET c == th[t]
      n == NextOf(t)
      i == c.level
      d == [c EXCEPT !.nexts[i] = n, !.prevs[i] = c.at] IN
  /\ Seeking(t)
  /\ ~ node[c.at].del[i]
  /\ n # Null => ~ node[n].del[i] /\ node[n].key >= c.key
  /\ IF i > c.low
     THEN /\ th' = [th EXCEPT ![t] = [d EXCEPT !.level = i - 1]]
          /\ UNCHANGED obsolete
     ELSE /\ th' = [th EXCEPT ![t] =
               [d EXCEPT !.pc = IF c.link > 0 THEN "link" ELSE "record", !.at = Null,
                         !.from = Null, !.level = 0, !.top = 0, !.low = 0, !.gone = {}]]
          /\ obsolete' = obsolete \union c.gone
  /\ UNCHANGED node
  /\ SeekUnchanged

(***************************************************************************)
(* The rest of Seek: along the records, from the record of the last node.  *)
(***************************************************************************)
\* History: the search goes to a record that is waiting to be freed, and not for
\* this call.
Late(t, o) ==
  th[t].late \/ rec[o].kind = "Freed" \/ \E x \in retired : o \in x.recs /\ t \notin x.wait

Astray(c, o) == IF rec[o].kind = "Freed" THEN "freed" ELSE c.astray

SeekRecord(t) ==
  LET o == node[th[t].prevs[1]].record IN
  /\ th[t].pc = "record"
  /\ th' = [th EXCEPT ![t].pc = "walk", ![t].prev = o, ![t].late = Late(t, o)]
  /\ UNCHANGED <<node, obsolete>>
  /\ SeekUnchanged

SeekWalk(t) ==
  LET c == th[t]
      n == rec[c.prev].next IN
  /\ c.pc = "walk"
  /\ th' = [th EXCEPT ![t] =
       LET d == [c EXCEPT !.late = Late(t, n), !.astray = Astray(c, c.prev)] IN
       IF n # HeaderRecord /\ rec[n].key < c.key THEN [d EXCEPT !.prev = n]
       ELSE [d EXCEPT !.next = n, !.pc = "found"]]
  /\ UNCHANGED <<node, obsolete>>
  /\ SeekUnchanged
----------------------------------------------------------------------------
(***************************************************************************)
(* Get, and PrepareWrite of Put and Delete.                                *)
(***************************************************************************)
CallUnchanged ==
  UNCHANGED <<pmVars, header, nodeVars, index, slot, size, cleanVars, snapshots, seen,
              workload, calls>>

Found(c) == c.pc = "found" /\ rec[c.next].kind = "Elem" /\ rec[c.next].key = c.key

GetFound(t) ==
  LET c == th[t] IN
  /\ c.op = "Get" /\ c.pc = "found"
  /\ th' = [th EXCEPT ![t].pc = "return", ![t].astray = Astray(c, c.next),
       ![t].got = <<IF Found(c) /\ rec[c.next].status # "Outdated" THEN c.next ELSE Null>>]
  /\ CallUnchanged

Entered(e) == e.status \in {"Normal", "Outdated"}

LookupToGet(t) ==
  LET c == th[t]
      e == index[c.key] IN
  /\ c.op = "Get" /\ c.pc = "lookup"
  /\ th' = [th EXCEPT ![t] =
       IF e.status # "Normal" THEN [c EXCEPT !.pc = "return", !.got = <<Null>>]
       ELSE [c EXCEPT !.pc = "read", !.dram = e.node, !.existing = e.record]]
  /\ CallUnchanged

RecordOf(c) == IF c.dram # Null THEN node[c.dram].record ELSE c.existing


\* Get has no lock: the node may have got the record of a deletion since.
GetRead(t) ==
  LET c == th[t] IN
  /\ c.pc = "read"
  /\ th' = [th EXCEPT ![t].pc = "return",
       ![t].got = <<IF rec[RecordOf(c)].status = "Outdated" THEN Null ELSE RecordOf(c)>>]
  /\ CallUnchanged

\* Prepared calls have space; nothing is allocated for the deletion of a key
\* that is not there.
Prepare(t, c, exists) ==
  /\ c.op \in {"Put", "Delete"}
  /\ \/ /\ c.op = "Put" \/ exists
        /\ th' = [th EXCEPT ![t] = [c EXCEPT !.space = TRUE]]
     \/ /\ (c.op = "Delete" /\ ~ exists) \/ workload.full
        /\ th' = [th EXCEPT ![t] = [c EXCEPT !.pc = "return"]]
  /\ CallUnchanged

PrepareWithHash(t) ==
  LET c == th[t]
      e == index[c.key]
      n == IF ~ Entered(e) THEN StartSeek(c)
           ELSE [c EXCEPT !.pc = "update", !.dram = e.node,
                  !.existing = IF e.node = Null THEN e.record ELSE node[e.node].record] IN
  /\ c.pc = "lookup"
  /\ Prepare(t, n, e.status = "Normal")

PrepareNoHash(t) ==
  LET c == th[t] IN
  /\ c.pc = "found" /\ ~ c.space
  /\ Prepare(t, c, Found(c) /\ rec[c.next].status = "Normal")

----------------------------------------------------------------------------
(***************************************************************************)
(* Write: the list in PMem, the node, the hash entry, size and old         *)
(* versions.                                                               *)
(***************************************************************************)
Forget(c) ==
  [c EXCEPT !.prevs = NoCall.prevs, !.nexts = NoCall.nexts, !.prev = Null, !.next = Null]

\* A hash indexed skiplist only seeks keys that do not exist.
KeyExists(c) == ~ workload.hash /\ Found(c)

\* The existing record, with its node if the seek stopped at it.
WriteExisting(t) ==
  LET c == th[t]
      n == c.nexts[1] IN
  /\ c.pc = "found" /\ c.space
  /\ KeyExists(c)
  /\ th' = [th EXCEPT ![t] = [Forget(c) EXCEPT !.pc = "update", !.existing = c.next,
                 !.dram = IF n # Null /\ node[n].record = c.next THEN n ELSE Null]]
  /\ CallUnchanged

\* Update is called until it succeeds.
UpdateRecord(t) ==
  LET c == th[t]
      o == c.ts
      status == IF c.op = "Put" THEN "Normal" ELSE "Outdated" IN
  /\ c.pc = "update"
  /\ CanUpdate(rec, c.existing)
  /\ rec' = Update(rec, c.existing, o, status)
  /\ th' = [th EXCEPT ![t] = [c EXCEPT !.new = o,
                 !.pc = IF c.dram # Null THEN "store" ELSE "finish"]]
  /\ SeeWrite(c.key, IF c.op = "Put" THEN o ELSE Null)
  /\ UNCHANGED <<clock, header, nodeVars, index, slot, size, cleanVars, snapshots, workload,
                 calls>>

StoreRecord(t) ==
  LET c == th[t] IN
  /\ c.pc = "store"
  /\ node' = [node EXCEPT ![c.dram].record = c.new]
  /\ th' = [th EXCEPT ![t].pc = "finish"]
  /\ UNCHANGED <<pmVars, header, made, obsolete, pending, freed, index, slot, size, cleanVars,
                 snapshots, seen, workload, calls>>

\* InsertBetween fails if the neighbours are not linked to each other any more.
CanInsert(r, prev, next) == Between(r, prev, next)

Insert(t, h) ==
  LET c == th[t]
      o == c.ts
      n == made + 1 IN
  /\ c.pc = "found" /\ c.space /\ ~ KeyExists(c)
  /\ CanInsert(rec, c.prev, c.next)
  /\ rec' = InsertBetween(rec, c.prev, c.next, o, c.key)
  /\ IF h = 0
     THEN /\ UNCHANGED <<node, made>>
          /\ th' = [th EXCEPT ![t] = [Forget(c) EXCEPT !.new = o, !.pc = "finish"]]
     ELSE /\ n \in Node
          /\ made' = n
          /\ node' = [node EXCEPT ![n] =
               [NoNode EXCEPT !.key = c.key, !.height = h, !.record = o, !.links = h]]
          /\ th' = [th EXCEPT ![t] =
               [c EXCEPT !.new = o, !.dram = n, !.link = 1, !.pc = "link", !.prev = Null,
                         !.next = Null]]
  /\ SeeWrite(c.key, o)
  /\ UNCHANGED <<clock, header, obsolete, pending, freed, index, slot, size, cleanVars,
                 snapshots, workload, calls>>

SeekAgain(t) ==
  LET c == th[t] IN
  /\ c.pc = "found" /\ c.space /\ ~ KeyExists(c)
  /\ ~ CanInsert(rec, c.prev, c.next)
  /\ th' = [th EXCEPT ![t] = StartSeek(c)]
  /\ CallUnchanged

SpliceHoldsUntagged(p, i, next) == node[p].next[i] = next /\ i \in Height

\* The splice still holds at this level: the node is linked with a CAS.
SpliceHolds(p, i, next) == node[p].next[i] = next /\ ~ node[p].del[i]

LinkNode(t) ==
  LET c == th[t]
      i == c.link IN
  /\ c.pc = "link"
  /\ SpliceHolds(c.prevs[i], i, c.nexts[i])
  /\ node' = [node EXCEPT ![c.dram].next[i] = c.nexts[i], ![c.prevs[i]].next[i] = c.dram]
  /\ th' = [th EXCEPT ![t] = IF i < node[c.dram].height THEN [c EXCEPT !.link = i + 1]
                             ELSE [Forget(c) EXCEPT !.link = 0, !.pc = "finish"]]
  /\ UNCHANGED <<pmVars, header, made, obsolete, pending, freed, index, slot, size, cleanVars,
                 snapshots, seen, workload, calls>>

\* Splice::Recompute: from the lowest level whose prev is not deleted.
Recompute(t) ==
  LET c == th[t]
      i == c.link
      alive == {h \in i .. MaxHeight : ~ node[c.prevs[h]].del[h]}
      top == IF alive = {} THEN MaxHeight ELSE Min(alive)
      from == IF alive = {} THEN HeaderNode ELSE c.prevs[top] IN
  /\ c.pc = "link"
  /\ ~ SpliceHolds(c.prevs[i], i, c.nexts[i])
  /\ th' = [th EXCEPT ![t] = [c EXCEPT !.pc = "seek", !.at = from, !.from = from,
                                 !.level = top, !.top = top, !.low = i]]
  /\ CallUnchanged

SizeChange(c) ==
  LET was == c.existing # Null /\ rec[c.existing].status = "Normal" IN
  IF c.op = "Put" THEN (IF was THEN 0 ELSE 1) ELSE IF was THEN -1 ELSE 0

\* The lock is held by the pass of the cleaner that goes along the records.
CleaningLocked == ~ workload.hash /\ clean.pc # "idle"

\* The hash entry, UpdateSize, and removeAndCacheOutdatedVersion unless the
\* cleaner is at work.
FinishWrite(t) ==
  LET c == th[t]
      old == OutDatedVersions(rec, c.new, GlobalOldestSnapshotTs) IN
  /\ c.pc = "finish"
  /\ index' = IF ~ workload.hash THEN index
              ELSE [index EXCEPT ![c.key] =
                      [status |-> rec[c.new].status, node |-> c.dram,
                       record |-> IF c.dram = Null THEN c.new ELSE Null]]
  /\ size' = size + SizeChange(c)
  /\ IF c.existing = Null \/ CleaningLocked \/ old = {}
     THEN UNCHANGED <<rec, retired>>
     ELSE /\ rec' = RemoveOutDatedVersion(rec, c.new, GlobalOldestSnapshotTs)
          /\ retired' = retired \union {[recs |-> old, wait |-> Active]}
  /\ th' = [th EXCEPT ![t].pc = "return"]
  /\ UNCHANGED <<clock, header, nodeVars, slot, clean, passes, snapshots, seen, workload,
                 calls>>
----------------------------------------------------------------------------
(***************************************************************************)
(* Iterators: SortedIteratorCreate makes a snapshot, SeekToFirst starts    *)
(* behind the header of the DLList, and Next moves from the version the    *)
(* snapshot sees.                                                          *)
(***************************************************************************)
SortedIterate(t) ==
  /\ CanBegin(t, "Iterate", 0)
  /\ th' = [th EXCEPT ![t] = [NoCall EXCEPT !.op = "Iterate", !.pc = "iterate", !.ts = clock,
                                           !.next = rec[header].next,
                     !.astray = IF header = HeaderRecord THEN "no" ELSE "header"]]
  /\ snapshots' = snapshots \union {clock}
  /\ seen' = [seen EXCEPT ![t] = [k \in Key |-> AtSnapshot(k)]]
  /\ UNCHANGED <<pmVars, header, nodeVars, index, slot, size, cleanVars, workload, calls>>

IteratorNext(t) ==
  LET c == th[t]
      v == VersionAt(rec, c.next, c.ts) IN
  /\ c.pc = "iterate"
  /\ th' = [th EXCEPT ![t] =
       IF ~ IsElem(rec, c.next)
       THEN [c EXCEPT !.pc = "return", !.astray = Astray(c, c.next)]
       ELSE IF v = Null \/ rec[v].status = "Outdated" THEN [c EXCEPT !.next = rec[c.next].next]
       ELSE [c EXCEPT !.next = rec[v].next, !.got = Append(@, v)]]
  /\ CallUnchanged

(***************************************************************************)
(* Expire: SetExpireTime replaces the record of the header node with the   *)
(* Replace of the DLList class, which knows no list: header_ of the list   *)
(* stays as it is.                                                         *)
(***************************************************************************)
SetExpireTime(t) ==
  LET o == clock + 1 IN
  /\ CanBegin(t, "Expire", 0)
  /\ o \in Offset
  /\ clock' = o
  /\ rec' = Replace([rec EXCEPT ![o] = [rec[HeaderRecord] EXCEPT !.old = HeaderRecord]],
                    HeaderRecord, o)
  /\ node' = [node EXCEPT ![HeaderNode].record = o]
  /\ th' = [th EXCEPT ![t] = [NoCall EXCEPT !.op = "Expire", !.pc = "return"]]
  /\ UNCHANGED <<header, made, obsolete, pending, freed, index, slot, size, cleanVars,
                 snapshots, seen, workload, calls>>

----------------------------------------------------------------------------
(***************************************************************************)
(* The cleaner.  Without the hash table it goes along the records, holding *)
(* the cleaning lock; otherwise through the slots.                         *)
(***************************************************************************)
PassUnchanged ==
  UNCHANGED <<clock, header, made, obsolete, pending, freed, size, th, snapshots, workload,
              calls>>

StartPass ==
  /\ clean.pc = "idle" /\ passes < workload.passes
  /\ passes' = passes + 1
  /\ clean' = [NoPass EXCEPT !.pc = "next",
                 !.at = IF workload.hash THEN Min(Key) ELSE rec[header].next]
  /\ UNCHANGED <<rec, node, index, slot, retired, seen>>
  /\ PassUnchanged

AtEnd == IF workload.hash THEN clean.at \notin Key ELSE ~ IsElem(rec, clean.at)

\* The iterator moves on, and the oldest snapshot is read, before the slot is
\* locked.
PassNext ==
  /\ clean.pc = "next" /\ ~ AtEnd
  /\ clean' = [clean EXCEPT !.pc = "lock", !.record = clean.at,
                 !.at = IF workload.hash THEN clean.at + 1 ELSE rec[clean.at].next,
                 !.min = GlobalOldestSnapshotTs]
  /\ UNCHANGED <<rec, node, index, slot, retired, passes, seen>>
  /\ PassUnchanged

\* What was removed in this pass is freed when the calls now in progress end.
EndPass ==
  /\ clean.pc = "next" /\ AtEnd
  /\ retired' = IF clean.purge = {} THEN retired
                ELSE retired \union {[recs |-> clean.purge, wait |-> Active]}
  /\ clean' = NoPass
  /\ UNCHANGED <<rec, node, index, slot, passes, seen>>
  /\ PassUnchanged

\* cleanNoHashIndexedSkiplist finds the node of a record along the lowest level.
NodeAtLowestLevel(o) ==
  LET W[n \in Node] ==
        IF node[n].next[1] = Null THEN {}
        ELSE LET m == node[n].next[1] IN
             IF ~ node[m].del[1] /\ node[m].key >= rec[o].key
             THEN (IF node[m].record = o THEN {m} ELSE {}) ELSE W[m] IN
  W[HeaderNode]

Deleted(o) == rec[o].status = "Outdated" /\ o < clean.min

\* Old versions of record o are removed, and o itself if it is a deletion that no
\* snapshot needs; then its node is deleted level by level under the lock.
CleanRecord(k, o, nodes, removed) ==
  LET old == OutDatedVersions(rec, o, clean.min)
      cut == RemoveOutDatedVersion(rec, o, clean.min) IN
  /\ rec' = IF removed THEN Unlink(cut, o) ELSE cut
  /\ clean' = [clean EXCEPT !.purge = @ \union old \union (IF removed THEN {o} ELSE {}),
                 !.pc = IF removed /\ nodes # {} THEN "mark" ELSE "next",
                 !.record = IF removed /\ nodes # {} THEN @ ELSE Null,
                 !.node = IF removed /\ nodes # {} THEN CHOOSE n \in nodes : TRUE ELSE Null,
                 !.level = 1]
  /\ slot' = [slot EXCEPT ![k] = IF removed /\ nodes # {} THEN Cleaner ELSE Nobody]
  /\ seen' = IF removed /\ nodes # {} THEN [seen EXCEPT ![Cleaner] = Now] ELSE seen
  /\ UNCHANGED <<node, retired, passes>>
  /\ PassUnchanged

CleanRecordNoHash ==
  LET o == clean.record
      k == rec[o].key IN
  /\ clean.pc = "lock" /\ ~ workload.hash
  /\ slot[k] = Nobody
  /\ CleanRecord(k, o, NodeAtLowestLevel(o), Deleted(o) /\ OnList(rec, o))
  /\ UNCHANGED index

\* The entry is erased last, under the lock; here with the record.
CleanSlot ==
  LET k == clean.record
      e == index[k]
      o == IF e.node # Null THEN node[e.node].record ELSE e.record
      gone == e.status = "Outdated" /\ Deleted(o) IN
  /\ clean.pc = "lock" /\ workload.hash
  /\ slot[k] = Nobody
  /\ IF Entered(e)
     THEN /\ CleanRecord(k, o, IF e.node # Null THEN {e.node} ELSE {}, gone)
          /\ index' = IF gone THEN [index EXCEPT ![k] = NoEntry] ELSE index
     ELSE /\ clean' = [clean EXCEPT !.pc = "next", !.record = Null]
          /\ UNCHANGED <<rec, node, index, slot, retired, passes, seen>>
          /\ PassUnchanged

\* MarkAsDeleted, from the lowest level up.
MarkAsDeleted ==
  LET last == clean.level = node[clean.node].height IN
  /\ clean.pc = "mark"
  /\ node' = [node EXCEPT ![clean.node].del[clean.level] = TRUE]
  /\ slot' = IF last THEN [k \in Key |-> IF slot[k] = Cleaner THEN Nobody ELSE slot[k]]
             ELSE slot
  /\ clean' = IF last THEN [clean EXCEPT !.pc = "next", !.record = Null, !.node = Null,
                                        !.level = 0]
              ELSE [clean EXCEPT !.level = @ + 1]
  /\ seen' = IF last THEN [seen EXCEPT ![Cleaner] = NothingSeen] ELSE seen
  /\ UNCHANGED <<rec, index, retired, passes>>
  /\ PassUnchanged


\* purgeAndFree, and what writers free of their own: only what no call in
\* progress may refer to.
PurgeAndFree(x) ==
  /\ x \in retired /\ x.wait = {}
  /\ rec' = [o \in Offset |-> IF o \in x.recs THEN [rec[o] EXCEPT !.kind = "Freed"] ELSE rec[o]]
  /\ retired' = retired \ {x}
  /\ UNCHANGED <<node, index, slot, clean, passes, seen>>
  /\ PassUnchanged

\* Nodes that became obsolete wait for one more round.  Nothing makes sure that
\* nobody refers to them any more.
CleanObsoletedNodes ==
  /\ obsolete \union pending # {}
  /\ freed' = freed \union pending
  /\ pending' = obsolete
  /\ obsolete' = {}
  /\ UNCHANGED <<rec, clock, header, node, made, index, slot, size, th, cleanVars, snapshots,
                 seen, workload, calls>>
----------------------------------------------------------------------------
Begin(t) ==
  \/ \E k \in Key : SortedGet(t, k) \/ SortedWrite(t, "Put", k) \/ SortedWrite(t, "Delete", k)
  \/ SortedIterate(t)
  \/ SetExpireTime(t)

Seek(t) ==
  SeekRollBack(t) \/ SeekRemove(t) \/ SeekForward(t) \/ SeekDown(t) \/ SeekRecord(t)
  \/ SeekWalk(t)

Continue(t) ==
  \/ Seek(t)
  \/ GetFound(t) \/ LookupToGet(t) \/ GetRead(t) \/ IteratorNext(t)
  \/ PrepareWithHash(t) \/ PrepareNoHash(t)
  \/ WriteExisting(t) \/ UpdateRecord(t) \/ StoreRecord(t)
  \/ (\E h \in workload.heights : Insert(t, h)) \/ SeekAgain(t)
  \/ LinkNode(t) \/ Recompute(t)
  \/ FinishWrite(t) \/ EndCall(t)

Clean ==
  \/ StartPass \/ PassNext \/ EndPass \/ CleanRecordNoHash \/ CleanSlot \/ MarkAsDeleted
  \/ (\E x \in retired : PurgeAndFree(x))
  \/ CleanObsoletedNodes

Quiet == (\A t \in Thread : th[t].pc = "idle") /\ clean.pc = "idle"

OffsetOrNull == Offset \union {Null}
NodeOrNull == Node \union {Null}

\* The nodes that are linked at level i.
LevelNodes(i) ==
  LET W[s \in Seq(Node)] ==
        IF node[Last(s)].next[i] = Null \/ Len(s) > MaxNode THEN Tail(s)
        ELSE W[Append(s, node[Last(s)].next[i])] IN
  W[<<HeaderNode>>]
=============================================================================
