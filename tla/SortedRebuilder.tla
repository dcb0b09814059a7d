-------------------------- MODULE SortedRebuilder --------------------------
(***************************************************************************)
(* Crashes of a KVDK instance and the recovery of a sorted collection:     *)
(* engine/sorted_collection/rebuilder.cpp.  A crash leaves PMem; the scan  *)
(* of PMem finds the records, and the nodes, the hash entries and the size *)
(* are built again, either along the whole list or by several threads, a   *)
(* segment each.  If there is a checkpoint the records go back to the      *)
(* versions it has.                                                        *)
(***************************************************************************)
EXTENDS Skiplist

VARIABLES
  phase,       \* "run", or the part of the recovery that comes next
  crashes,
  checkpoint,  \* the timestamp of the persisted checkpoint, 0 if there is none
  unlinked,    \* unlinked_records of the rebuilder
  segments,    \* recovery_segments_: the nodes at which a segment starts
  build,       \* the rebuild of each segment
  want         \* history: what the collection had when the instance ended

rebuildVars == <<phase, crashes, checkpoint, unlinked, segments, build, want>>
allVars == <<vars, rebuildVars>>

NotBuilt == [node |-> Null, record |-> Null, elems |-> 0, done |-> FALSE]

Init ==
  /\ SkiplistInit
  /\ phase = "run" /\ crashes = 0 /\ checkpoint = 0
  /\ unlinked = {} /\ segments = {}
  /\ build = [n \in Node |-> NotBuilt]
  /\ want = <<>>

Run(A) == phase = "run" /\ A /\ UNCHANGED rebuildVars

\* GetSnapshot with make_checkpoint, while nothing is in progress.
MakeCheckpoint ==
  /\ phase = "run" /\ Quiet /\ workload.checkpoint /\ checkpoint = 0
  /\ checkpoint' = clock
  /\ snapshots' = snapshots \union {clock}
  /\ UNCHANGED <<pmVars, header, nodeVars, index, slot, size, th, cleanVars, seen, workload,
                 calls, phase, crashes, unlinked, segments, build, want>>

\* DRAM is lost, also in the middle of a recovery.
Crash ==
  /\ crashes < workload.crashes
  /\ crashes' = crashes + 1
  /\ phase' = "scan"
  /\ want' = IF phase # "run" THEN want
             ELSE ViewAt(rec, HeaderRecord, IF checkpoint = 0 THEN clock ELSE checkpoint)
  /\ header' = Null
  /\ node' = [n \in Node |-> NoNode] /\ made' = HeaderNode
  /\ obsolete' = {} /\ pending' = {} /\ freed' = {}
  /\ index' = [k \in Key |-> NoEntry] /\ slot' = [k \in Key |-> Nobody]
  /\ size' = 0
  /\ th' = [t \in Thread |-> NoCall] /\ seen' = [u \in DOMAIN seen |-> NothingSeen]
  /\ retired' = {} /\ clean' = NoPass /\ snapshots' = {}
  /\ unlinked' = {} /\ segments' = {} /\ build' = [n \in Node |-> NotBuilt]
  /\ UNCHANGED <<pmVars, passes, workload, calls, checkpoint>>

----------------------------------------------------------------------------
CheckLinkage(r, o) == r[r[o].prev].next = o /\ r[r[o].next].prev = o

Free(r, os) == [o \in Offset |-> IF o \in os THEN [r[o] EXCEPT !.kind = "Freed"] ELSE r[o]]

Stored == {o \in Offset : rec[o].kind \in {"Elem", "Header"}}

FindNewestVersion(r, o) == Versions(r, o)[1]

FindCheckpointVersion(r, o) == IF checkpoint = 0 THEN o ELSE VersionAt(r, o, checkpoint)

\* AddElement makes every stride-th linked record it meets, in the order in which
\* the threads scan PMem, the start of a segment, if it is the valid version.
SegmentStart(o) == rec[o].kind = "Elem" /\ FindCheckpointVersion(rec, o) = o

SegmentStarts(linked) ==
  IF workload.stride = 0 THEN {{}}
  ELSE {s \in SUBSET {o \in linked : SegmentStart(o)} :
          Cardinality(s) <= Cardinality(linked) \div workload.stride}

\* The scan of PMem: AddHeader and AddElement of every record.  What is not linked
\* is freed, or kept for the end if it may be a version of the checkpoint.
Scan ==
  LET linked == {o \in Stored : CheckLinkage(rec, o)}
      other == {o \in Stored \ linked : rec[o].status # "Dirty"} IN
  /\ phase = "scan"
  /\ phase' = "init"
  /\ IF checkpoint = 0
     THEN rec' = Free(rec, Stored \ linked) /\ UNCHANGED unlinked
     ELSE rec' = Free(rec, Stored \ (linked \union other)) /\ unlinked' = other
  /\ \E starts \in SegmentStarts({o \in linked : IsElem(rec, o)}) :
     \E high \in [starts -> workload.heights \ {0}] :
       LET s == SetToSortSeq(starts, LAMBDA a, b : a < b) IN
       /\ made' = HeaderNode + Len(s)
       /\ node' = [n \in Node |->
            IF n - 1 \notin DOMAIN s THEN NoNode
            ELSE [NoNode EXCEPT !.key = rec[s[n - 1]].key, !.record = s[n - 1],
                                !.height = high[s[n - 1]], !.links = high[s[n - 1]]]]
       /\ segments' = 2 .. made'
  /\ UNCHANGED <<clock, header, obsolete, pending, freed, index, slot, size, th, cleanVars,
                 snapshots, seen, workload, calls, crashes, checkpoint, build, want>>

\* The header goes back to the version of the checkpoint; the header node starts a
\* segment, or the rebuild of the whole list.
InitRebuildLists ==
  LET new == CHOOSE o \in Stored : rec[o].kind = "Header" /\ CheckLinkage(rec, o)
      valid == FindCheckpointVersion(rec, new)
      r == IF valid = new THEN rec ELSE Replace(rec, new, valid) IN
  /\ phase = "init"
  /\ phase' = "build"
  /\ rec' = [r EXCEPT ![valid].old = Null]
  /\ unlinked' = IF valid = new THEN unlinked ELSE unlinked \union {new}
  /\ header' = valid
  /\ node' = [node EXCEPT ![HeaderNode] =
       [NoNode EXCEPT !.height = MaxHeight, !.record = valid, !.links = MaxHeight]]
  /\ segments' = segments \union {HeaderNode}
  /\ UNCHANGED <<clock, made, obsolete, pending, freed, index, slot, size, th, cleanVars,
                 snapshots, seen, workload, calls, crashes, checkpoint, build, want>>

----------------------------------------------------------------------------
(***************************************************************************)
(* rebuildSegmentIndex and rebuildSkiplistIndex, a record per step.        *)
(***************************************************************************)
BuildUnchanged ==
  UNCHANGED <<clock, header, obsolete, pending, freed, slot, th, cleanVars, snapshots, seen,
              workload, calls, crashes, checkpoint, segments, want>>

Entry(r, n, o) == [status |-> r[o].status, node |-> n, record |-> IF n = Null THEN o ELSE Null]

\* The record a segment starts at is indexed and counted first.
StartSegment(s) ==
  LET o == node[s].record IN
  /\ phase = "build" /\ s \in segments /\ build[s] = NotBuilt
  /\ index' = IF s # HeaderNode /\ workload.hash
              THEN [index EXCEPT ![node[s].key] = Entry(rec, s, o)] ELSE index
  /\ rec' = [rec EXCEPT ![o].old = Null]
  /\ build' = [build EXCEPT ![s] = [NotBuilt EXCEPT !.node = s, !.record = o,
                                      !.elems = IF s = HeaderNode THEN 0 ELSE 1]]
  /\ UNCHANGED <<node, made, size, phase, unlinked>>
  /\ BuildUnchanged

Building(s) == phase = "build" /\ s \in segments /\ build[s].node # Null /\ ~ build[s].done
NextRecord(s) == rec[build[s].record].next
SegmentAt(o) == {n \in segments : node[n].record = o}

\* A record without a valid version, or with a deletion, is removed.
RemoveInvalid(s) ==
  LET o == NextRecord(s)
      v == FindCheckpointVersion(rec, o) IN
  /\ Building(s) /\ SegmentAt(o) = {}
  /\ v # Null => rec[v].status = "Outdated"
  /\ rec' = Unlink(rec, o)
  /\ unlinked' = unlinked \union {o}
  /\ UNCHANGED <<node, made, index, size, build, phase>>
  /\ BuildUnchanged

\* The last node at level i: where the splice of rebuildSkiplistIndex stands.
LastAt(i) == Last(<<HeaderNode>> \o LevelNodes(i))

\* A segment links its nodes at the lowest level; the list is linked at all levels.
LinkBuilt(s, n, o, h) ==
  LET new == [NoNode EXCEPT !.key = rec[o].key, !.record = o, !.height = h, !.links = h] IN
  IF workload.stride # 0
  THEN [node EXCEPT ![n] = new, ![build[s].node].next[1] = n]
  ELSE LET before == [i \in 1 .. h |-> LastAt(i)] IN
       [m \in Node |->
          IF m = n THEN new
          ELSE [node[m] EXCEPT !.next = [i \in Height |->
                  IF i <= h THEN (IF before[i] = m THEN n ELSE @[i]) ELSE @[i]]]]

AddValid(s, h) ==
  LET o == NextRecord(s)
      v == FindCheckpointVersion(rec, o)
      r == IF v = o THEN rec ELSE Replace(rec, o, v)
      n == IF h = 0 THEN Null ELSE made + 1 IN
  /\ Building(s) /\ SegmentAt(o) = {}
  /\ v # Null /\ rec[v].status # "Outdated"
  /\ n \in NodeOrNull
  /\ workload.hash => index[rec[v].key] = NoEntry
  /\ rec' = [r EXCEPT ![v].old = Null]
  /\ unlinked' = IF v = o THEN unlinked ELSE unlinked \union {o}
  /\ node' = IF h = 0 THEN node ELSE LinkBuilt(s, n, v, h)
  /\ made' = IF h = 0 THEN made ELSE n
  /\ index' = IF workload.hash THEN [index EXCEPT ![rec[v].key] = Entry(rec, n, v)] ELSE index
  /\ build' = [build EXCEPT ![s].record = v, ![s].elems = @ + 1,
                            ![s].node = IF h = 0 THEN @ ELSE n]
  /\ UNCHANGED <<size, phase>>
  /\ BuildUnchanged

\* At the header or at the start of another segment.
EndSegment(s) ==
  LET other == SegmentAt(NextRecord(s)) \ {HeaderNode} IN
  /\ Building(s) /\ SegmentAt(NextRecord(s)) # {}
  /\ node' = IF other = {} THEN node
             ELSE [node EXCEPT ![build[s].node].next[1] = CHOOSE n \in other : TRUE]
  /\ size' = size + build[s].elems
  /\ build' = [build EXCEPT ![s].done = TRUE]
  /\ UNCHANGED <<rec, made, index, phase, unlinked>>
  /\ BuildUnchanged

\* linkHighDramNodes: along the lowest level.
HighLinks ==
  LET l == <<HeaderNode>> \o LevelNodes(1)
      After(j, i) == {k \in j + 1 .. Len(l) : node[l[k]].height >= i} IN
  [n \in Node |->
     IF n \notin ToSet(l) THEN node[n]
     ELSE LET j == CHOOSE j \in DOMAIN l : l[j] = n IN
          [node[n] EXCEPT !.next = [i \in Height |->
             IF i = 1 THEN @[1] ELSE IF i > node[n].height \/ After(j, i) = {} THEN Null
             ELSE l[Min(After(j, i))]]]]

LinkHighDramNodes ==
  /\ phase = "build" /\ \A s \in segments : build[s].done
  /\ phase' = "clean"
  /\ node' = IF workload.stride = 0 THEN node ELSE HighLinks
  /\ build' = [n \in Node |-> NotBuilt]
  /\ UNCHANGED <<rec, made, index, size, unlinked>>
  /\ BuildUnchanged

\* What is still not linked is destroyed.
CleanInvalidRecords ==
  /\ phase = "clean"
  /\ phase' = "release"
  /\ rec' = Free(rec, {o \in unlinked : ~ CheckLinkage(rec, o)})
  /\ unlinked' = {}
  /\ UNCHANGED <<node, made, index, size, build>>
  /\ BuildUnchanged

\* The checkpoint is given up at the end of the recovery.
ReleaseCheckpoint ==
  /\ phase = "release"
  /\ phase' = "run"
  /\ checkpoint' = 0 /\ segments' = {} /\ want' = <<>>
  /\ UNCHANGED <<vars, crashes, unlinked, build>>

Rebuild ==
  \/ Scan \/ InitRebuildLists
  \/ (\E s \in segments :
        StartSegment(s) \/ RemoveInvalid(s) \/ (\E h \in workload.heights : AddValid(s, h))
        \/ EndSegment(s))
  \/ LinkHighDramNodes \/ CleanInvalidRecords \/ ReleaseCheckpoint

Next ==
  \/ Run(Clean)
  \/ \E t \in Thread : Run(Begin(t)) \/ Run(Continue(t))
  \/ MakeCheckpoint
  \/ Crash
  \/ Rebuild

Fairness ==
  /\ \A t \in Thread : WF_allVars(Run(Continue(t)))
  /\ WF_allVars(Run(Clean))
  /\ WF_allVars(Rebuild)

Spec == Init /\ [][Next]_allVars /\ Fairness

----------------------------------------------------------------------------
TypeOK ==
  /\ \A o \in Offset : /\ rec[o].kind \in {"None", "Header", "Elem", "Freed"}
                        /\ rec[o].status \in {"Normal", "Outdated", "Dirty"}
                        /\ {rec[o].prev, rec[o].next, rec[o].old} \subseteq OffsetOrNull
  /\ clock \in Offset /\ header \in OffsetOrNull /\ made \in Node /\ size \in Nat
  /\ \A n \in Node : /\ node[n].next \in [Height -> NodeOrNull]
                      /\ node[n].del \in [Height -> BOOLEAN]
                      /\ node[n].record \in OffsetOrNull /\ node[n].links \in 0 .. MaxHeight
  /\ obsolete \union pending \union freed \subseteq Node
  /\ slot \in [Key -> Thread \union {Cleaner, Nobody}]
  /\ \A t \in Thread : /\ {th[t].prev, th[t].next, th[t].existing, th[t].new} \subseteq OffsetOrNull
                        /\ {th[t].at, th[t].from, th[t].dram} \subseteq NodeOrNull
                        /\ th[t].link \in 0 .. MaxHeight
  /\ \A x \in retired : x.recs \subseteq Offset /\ x.wait \subseteq Thread

(***************************************************************************)
(* The records in PMem are in the order of their keys, one per key, each   *)
(* linked with the next one both ways, whatever writers and the cleaner    *)
(* do at once.                                                             *)
(***************************************************************************)
KeysInOrder ==
  header # Null =>
  LET l == Linked(rec, HeaderRecord) IN
  /\ \A i \in 1 .. Len(l) - 1 : rec[l[i]].key < rec[l[i + 1]].key
  /\ \A o \in ToSet(l) \union {HeaderRecord} :
       rec[rec[o].next].prev = o /\ rec[o].kind \in {"Elem", "Header"}

(***************************************************************************)
(* A node becomes obsolete, to be freed two rounds of the cleaner later,   *)
(* only when it is on no level any more: valid_links counts right although *)
(* threads take a node out of its levels one by one and side by side.      *)
(***************************************************************************)
ObsoleteUnlinked ==
  \A i \in Height : (obsolete \union pending \union freed) \intersect ToSet(LevelNodes(i)) = {}

Built == Quiet /\ phase \in {"run", "release"}

(***************************************************************************)
(* SortedSize is the "number of elements in a sorted collection"           *)
(* (engine.hpp) whenever no write is in progress.                          *)
(***************************************************************************)
SizeMatches == Built => size = Len(ViewAt(rec, HeaderRecord, clock))

(***************************************************************************)
(* What CheckIndex looks for, while nothing is in progress: the levels are *)
(* ordered, every node that is not deleted is on all its levels and has    *)
(* the record of its key that is on the list, and the hash table has, for  *)
(* each record and for no other key, the node or the record.  At every     *)
(* step the records are in order, the obsolete nodes unlinked.             *)
(***************************************************************************)
Alive(n) == ~ node[n].del[1]
IndexSound == TypeOK /\ KeysInOrder /\ ObsoleteUnlinked /\ SizeMatches /\
  (Built =>
    /\ \A i \in Height :
         LET l == LevelNodes(i) IN
         /\ \A j \in 1 .. Len(l) - 1 : node[l[j]].key <= node[l[j + 1]].key
         /\ \A n \in 2 .. made : Alive(n) /\ i <= node[n].height => n \in ToSet(l)
    /\ \A n \in 2 .. made : Alive(n) =>
         node[n].record \in OnListOf(rec, HeaderRecord, node[n].key)
    /\ \A k \in Key : workload.hash => index[k] =
         IndexOf(rec, [n \in Node |-> IF Alive(n) THEN node[n] ELSE NoNode], k, HeaderRecord))

Returned(t, op) == th[t].op = op /\ th[t].pc = "return"

(***************************************************************************)
(* SortedGet returns a value its key had at some time during the call, or  *)
(* since the oldest of the writes began that were in progress when it      *)
(* began; with the hash index only writes of its own key count.  Left out  *)
(* are searches that went over a freed record (SeekOnLiveRecord).          *)
(***************************************************************************)
GetsAreCurrent ==
  \A t \in Thread : Returned(t, "Get") /\ th[t].astray = "no" =>
    th[t].got[1] \in seen[t][th[t].key]

(***************************************************************************)
(* A Get never returns a value older than the one of the last write of its *)
(* key that returned before it began.                                      *)
(***************************************************************************)
GetsAreFresh ==
  \A t \in Thread : Returned(t, "Get") /\ th[t].got[1] # Null => th[t].got[1] >= th[t].ts

\* The record an iterator returned for key k, Null if it returned none.
Got(t, k) ==
  LET os == {o \in ToSet(th[t].got) : rec[o].key = k} IN
  IF os = {} THEN Null ELSE CHOOSE o \in os : TRUE

IteratedInOrder(t) ==
  LET got == th[t].got IN
  /\ \A i, j \in DOMAIN got : i < j => rec[got[i]].key < rec[got[j]].key
  /\ \A k \in Key : Got(t, k) \in seen[t][k]

(***************************************************************************)
(* An iterator goes over "all KVs in the collection" (engine.hpp) at its   *)
(* snapshot, in order, whatever is written and cleaned meanwhile, unless   *)
(* it came to a freed record: iterators hold no local snapshot.  A write   *)
(* with an older timestamp that was in progress may be seen or not, and a  *)
(* key may be missing whose versions the cleaner was about to cut.         *)
(***************************************************************************)
IteratorSeesSnapshot ==
  \A t \in Thread : Returned(t, "Iterate") /\ th[t].astray # "freed" => IteratedInOrder(t)


(***************************************************************************)
(* "the record won't be freed during this operation" (Seek, skiplist.cpp): *)
(* a search never stands at a record, or returns one, that is freed while  *)
(* it runs, unless a node that a write had not brought up to date led it   *)
(* to a record that was off the list for good before the search began.     *)
(***************************************************************************)
Stands(t) == IF th[t].pc \in {"walk", "found"} THEN {th[t].prev, th[t].next} \ {Null} ELSE {}

(***************************************************************************)
(* The same of every search.                                               *)
(***************************************************************************)
NoFreedRecordSought == \A t \in Thread : \A o \in Stands(t) : rec[o].kind # "Freed"

(***************************************************************************)
(* "make sure the node is not referenced" (CleanObsoletedNodes): a node    *)
(* that is freed is in the hands of no search.                             *)
(***************************************************************************)
NoFreedNodeReferenced ==
  \A t \in Thread :
    ({th[t].at, th[t].from} \union {th[t].prevs[h] : h \in Height}) \cap freed = {}

(***************************************************************************)
(* Recovery gives back what the collection had when the instance ended, or *)
(* what it had at the checkpoint if there is one, also when it was         *)
(* interrupted by another crash.  Every record in PMem is linked then or   *)
(* has been freed: no space is lost, and nothing that is linked was freed. *)
(***************************************************************************)
RecoveryRestores ==
  phase = "release" =>
    /\ ViewAt(rec, HeaderRecord, clock) = want
    /\ Stored = ToSet(Linked(rec, HeaderRecord)) \union {HeaderRecord}

(***************************************************************************)
(* Every call returns and every recovery ends: searches and the loops that *)
(* link a node come to an end although nodes are deleted under them.  One  *)
(* loop does not: a write whose search ended at a record that had left the *)
(* list calls Update on it for ever (putPreparedNoHash and                 *)
(* deletePreparedNoHash never seek again), and keeps the lock of its slot. *)
(***************************************************************************)
Superseded(t) == th[t].pc = "update" /\ ~ OnList(rec, th[t].existing)
CallsReturn ==
  <>[](phase = "run" /\ \A t \in Thread : th[t].pc = "idle" \/ Superseded(t))

(***************************************************************************)
(* Every call returns, without exception.                                  *)
(***************************************************************************)
AllCallsReturn == <>[](phase = "run" /\ \A t \in Thread : th[t].pc = "idle")
=============================================================================
