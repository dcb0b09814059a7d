--------------------------- MODULE PMEMAllocator ---------------------------
(***************************************************************************)
(* engine/pmem_allocator/: the space of persistent memory.  A space is a   *)
(* number of blocks; its size stands in the header of the record or of the *)
(* padding at its first block, so recovery finds the records of a segment  *)
(* by going from header to header.  Free spaces are marked in the tokens   *)
(* of a space map and listed in caches of the threads and in two pools.    *)
(* An entry of a list may be stale: the space map decides whether the      *)
(* space is still free.  A background thread moves entries to the pool and *)
(* merges neighbours.                                                      *)
(*                                                                         *)
(* Offsets and sizes are counted in blocks.  Every thread has a slot of    *)
(* its own.                                                                *)
(***************************************************************************)
EXTENDS Integers, FiniteSets, SequencesExt

CONSTANTS
  Thread,
  NumSegments,
  SegmentBlocks,  \* num_segment_blocks_
  MaxToken,       \* INT8_MAX: the most blocks one token of the map covers
  SmallLimit,     \* max_small_entry_block_size_
  SizeInterval,   \* kBlockSizeIndexInterval
  MaxAdjacent,    \* kMaxAjacentSpaceSizeInMerge
  MinMovable,     \* kMinMovableEntries
  Workloads       \* what the callers do, one choice for a behaviour: the sizes that
                  \* each thread allocates, and bounds on calls, merges and crashes

NumBlocks == NumSegments * SegmentBlocks
Block == 0 .. NumBlocks - 1
Size == 1 .. SegmentBlocks
SmallSize == 1 .. SmallLimit - 1
SpaceEntry == [offset : Block, size : Size]
NoSpace == [offset |-> 0, size |-> 0]

ASSUME AllocatorAssumption ==
  /\ {NumSegments, SegmentBlocks, MaxToken, SizeInterval, MinMovable} \subseteq Nat \ {0}
  /\ SmallLimit \in 2 .. SegmentBlocks
  /\ MaxAdjacent \in Nat
  /\ Workloads \subseteq [sizes : [Thread -> SUBSET Size],
                           allocs : Nat, merges : Nat, crashes : Nat]

VARIABLES
  pmem,           \* persistent: the header at each block, if there is one
  space_map,      \* Freelist::space_map_, a token for each block
  offset_head,    \* the first segment not fetched yet
  segment_entry,  \* palloc_thread_cache_[t].segment_entry
  free_entry,     \* palloc_thread_cache_[t].free_entry
  small, large,   \* flist_thread_cache_[t]: offsets by size, and large entries
  active, merged, \* active_pool_ and merged_pool_: stacks of lists
  pc, need,       \* the call of each thread and the size it asks for
  class,          \* the list it searches
  hand,           \* the space it got and has not written, or is about to free
  pushing,        \* the space in the map that is not in a list yet
  merge,          \* MergeSpaceInPool
  usage,          \* PMemUsageInBytes()
  live,           \* history: the records that were written and not destroyed
  mode,           \* "run" or "recover"
  workload, allocs, merges, crashes

pmVars     == <<pmem, live>>
mapVars    == <<space_map, offset_head>>
entryVars  == <<segment_entry, free_entry>>
listVars   == <<small, large, active, merged>>
callVars   == <<pc, need, class, hand, pushing>>
boundVars  == <<workload, allocs, merges, crashes>>
vars == <<pmVars, mapVars, entryVars, listVars, callVars, merge, usage, mode,
          boundVars>>

SegmentEnd(b) == (b \div SegmentBlocks + 1) * SegmentBlocks
Blocks(e) == e.offset .. e.offset + e.size - 1

----------------------------------------------------------------------------
(***************************************************************************)
(* The header of a space.  Never written: size 0.  The blocks of a record  *)
(* behind its first one hold its key and value, not a header.              *)
(***************************************************************************)
Unused == [type |-> "Empty", size |-> 0]
Data == [type |-> "Data", size |-> 0]
Padding(n) == [type |-> "Empty", size |-> n]
Record(n) == [type |-> "Record", size |-> n]

persistSpaceEntry(pm, o, n) == [pm EXCEPT ![o] = Padding(n)]

\* blockSizeIndex: large entries of similar sizes share a set.
blockSizeIndex(n) == IF n < SmallLimit THEN 0 ELSE (n - SmallLimit) \div SizeInterval
Index == 0 .. blockSizeIndex(SegmentBlocks)

(***************************************************************************)
(* SpaceMap: the first token of a space is a start, the others follow it   *)
(* at the distance each one covers.                                        *)
(***************************************************************************)
NoToken == [start |-> FALSE, size |-> 0]

Tokens(m, o, n, from) ==
  [b \in Block |->
     IF b \in o .. o + n - 1 /\ (b - o) % MaxToken = 0
     THEN [start |-> b = from,
           size |-> IF o + n - b < MaxToken THEN o + n - b ELSE MaxToken]
     ELSE m[b]]

\* Set, and setRemaining behind a space that starts at another block.
Set(m, e) == Tokens(m, e.offset, e.size, e.offset)
SetRemaining(m, o, n, start) == Tokens(m, o, n, start)

\* testLocked: the size of the space that starts at o, 0 if none does.
Test(m, o) ==
  LET Rest[b \in 0 .. NumBlocks] ==
        IF b = NumBlocks THEN 0
        ELSE IF m[b].start \/ m[b].size = 0 THEN 0
        ELSE m[b].size + Rest[b + m[b].size]
  IN  IF m[o].start THEN m[o].size + Rest[o + m[o].size] ELSE 0

Clear(m, o, n) == [b \in Block |-> IF b \in o .. o + n - 1 THEN NoToken ELSE m[b]]

\* TestAndClear succeeds only if exactly this space is free.
IsFree(m, e) == Test(m, e.offset) = e.size

\* The free spaces of the map.
FreeSpaces ==
  {[offset |-> o, size |-> Test(space_map, o)] : o \in {b \in Block : space_map[b].start}}

(***************************************************************************)
(* TryMerge: how large the space of n blocks at o gets.  Spaces behind it  *)
(* are merged while they are not far larger; the loop leaves before it     *)
(* merges a space that reaches the end of the segment.                     *)
(***************************************************************************)
MergedSize(m, o, n) ==
  LET Grow[k \in Size] ==
        LET b == o + k
            next == IF b < SegmentEnd(o) THEN Test(m, b) ELSE 0
        IN  IF next > 0 /\ next <= MaxAdjacent * k /\ b + next < SegmentEnd(o)
            THEN Grow[k + next] ELSE k
  IN  IF Test(m, o) = n THEN Grow[n] ELSE 0

TryMerge(m, o, n) ==
  LET k == MergedSize(m, o, n)
  IN  IF k > n THEN SetRemaining(Clear(m, o + n, k - n), o + n, k - n, o) ELSE m

----------------------------------------------------------------------------
NoMerge == [at |-> "off", size |-> 0, todo |-> <<>>, space |-> NoSpace,
            small |-> [n \in SmallSize |-> <<>>], large |-> [i \in Index |-> {}]]

EmptyPool == [small |-> [n \in SmallSize |-> <<>>], large |-> [i \in Index |-> <<>>]]

\* NewPMEMAllocator on a new file.
Init ==
  /\ pmem = [b \in Block |-> Unused]
  /\ live = {}
  /\ space_map = [b \in Block |-> NoToken]
  /\ offset_head = 0
  /\ segment_entry = [t \in Thread |-> NoSpace]
  /\ free_entry = [t \in Thread |-> NoSpace]
  /\ small = [t \in Thread |-> [n \in SmallSize |-> <<>>]]
  /\ large = [t \in Thread |-> {}]
  /\ active = EmptyPool /\ merged = EmptyPool
  /\ pc = [t \in Thread |-> "idle"]
  /\ need = [t \in Thread |-> 0]
  /\ class = [t \in Thread |-> 0]
  /\ hand = [t \in Thread |-> NoSpace]
  /\ pushing = [t \in Thread |-> NoSpace]
  /\ merge = NoMerge
  /\ usage = 0
  /\ mode = "run"
  /\ workload \in Workloads
  /\ allocs = 0 /\ merges = 0 /\ crashes = 0

\* t takes a step of its call; it has finished the Push of an earlier step.
At(t, label) ==
  mode = "run" /\ pc[t] = label /\ pushing[t] = NoSpace

GoTo(t, label) == pc' = [pc EXCEPT ![t] = label]

(***************************************************************************)
(* Allocate: the loop first looks at the segment of the thread, then at    *)
(* the space it got from the free list.                                    *)
(***************************************************************************)
Allocate(t) ==
  /\ At(t, "idle") /\ allocs < workload.allocs
  /\ \E n \in workload.sizes[t] : need' = [need EXCEPT ![t] = n]
  /\ allocs' = allocs + 1
  /\ GoTo(t, "loop")
  /\ UNCHANGED <<pmVars, mapVars, entryVars, listVars, class, hand, pushing, merge,
                 usage, mode, workload, merges, crashes>>

FitsSegment(t) == segment_entry[t].size >= need[t]
FitsFreeEntry(t) == ~FitsSegment(t) /\ free_entry[t].size >= need[t]

Take(e, n) == [offset |-> e.offset, size |-> n]
Rest(e, n) ==
  IF e.size = n THEN NoSpace ELSE [offset |-> e.offset + n, size |-> e.size - n]

AllocateFromSegment(t) ==
  /\ At(t, "loop") /\ FitsSegment(t)
  /\ hand' = [hand EXCEPT ![t] = Take(segment_entry[t], need[t])]
  /\ pmem' = persistSpaceEntry(pmem, segment_entry[t].offset, need[t])
  /\ segment_entry' = [segment_entry EXCEPT ![t] = Rest(@, need[t])]
  /\ usage' = usage + need[t]
  /\ GoTo(t, "got")
  /\ UNCHANGED <<live, mapVars, free_entry, listVars, need, class, pushing, merge,
                 mode, boundVars>>

\* Mutant: the first part is marked, the second one is not.
SplitFirstPart(t) ==
  /\ At(t, "loop") /\ FitsFreeEntry(t)
  /\ pmem' = persistSpaceEntry(pmem, free_entry[t].offset, need[t])
  /\ GoTo(t, "split")
  /\ UNCHANGED <<live, mapVars, entryVars, listVars, need, class, hand, pushing, merge,
                 usage, mode, boundVars>>

\* The second part of a split space is marked before the first one shrinks.
SplitFreeEntry(t) ==
  /\ At(t, "loop") /\ FitsFreeEntry(t)
  /\ LET rest == Rest(free_entry[t], need[t])
     IN  pmem' = IF rest.size > 0 THEN persistSpaceEntry(pmem, rest.offset, rest.size)
                                  ELSE pmem
  /\ GoTo(t, "split")
  /\ UNCHANGED <<live, mapVars, entryVars, listVars, need, class, hand, pushing, merge,
                 usage, mode, boundVars>>

AllocateFromFreeEntry(t) ==
  /\ At(t, "split")
  /\ LET space == Take(free_entry[t], need[t])
     IN  /\ hand' = [hand EXCEPT ![t] = space]
         /\ pmem' = IF pmem[space.offset].size # need[t]
                    THEN persistSpaceEntry(pmem, space.offset, need[t]) ELSE pmem
  /\ free_entry' = [free_entry EXCEPT ![t] = Rest(@, need[t])]
  /\ usage' = usage + need[t]
  /\ GoTo(t, "got")
  /\ UNCHANGED <<live, mapVars, segment_entry, listVars, need, class, pushing, merge,
                 mode, boundVars>>

(***************************************************************************)
(* Freelist::Push: the space is marked free in the map, then listed.       *)
(***************************************************************************)
Push(t, e) ==
  /\ space_map' = IF e.size > 0 THEN Set(space_map, e) ELSE space_map
  /\ pushing' = [pushing EXCEPT ![t] = IF e.size > 0 THEN e ELSE NoSpace]

\* The entry goes to the cache of the thread.
ListFreeSpace(t) ==
  LET e == pushing[t] IN
  /\ mode = "run" /\ e # NoSpace
  /\ IF e.size < SmallLimit
     THEN /\ small' = [small EXCEPT ![t][e.size] = Append(@, e.offset)]
          /\ UNCHANGED large
     ELSE /\ large' = [large EXCEPT ![t] = @ \union {e}]
          /\ UNCHANGED small
  /\ usage' = usage - e.size
  /\ pushing' = [pushing EXCEPT ![t] = NoSpace]
  /\ UNCHANGED <<pmVars, mapVars, entryVars, active, merged, pc, need, class, hand,
                 merge, mode, boundVars>>

\* BatchPush, of BatchFree: the entry goes to the pool, as a list of its own.
ListInPool(t) ==
  LET e == pushing[t] IN
  /\ mode = "run" /\ e # NoSpace /\ pc[t] = "idle"
  /\ active' = IF e.size < SmallLimit
               THEN [active EXCEPT !.small[e.size] = Append(@, <<e.offset>>)]
               ELSE [active EXCEPT !.large[blockSizeIndex(e.size)] = Append(@, {e})]
  /\ usage' = usage - e.size
  /\ pushing' = [pushing EXCEPT ![t] = NoSpace]
  /\ UNCHANGED <<pmVars, mapVars, entryVars, small, large, merged, pc, need, class,
                 hand, merge, mode, boundVars>>

\* Mutant: the space is freed and kept.
ReleaseKeeping(t) ==
  /\ At(t, "loop") /\ ~FitsSegment(t) /\ ~FitsFreeEntry(t)
  /\ Push(t, free_entry[t])
  /\ usage' = usage + free_entry[t].size
  /\ class' = [class EXCEPT ![t] = IF need[t] < SmallLimit THEN need[t]
                                   ELSE SmallLimit + blockSizeIndex(need[t])]
  /\ GoTo(t, "search")
  /\ UNCHANGED <<pmVars, offset_head, entryVars, listVars, need, hand, merge, mode,
                 boundVars>>

\* What is left of the space from the free list is too small, if anything is.
ReleaseFreeEntry(t) ==
  /\ At(t, "loop") /\ ~FitsSegment(t) /\ ~FitsFreeEntry(t)
  /\ Push(t, free_entry[t])
  /\ usage' = usage + free_entry[t].size
  /\ free_entry' = [free_entry EXCEPT ![t] = NoSpace]
  /\ class' = [class EXCEPT ![t] = IF need[t] < SmallLimit THEN need[t]
                                   ELSE SmallLimit + blockSizeIndex(need[t])]
  /\ GoTo(t, "search")
  /\ UNCHANGED <<pmVars, offset_head, segment_entry, listVars, need, hand, merge, mode,
                 boundVars>>

(***************************************************************************)
(* Freelist::Get.  A list of the cache that is empty is replaced by one of *)
(* the pools; the entry at its end is taken, and if the map says that it   *)
(* is stale, the next one.                                                 *)
(***************************************************************************)
\* The small list of a thread, after the fetch from a pool, and the pools then.
SmallList(t, n) ==
  IF small[t][n] # <<>> THEN small[t][n]
  ELSE IF active.small[n] # <<>> THEN Last(active.small[n])
  ELSE IF merged.small[n] # <<>> THEN Last(merged.small[n]) ELSE <<>>

FetchEntryList(t, n) ==
  /\ active' = IF small[t][n] = <<>> /\ active.small[n] # <<>>
               THEN [active EXCEPT !.small[n] = Front(@)] ELSE active
  /\ merged' = IF small[t][n] = <<>> /\ active.small[n] = <<>> /\ merged.small[n] # <<>>
               THEN [merged EXCEPT !.small[n] = Front(@)] ELSE merged

\* The same for a set of large entries.
Cached(t, i) == {e \in large[t] : blockSizeIndex(e.size) = i}

LargeSet(t, i) ==
  IF Cached(t, i) # {} THEN Cached(t, i)
  ELSE IF active.large[i] # <<>> THEN Last(active.large[i])
  ELSE IF merged.large[i] # <<>> THEN Last(merged.large[i]) ELSE {}

FetchLargeEntrySet(t, i) ==
  /\ active' = IF Cached(t, i) = {} /\ active.large[i] # <<>>
               THEN [active EXCEPT !.large[i] = Front(@)] ELSE active
  /\ merged' = IF Cached(t, i) = {} /\ active.large[i] = <<>> /\ merged.large[i] # <<>>
               THEN [merged EXCEPT !.large[i] = Front(@)] ELSE merged

\* TestAndClear decides: the space is the thread's, or the search goes on at class c.
TakeIfFree(t, e, c) ==
  IF IsFree(space_map, e)
  THEN /\ space_map' = Clear(space_map, e.offset, e.size)
       /\ free_entry' = [free_entry EXCEPT ![t] = e]
       /\ GoTo(t, "loop")
       /\ class' = [class EXCEPT ![t] = 0]
  ELSE /\ class' = [class EXCEPT ![t] = c]
       /\ UNCHANGED <<space_map, free_entry, pc>>

\* Mutant: the entry is left in the list.
PeekSmallEntry(t) ==
  LET n == class[t]
      list == SmallList(t, n)
  IN  /\ At(t, "search") /\ n < SmallLimit /\ list # <<>>
      /\ FetchEntryList(t, n)
      /\ small' = [small EXCEPT ![t][n] = list]
      /\ TakeIfFree(t, [offset |-> Last(list), size |-> n], n)
      /\ UNCHANGED <<pmVars, offset_head, segment_entry, large, need, hand, pushing,
                     merge, usage, mode, boundVars>>

getSmallEntry(t) ==
  LET n == class[t]
      list == SmallList(t, n)
  IN  /\ At(t, "search") /\ n < SmallLimit /\ list # <<>>
      /\ FetchEntryList(t, n)
      /\ small' = [small EXCEPT ![t][n] = Front(list)]
      /\ TakeIfFree(t, [offset |-> Last(list), size |-> n], n)
      /\ UNCHANGED <<pmVars, offset_head, segment_entry, large, need, hand, pushing,
                     merge, usage, mode, boundVars>>

\* The largest entry of a set comes first; one that is too small ends the search of it.
Largest(S) ==
  CHOOSE e \in S : \A f \in S \ {e} :
    e.size > f.size \/ (e.size = f.size /\ e.offset < f.offset)

getLargeEntry(t) ==
  LET i == class[t] - SmallLimit
      S == LargeSet(t, i)
      e == Largest(S)
  IN  /\ At(t, "search") /\ i \in Index /\ S # {} /\ e.size >= need[t]
      /\ FetchLargeEntrySet(t, i)
      /\ large' = [large EXCEPT ![t] = (@ \union S) \ {e}]
      /\ TakeIfFree(t, e, IF S = {e} THEN class[t] + 1 ELSE class[t])
      /\ UNCHANGED <<pmVars, offset_head, segment_entry, small, need, hand, pushing,
                     merge, usage, mode, boundVars>>

\* Nothing to be had in this list or set; behind the last one a segment is needed.
SearchNext(t) ==
  LET i == class[t] - SmallLimit IN
  /\ At(t, "search")
  /\ \/ i < 0 /\ SmallList(t, class[t]) = <<>> /\ UNCHANGED <<large, active, merged>>
     \/ /\ i \in Index
        /\ \A e \in LargeSet(t, i) : e.size < need[t]
        /\ FetchLargeEntrySet(t, i)
        /\ large' = [large EXCEPT ![t] = @ \union LargeSet(t, i)]
  /\ class' = [class EXCEPT ![t] = @ + 1]
  /\ GoTo(t, IF i + 1 \in Index \/ i < 0 THEN "search" ELSE "segment")
  /\ UNCHANGED <<pmVars, mapVars, entryVars, small, need, hand, pushing, merge, usage,
                 mode, boundVars>>

\* The rest of the old segment is freed, if there is any ...
ReleaseSegment(t) ==
  /\ At(t, "segment")
  /\ Push(t, segment_entry[t])
  /\ usage' = usage + segment_entry[t].size
  /\ class' = [class EXCEPT ![t] = 0]
  /\ GoTo(t, "fetch")
  /\ UNCHANGED <<pmVars, offset_head, entryVars, listVars, need, hand, merge, mode,
                 boundVars>>

\* ... and replaced by a new one.
allocateSegmentSpace(t) ==
  /\ At(t, "fetch") /\ offset_head < NumBlocks
  /\ segment_entry' = [segment_entry EXCEPT
                         ![t] = [offset |-> offset_head, size |-> SegmentBlocks]]
  /\ offset_head' = offset_head + SegmentBlocks
  /\ pmem' = persistSpaceEntry(pmem, offset_head, SegmentBlocks)
  /\ GoTo(t, "loop")
  /\ UNCHANGED <<live, space_map, free_entry, listVars, need, class, hand, pushing,
                 merge, usage, mode, boundVars>>

\* PMem overflow: the call returns a space of size 0.  segment_entry stays as it is.
Overflow(t) ==
  /\ At(t, "fetch") /\ offset_head = NumBlocks
  /\ need' = [need EXCEPT ![t] = 0]
  /\ GoTo(t, "idle")
  /\ UNCHANGED <<pmVars, mapVars, entryVars, listVars, class, hand, pushing, merge,
                 usage, mode, boundVars>>

----------------------------------------------------------------------------
(***************************************************************************)
(* What the callers do with a space: write a record into it, or give it    *)
(* back unused.  A record that is not needed any more is destroyed, which  *)
(* makes its type Empty, and its space freed (PurgeAndFree).               *)
(***************************************************************************)
PersistRecord(t) ==
  /\ At(t, "got")
  /\ pmem' = [b \in Block |-> IF b = hand[t].offset THEN Record(hand[t].size)
                              ELSE IF b \in Blocks(hand[t]) THEN Data ELSE pmem[b]]
  /\ live' = live \union {hand[t]}
  /\ hand' = [hand EXCEPT ![t] = NoSpace]
  /\ need' = [need EXCEPT ![t] = 0]
  /\ GoTo(t, "idle")
  /\ UNCHANGED <<mapVars, entryVars, listVars, class, pushing, merge, usage, mode,
                 boundVars>>

Destroy(t) ==
  /\ At(t, "idle")
  /\ \E e \in live :
       /\ live' = live \ {e}
       /\ pmem' = [pmem EXCEPT ![e.offset].type = "Empty"]
       /\ hand' = [hand EXCEPT ![t] = e]
  /\ GoTo(t, "dead")
  /\ UNCHANGED <<mapVars, entryVars, listVars, need, class, pushing, merge, usage, mode,
                 boundVars>>

Free(t) ==
  /\ At(t, "got") \/ At(t, "dead")
  /\ Push(t, hand[t])
  /\ hand' = [hand EXCEPT ![t] = NoSpace]
  /\ need' = [need EXCEPT ![t] = 0]
  /\ GoTo(t, "idle")
  /\ UNCHANGED <<pmVars, offset_head, entryVars, listVars, class, merge, usage, mode,
                 boundVars>>

----------------------------------------------------------------------------
(***************************************************************************)
(* The background thread.  MoveCachedEntriesToPool takes one list of one   *)
(* cache after the other.                                                  *)
(***************************************************************************)
MoveSmallEntries(t, n) ==
  /\ mode = "run" /\ merge.at = "off" /\ small[t][n] # <<>>
  /\ active' = [active EXCEPT !.small[n] = Append(@, small[t][n])]
  /\ small' = [small EXCEPT ![t][n] = <<>>]
  /\ UNCHANGED <<pmVars, mapVars, entryVars, large, merged, callVars, merge, usage,
                 mode, boundVars>>

MoveLargeEntries(t, i) ==
  /\ mode = "run" /\ merge.at = "off" /\ Cached(t, i) # {}
  /\ active' = [active EXCEPT !.large[i] = Append(@, Cached(t, i))]
  /\ large' = [large EXCEPT ![t] = @ \ Cached(t, i)]
  /\ UNCHANGED <<pmVars, mapVars, entryVars, small, merged, callVars, merge, usage,
                 mode, boundVars>>

\* MergeSpaceInPool takes the small lists of the pool, size by size.
MergeStart ==
  /\ mode = "run" /\ merge.at = "off" /\ merges < workload.merges
  /\ merge' = [merge EXCEPT !.at = "fetch", !.size = 1]
  /\ merges' = merges + 1
  /\ UNCHANGED <<pmVars, mapVars, entryVars, listVars, callVars, usage, mode, workload,
                 allocs, crashes>>

MergeFetch ==
  /\ mode = "run" /\ merge.at = "fetch" /\ merge.todo = <<>>
  /\ IF merge.size = SmallLimit
     THEN merge' = [merge EXCEPT !.at = "return"] /\ UNCHANGED active
     ELSE IF active.small[merge.size] = <<>>
     THEN merge' = [merge EXCEPT !.size = @ + 1] /\ UNCHANGED active
     ELSE /\ merge' = [merge EXCEPT !.todo = Last(active.small[merge.size])]
          /\ active' = [active EXCEPT !.small[merge.size] = Front(@)]
  /\ UNCHANGED <<pmVars, mapVars, entryVars, small, large, merged, callVars, usage,
                 mode, boundVars>>

\* A stale entry is dropped.
MergeEntry ==
  LET o == Head(merge.todo)
      k == MergedSize(space_map, o, merge.size)
  IN  /\ mode = "run" /\ merge.at = "fetch" /\ merge.todo # <<>>
      /\ space_map' = TryMerge(space_map, o, merge.size)
      /\ merge' = [merge EXCEPT !.todo = Tail(@),
                     !.space = IF k > 0 THEN [offset |-> o, size |-> k] ELSE NoSpace,
                     !.at = IF k > 0 THEN "persist" ELSE "fetch"]
      /\ UNCHANGED <<pmVars, offset_head, entryVars, listVars, callVars, usage, mode,
                     boundVars>>

\* A merged space is listed; a list that is long enough is moved to merged_pool_.
ListMergedSmall(e) ==
  LET list == Append(merge.small[e.size], e.offset)
      full == Len(list) >= MinMovable
  IN  /\ e.size < SmallLimit
      /\ merge' = [merge EXCEPT !.at = "fetch", !.space = NoSpace,
                                !.small[e.size] = IF full THEN <<>> ELSE list]
      /\ merged' = IF full THEN [merged EXCEPT !.small[e.size] = Append(@, list)]
                           ELSE merged

ListMergedLarge(e) ==
  LET i == blockSizeIndex(e.size)
      set == merge.large[i] \union {e}
      full == Cardinality(set) >= MinMovable
  IN  /\ e.size >= SmallLimit
      /\ merge' = [merge EXCEPT !.at = "fetch", !.space = NoSpace,
                                !.large[i] = IF full THEN {} ELSE set]
      /\ merged' = IF full THEN [merged EXCEPT !.large[i] = Append(@, set)] ELSE merged

\* The larger size is persisted before that.
MergePersist ==
  LET e == merge.space IN
  /\ mode = "run" /\ merge.at = "persist"
  /\ pmem' = IF e.size > merge.size THEN persistSpaceEntry(pmem, e.offset, e.size)
                                    ELSE pmem
  /\ ListMergedSmall(e) \/ ListMergedLarge(e)
  /\ UNCHANGED <<live, mapVars, entryVars, small, large, active, callVars, usage, mode,
                 boundVars>>

\* Mutant: only the lists that were moved to merged_pool_ go back.
ReturnMergedPool ==
  /\ mode = "run" /\ merge.at = "return"
  /\ active' =
       [small |-> [n \in SmallSize |-> active.small[n] \o Reverse(merged.small[n])],
        large |-> [i \in Index |-> active.large[i] \o Reverse(merged.large[i])]]
  /\ merged' = EmptyPool
  /\ merge' = NoMerge
  /\ UNCHANGED <<pmVars, mapVars, entryVars, small, large, callVars, usage, mode,
                 boundVars>>

\* All merged lists go to the active pool.
MergeReturn ==
  /\ mode = "run" /\ merge.at = "return"
  /\ active' =
       [small |-> [n \in SmallSize |->
          active.small[n] \o (IF merge.small[n] = <<>> THEN <<>> ELSE <<merge.small[n]>>)
          \o Reverse(merged.small[n])],
        large |-> [i \in Index |->
          active.large[i] \o (IF merge.large[i] = {} THEN <<>> ELSE <<merge.large[i]>>)
          \o Reverse(merged.large[i])]]
  /\ merged' = EmptyPool
  /\ merge' = NoMerge
  /\ UNCHANGED <<pmVars, mapVars, entryVars, small, large, callVars, usage, mode,
                 boundVars>>

----------------------------------------------------------------------------
(***************************************************************************)
(* A crash leaves what is in persistent memory.  Recovery goes through the *)
(* used segments, header by header: the space of a record that is still    *)
(* there is kept, any other space is freed, and behind the last header of  *)
(* a segment everything is one space.                                      *)
(***************************************************************************)
WalkSize(b) == IF pmem[b].size = 0 THEN SegmentEnd(b) - b ELSE pmem[b].size

\* The blocks at which recovery expects a header.
Visited ==
  LET Visits[b \in Block] ==
        \/ b % SegmentBlocks = 0
        \/ \E a \in SegmentEnd(b) - SegmentBlocks .. b - 1 :
             a + WalkSize(a) = b /\ Visits[a]
  IN  {b \in Block : Visits[b]}

Crash ==
  /\ crashes < workload.crashes
  /\ crashes' = crashes + 1
  /\ mode' = "recover"
  /\ space_map' = [b \in Block |-> NoToken]
  /\ offset_head' = 0
  /\ segment_entry' = [t \in Thread |-> NoSpace]
  /\ free_entry' = [t \in Thread |-> NoSpace]
  /\ small' = [t \in Thread |-> [n \in SmallSize |-> <<>>]]
  /\ large' = [t \in Thread |-> {}]
  /\ active' = EmptyPool /\ merged' = EmptyPool
  /\ pc' = [t \in Thread |-> "idle"]
  /\ need' = [t \in Thread |-> 0]
  /\ class' = [t \in Thread |-> 0]
  /\ hand' = [t \in Thread |-> NoSpace]
  /\ pushing' = [t \in Thread |-> NoSpace]
  /\ merge' = NoMerge
  /\ usage' = 0
  /\ UNCHANGED <<pmVars, workload, allocs, merges>>

\* FetchSegment, and restoreData of its spaces by thread t.
FetchSegment(t) ==
  LET starts == Visited \intersect (offset_head .. offset_head + SegmentBlocks - 1)
      freed == {[offset |-> b, size |-> WalkSize(b)] :
                  b \in {c \in starts : pmem[c].type # "Record"}}
      FreedOf(n) == SetToSortSeq({e.offset : e \in {f \in freed : f.size = n}}, <)
  IN  /\ mode = "recover"
      /\ offset_head < NumBlocks /\ pmem[offset_head].size # 0
      /\ offset_head' = offset_head + SegmentBlocks
      /\ pmem' = [b \in Block |-> IF b \in starts THEN [pmem[b] EXCEPT !.size = WalkSize(b)]
                                                  ELSE pmem[b]]
      /\ space_map' = FoldSet(LAMBDA e, m : Set(m, e), space_map, freed)
      /\ small' = [small EXCEPT ![t] = [n \in SmallSize |-> @[n] \o FreedOf(n)]]
      /\ large' = [large EXCEPT ![t] = @ \union {e \in freed : e.size >= SmallLimit}]
      /\ usage' = usage + SegmentBlocks - MapThenSumSet(LAMBDA e : e.size, freed)
      /\ UNCHANGED <<live, entryVars, active, merged, callVars, merge, mode, boundVars>>

RecoveryEnd ==
  /\ mode = "recover"
  /\ offset_head < NumBlocks => pmem[offset_head].size = 0
  /\ mode' = "run"
  /\ UNCHANGED <<pmVars, mapVars, entryVars, listVars, callVars, merge, usage, boundVars>>

----------------------------------------------------------------------------
\* A step of a call that has begun.
CallStep(t) ==
  \/ AllocateFromSegment(t) \/ SplitFreeEntry(t) \/ AllocateFromFreeEntry(t)
  \/ ReleaseFreeEntry(t) \/ getSmallEntry(t) \/ getLargeEntry(t) \/ SearchNext(t)
  \/ ReleaseSegment(t) \/ allocateSegmentSpace(t) \/ Overflow(t)
  \/ PersistRecord(t) \/ Free(t) \/ ListFreeSpace(t) \/ ListInPool(t)

MergeStep == MergeFetch \/ MergeEntry \/ MergePersist \/ MergeReturn

Recover == RecoveryEnd \/ \E t \in Thread : FetchSegment(t)

Next ==
  \/ \E t \in Thread : Allocate(t) \/ Destroy(t) \/ CallStep(t)
  \/ \E t \in Thread, n \in SmallSize : MoveSmallEntries(t, n)
  \/ \E t \in Thread, i \in Index : MoveLargeEntries(t, i)
  \/ MergeStart \/ MergeStep
  \/ Crash \/ Recover

\* A thread that is in a call goes on, and so do the background merge and recovery.
Fairness ==
  /\ \A t \in Thread : WF_vars(CallStep(t))
  /\ WF_vars(MergeStep) /\ WF_vars(Recover)

Spec == Init /\ [][Next]_vars /\ Fairness

----------------------------------------------------------------------------
Entries == SpaceEntry \union {NoSpace}
Offsets == Seq(Block)

TypeOK ==
  /\ pmem \in [Block -> [type : {"Empty", "Record", "Data"}, size : 0 .. SegmentBlocks]]
  /\ space_map \in [Block -> [start : BOOLEAN, size : 0 .. MaxToken]]
  /\ offset_head \in {SegmentBlocks * i : i \in 0 .. NumSegments}
  /\ segment_entry \in [Thread -> Entries] /\ free_entry \in [Thread -> Entries]
  /\ hand \in [Thread -> Entries] /\ pushing \in [Thread -> Entries]
  /\ small \in [Thread -> [SmallSize -> Offsets]]
  /\ large \in [Thread -> SUBSET SpaceEntry]
  /\ \A p \in {active, merged} : \A n \in SmallSize : p.small[n] \in Seq(Offsets)
  /\ pc \in [Thread -> {"idle", "loop", "split", "search", "segment", "fetch", "got", "dead"}]
  /\ need \in [Thread -> 0 .. SegmentBlocks]
  /\ merge.at \in {"off", "fetch", "persist", "return"} /\ merge.size \in 0 .. SmallLimit
  /\ live \subseteq SpaceEntry
  /\ usage \in Int
  /\ mode \in {"run", "recover"}

(***************************************************************************)
(* No block is given out twice and none is lost: each one belongs to one   *)
(* record, to one thread, to one free space of the map or to a segment     *)
(* nobody has fetched.  (A thread at "fetch" has given up its segment.)    *)
(* PMemUsageInBytes is what the callers have and what is on its way back.  *)
(***************************************************************************)
Owners(b) ==
  Cardinality({t \in Thread : pc[t] # "fetch" /\ b \in Blocks(segment_entry[t])})
  + Cardinality({t \in Thread : b \in Blocks(free_entry[t])})
  + Cardinality({t \in Thread : b \in Blocks(hand[t])})
  + Cardinality({e \in live : b \in Blocks(e)})
  + Cardinality({e \in FreeSpaces : b \in Blocks(e)})
  + (IF b >= offset_head THEN 1 ELSE 0)

OneOwner ==
  /\ TypeOK
  /\ mode = "run" =>
       /\ \A b \in Block : Owners(b) = 1
       /\ usage = MapThenSumSet(LAMBDA e : e.size, live)
                  + MapThenSumSet(LAMBDA t : hand[t].size + pushing[t].size, Thread)

(***************************************************************************)
(* The assertion of SpaceMap::Set: a space that is marked free was not     *)
(* marked before ("Set space map on a already set byte").                  *)
(***************************************************************************)
SetOnClearedBytes ==
  [][\A t \in Thread :
       pushing[t] = NoSpace /\ pushing'[t] # NoSpace
         => space_map[pushing'[t].offset] = NoToken]_vars

(***************************************************************************)
(* Every free space can be allocated again: some list has an entry with    *)
(* its offset and its size, however entries went stale by merges.          *)
(***************************************************************************)
ListedSmall(o, n) ==
  \/ \E t \in Thread : o \in ToSet(small[t][n])
  \/ \E p \in {active, merged} : \E i \in 1 .. Len(p.small[n]) : o \in ToSet(p.small[n][i])
  \/ o \in ToSet(merge.small[n])
  \/ merge.size = n /\ o \in ToSet(merge.todo)

ListedLarge(e) ==
  LET i == blockSizeIndex(e.size) IN
  \/ \E t \in Thread : e \in large[t]
  \/ \E p \in {active, merged} : \E j \in 1 .. Len(p.large[i]) : e \in p.large[i][j]
  \/ e \in merge.large[i]

FreeSpaceListed ==
  \A e \in FreeSpaces :
    \/ \E t \in Thread : pushing[t] = e
    \/ merge.space = e
    \/ IF e.size < SmallLimit THEN ListedSmall(e.offset, e.size) ELSE ListedLarge(e)

(***************************************************************************)
(* A crash at any moment: recovery never takes data for a header, and it   *)
(* finds the records that were written and not destroyed, no other ones.   *)
(***************************************************************************)
RecordsFound ==
  /\ \A b \in Visited : pmem[b].type # "Data"
  /\ live = {[offset |-> b, size |-> pmem[b].size] :
               b \in {c \in Visited : pmem[c].type = "Record"}}

(***************************************************************************)
(* A call of Allocate returns, or the instance crashes: stale entries and  *)
(* the background thread do not keep it searching.                         *)
(***************************************************************************)
AllocateReturns ==
  \A t \in Thread : (pc[t] = "loop") ~> (pc[t] \in {"idle", "got"})
=============================================================================
