---------------------------- MODULE AtomicLists ----------------------------
(***************************************************************************)
(* What the list operations promise: each changes the lists at once, when  *)
(* it ends; a crash loses the calls that run as a whole, and only the      *)
(* recovery to a checkpoint goes back to earlier contents.  A snapshot     *)
(* keeps the contents of its moment and what the calls that were under way *)
(* do; while it is being made, an element that is deleted may be lost.     *)
(***************************************************************************)
EXTENDS Integers, SequencesExt

CONSTANTS Lists, Elem, MaxBatch

VARIABLES
  lists,
  kept,     \* the contents at the snapshot
  open,     \* the lists with a call that is older than the snapshot
  making,   \* the snapshot is being made
  done      \* how many calls have ended

\* Calls on L end: the snapshot follows those that are older.
Enter(L) ==
  /\ kept' = [l \in Lists |-> IF l \in open \cap L THEN lists'[l] ELSE kept[l]]
  /\ open' = open \ L
  /\ UNCHANGED making

\* The snapshot that is being made loses an element of l.
Forget(l) ==
  /\ making
  /\ \E i \in DOMAIN kept[l] : kept' = [kept EXCEPT ![l] = RemoveAt(@, i)]
  /\ UNCHANGED <<open, making>>

Write(l, s) == lists' = [lists EXCEPT ![l] = s] /\ Enter({l})

\* Push and insert; pop and erase; replace.
Insert(l, i, e) == Write(l, InsertAt(lists[l], i, e))
Delete(l, i) ==
  \/ Write(l, RemoveAt(lists[l], i))
  \/ l \notin open /\ lists' = [lists EXCEPT ![l] = RemoveAt(@, i)] /\ Forget(l)
Set(l, i, e) == Write(l, [lists[l] EXCEPT ![i] = e])

PushN(l, s) == Write(l, Reverse(s) \o lists[l]) \/ Write(l, lists[l] \o s)
PopN(l, n) ==
  \/ Write(l, SubSeq(lists[l], n + 1, Len(lists[l])))
  \/ Write(l, SubSeq(lists[l], 1, Len(lists[l]) - n))

\* One element changes its place, within a list or from list to list.
Move(src, dst, i) ==
  LET e == lists[src][i]
      rest == [l \in Lists |-> IF l = src THEN RemoveAt(lists[l], i) ELSE lists[l]]
      moved(s) == [l \in Lists |-> IF l = dst THEN s ELSE rest[l]] IN
  /\ lists' \in {moved(<<e>> \o rest[dst]), moved(Append(rest[dst], e))}
  /\ Enter({src, dst})

Fail == UNCHANGED lists /\ \E l \in Lists : Enter({l})

TakeSnapshot ==
  /\ kept' = lists /\ open' \in SUBSET Lists /\ making' = TRUE
  /\ UNCHANGED lists

\* A snapshot is made, or released; the cleaner takes from one being made.
Settle ==
  /\ UNCHANGED <<lists, done>>
  /\ \/ open' \in {open, {}} /\ making' = FALSE /\ UNCHANGED kept
     \/ \E l \in Lists : Forget(l)

\* A crash ends the calls that run, and may go back to the checkpoint.
Lose ==
  /\ lists' \in {lists, kept} /\ done' \in {done, done + 1}
  /\ open' = {} /\ making' = FALSE
  /\ UNCHANGED kept

AtomicListsNext ==
  \/ /\ done' = done + 1
     /\ \/ \E l \in Lists :
             \/ \E i \in 1 .. Len(lists[l]) + 1, e \in Elem : Insert(l, i, e)
             \/ \E i \in DOMAIN lists[l] : Delete(l, i) \/ \E e \in Elem : Set(l, i, e)
             \/ \E s \in [1 .. MaxBatch -> Elem] : PushN(l, s)
             \/ \E n \in 1 .. MaxBatch : n <= Len(lists[l]) /\ PopN(l, n)
             \/ \E dst \in Lists, i \in DOMAIN lists[l] : Move(l, dst, i)
        \/ Fail
        \/ TakeSnapshot
  \/ Settle
  \/ Lose

AtomicListsSpec ==
  /\ lists = kept /\ open = {} /\ making = FALSE /\ done = 0
  /\ [][AtomicListsNext]_<<lists, kept, open, making, done>>
=============================================================================
