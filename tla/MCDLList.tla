------------------------------ MODULE MCDLList ------------------------------
(***************************************************************************)
(* Small instances of DLList.                                              *)
(***************************************************************************)
EXTENDS DLList

TwoThreads == 1 .. 2

\* Two records may hash to one lock, as the header and record 5 do.
FourLocks == [o \in Offset |-> o % 4]

Single(o, k) == [op |-> o, key |-> k, batch |-> FALSE]
Batch(o, k) == [op |-> o, key |-> k, batch |-> TRUE]

Puts == {Single("Put", k) : k \in Key}
Expire == {Single("Expire", Coll)}

\* Key 1 is there, key 2 deleted and key 3 new.
Others == {Single("Delete", 1), Single("Clean", 2)} \union Expire
Batches == {Batch("Put", 1), Batch("Delete", 1), Batch("Put", 3)}

Everyone(S) == [t \in Thread |-> S]
Alone(S) == [t \in Thread |-> IF t = 1 THEN S ELSE {}]

\* Either two threads that do everything but batches, or one that does batches and
\* replaces the header.
HashWorkloads ==
  {Everyone(Puts \union Others), Alone(Batches \union Expire)}

\* A batch beside writes of other keys.
BatchBeside == {[t \in Thread |-> IF t = 1 THEN Batches ELSE Puts]}

ExpireAlone == {Alone(Expire)}
=============================================================================
