--------------------------- MODULE MCTransaction ---------------------------
(***************************************************************************)
(* Small instances of Transaction: one string and one element.             *)
(***************************************************************************)
EXTENDS Transaction, TLC

CONSTANTS t1, t2, t3, s, e

Threads == {t1, t2, t3}
OneString == {s}
OneElem == {e}
OwnSlots == (t1 :> 1) @@ (t2 :> 2) @@ (t3 :> 3)
SharedSlot == (t1 :> 1) @@ (t2 :> 1) @@ (t3 :> 1)

\* The name of the collection shares its lock with the second collection's element.
Locks == (<<0, s>> :> 1) @@ (<<1, e>> :> 2) @@ (<<2, e>> :> 3) @@ (<<0, None>> :> 3)

Load(of1, of2, of3, n) ==
  [calls |-> (t1 :> of1) @@ (t2 :> of2) @@ (t3 :> of3), maxCalls |-> n,
   kinds |-> {"Put", "Get"}, keys |-> {s, e}, maxSteps |-> 2,
   batches |-> {{s}, {s, e}}, expires |-> FALSE, full |-> FALSE]

AllWorkloads ==
  { \* two transactions against each other
    Load({"Transaction"}, {"Transaction"}, {}, 2),
    \* a transaction against batches and single writes
    [Load({"Transaction"}, {"Batch"}, {}, 2) EXCEPT !.kinds = {"Delete", "Get"}],
    \* transactions while the collection is destroyed, expires or is created
    [Load({"Transaction"}, {"Destroy"}, {"Create"}, 3) EXCEPT
       !.kinds = {"Put"}, !.keys = {e}, !.expires = TRUE, !.full = TRUE] }

TransactionAndWrites ==
  {[Load({"Transaction"}, {"Batch"}, {}, 2) EXCEPT !.keys = {s}, !.maxSteps = 1]}
=============================================================================
