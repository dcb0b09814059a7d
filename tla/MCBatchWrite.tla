---------------------------- MODULE MCBatchWrite ----------------------------
(***************************************************************************)
(* BatchWrite for TLC.                                                     *)
(***************************************************************************)
EXTENDS BatchWrite, TLC

CONSTANTS t1, t2, t3, o1, o2, o3

ThreeOffsets == {o1, o2, o3}

\* Offsets are interchangeable.
OffsetSymmetry == Permutations(Offset)

TwoThreads == {t1, t2}
OwnSlots == (t1 :> 1) @@ (t2 :> 2)

\* Two slots for three threads: t1 and t3 share a batch log.
ThreeThreads == {t1, t2, t3}
TwoSlots == (t1 :> 1) @@ (t2 :> 2) @@ (t3 :> 1)

Single == {c \in Calls : c.kind = "single"}
Batch(K) == {c \in Calls : c.kind = "batch" /\ DOMAIN c.ops \in K}

BatchAndSingle == (t1 :> Batch({Key})) @@ (t2 :> Single)
ThreeBatches == (t1 :> Batch({{1}, Key})) @@ (t2 :> Batch({Key})) @@ (t3 :> Batch({{2}}))
=============================================================================
