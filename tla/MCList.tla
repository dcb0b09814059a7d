------------------------------- MODULE MCList -------------------------------
(***************************************************************************)
(* Small instances of List.                                                *)
(***************************************************************************)
EXTENDS List

CONSTANTS alpha, beta

Elems == {alpha, beta}

Load(c, n, cr, cl, st) ==
  [calls |-> c, maxOps |-> n, maxCrashes |-> cr, maxPasses |-> cl, recover |-> TRUE,
   start |-> st, on |-> {1}, vals |-> {beta}]

Single == <<<<1, alpha>>>>
One == <<<<1, alpha>>, <<1, beta>>>>
Two == <<<<1, alpha>>, <<1, beta>>, <<2, alpha>>>>

AllWorkloads ==
  { \* single calls, a crash, and the cleaner
    Load({"Push", "Pop", "Insert", "Erase", "Replace"}, 2, 1, 1, One),
    Load({"Push", "Pop"}, 2, 1, 2, One),
    \* batches beside a call on the other list, with two crashes; PMem runs out
    [Load({"BatchPush", "BatchPop", "Move", "Pop"}, 2, 2, 0, Two) EXCEPT
       !.on = {1, 2}, !.vals = {alpha, beta}],
    \* recovery to a checkpoint, with two crashes or with a cleaner
    Load({"Checkpoint", "Pop", "Replace", "Move"}, 3, 2, 0, One),
    Load({"Checkpoint", "Pop"}, 3, 1, 2, One),
    Load({"Checkpoint", "Replace"}, 3, 1, 2, Single),
    \* iterators against writers, and against the cleaner
    Load({"Snapshot", "Iterate", "Push", "Pop", "Replace", "BatchPop"}, 3, 0, 0, One),
    Load({"Snapshot", "Iterate", "Pop"}, 3, 0, 2, One),
    Load({"Snapshot", "Iterate", "Pop", "Replace"}, 3, 0, 2, Single) }

\* A checkpoint, and an instance that is opened without recover_to_checkpoint.
CheckpointIgnored ==
  {[Load({"Checkpoint", "Push"}, 2, 1, 0, One) EXCEPT !.recover = FALSE]}

\* An iterator while the cleaner runs.
IteratorAndCleaner ==
  {Load({"Pop", "Snapshot", "Replace", "Iterate"}, 3, 0, 2, One)}

\* Calls that index past the end, and a batch that finds no space.
PastEnd ==
  {Load({"Erase"}, 1, 0, 0, One), Load({"BatchPush"}, 3, 0, 0, Two)}

StrictLoads == PastEnd \union IteratorAndCleaner \union CheckpointIgnored
=============================================================================
