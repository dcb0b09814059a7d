--------------------------- MODULE MCCollections ----------------------------
(***************************************************************************)
(* Small instances of the life of collections for TLC.                     *)
(***************************************************************************)
EXTENDS Collections, TLC

C(n) == <<"Create", n, 0>>
D(n) == <<"Destroy", n, 0>>
U(n) == <<"Use", n, 0>>
I(n) == <<"Iterate", n, 0>>
E(n) == <<"Expire", n, 1>>
EE(n) == <<"Expire", n, 2>>
P == <<"Checkpoint", 1, 0>>

Load(first, second, cleaners) ==
  [type |-> [n \in Name |-> "Sorted"], calls |-> (1 :> first) @@ (2 :> second),
   workers |-> cleaners, full |-> FALSE, crashes |-> 0]

\* A name is destroyed and created again, beside calls that use it and two workers.
Recreated == Load(<<C(1), D(1), C(1), D(1)>>, <<U(1), U(1)>>, {1, 2})

\* Two names, one after the other expired and created again; PMem may be full.
ExpiredAgain == [Load(<<C(1), E(1), C(1), U(1)>>, <<C(2), D(2), U(1)>>, {1})
                   EXCEPT !.full = TRUE]

\* The same name expired and created again, beside calls that use it and two workers.
ExpiredUsed == Load(<<C(1), E(1), C(1)>>, <<U(1), U(1)>>, {1, 2})

\* Two workers have the two collections that were made under one name, and the entry
\* of another name, for a collection of the same kind or not, is in its bucket.
Bucket == Load(<<C(2), C(1), D(1), C(1), D(1)>>, <<>>, {1, 2})
OtherBucket == [Bucket EXCEPT !.type = [n \in Name |-> IF n = 1 THEN "Sorted" ELSE "List"]]

\* A collection is destroyed that has a time to live, beside another one that has; and
\* one is given a new time when its time has come.
Rekeyed == Load(<<C(1), E(1), D(1)>>, <<C(2), E(2)>>, {1})
Revived == Load(<<C(1), E(1), EE(1)>>, <<U(1)>>, {1})

\* An iterator beside two workers.
IteratedTwo == Load(<<C(1), D(1)>>, <<I(1)>>, {1, 2})

\* An iterator on a collection that is destroyed and created again; one worker.
IteratedOn == Load(<<C(1), D(1), C(1)>>, <<I(1), I(1)>>, {1})

\* Collections of the other kinds.
OtherTypes == [Load(<<C(1), E(1), C(2), E(2)>>, <<U(1), D(2), C(1), C(2)>>, {1})
                 EXCEPT !.type = [n \in Name |-> IF n = 1 THEN "Hash" ELSE "List"]]

\* Crashes, in the recovery too, with and without a checkpoint.
Crashing == [Load(<<C(1), U(1), D(1), C(1), U(1), D(1)>>, <<>>, {1}) EXCEPT !.crashes = 2]
Checkpointed == [Load(<<C(1), U(1), P, D(1), C(1), U(1)>>, <<>>, {1}) EXCEPT !.crashes = 2]
ExpiredAtCrash == [Load(<<C(1), E(1), P, C(1), C(2), E(2)>>, <<>>, {1}) EXCEPT !.crashes = 2]

AllWorkloads ==
  {Recreated, ExpiredAgain, ExpiredUsed, Bucket, OtherBucket, Rekeyed, Revived, IteratedTwo,
   IteratedOn, OtherTypes, Crashing, Checkpointed, ExpiredAtCrash}
=============================================================================
