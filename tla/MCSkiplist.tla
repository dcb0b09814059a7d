----------------------------- MODULE MCSkiplist -----------------------------
(***************************************************************************)
(* Small instances of a sorted collection for TLC.                         *)
(***************************************************************************)
EXTENDS SortedRebuilder, TLC

N(k, h) == <<k, "Normal", h>>
D(k, h) == <<k, "Outdated", h>>

Calls(a, b, c) == (1 :> a) @@ (2 :> b) @@ (3 :> c)

Load(start, as) ==
  [hash |-> FALSE, start |-> start, calls |-> as, each |-> 1, passes |-> 0,
   heights |-> {1}, full |-> FALSE, crashes |-> 0, stride |-> 0, checkpoint |-> FALSE]

\* Insertions beside each other and beside a cleaner that deletes a node.
Inserts ==
  [Load(<<D(1, 2)>>, Calls({<<"Put", 2>>}, {<<"Put", 4>>}, {}))
     EXCEPT !.passes = 1, !.heights = {0, 2}]

\* Two calls at once on a collection without hash index; PMem may be full.
Updates ==
  [Load(<<N(1, 1), N(2, 1)>>,
        Calls({<<"Put", 1>>, <<"Delete", 1>>, <<"Delete", 2>>},
              {<<"Get", 2>>, <<"Put", 2>>, <<"Delete", 3>>}, {}))
     EXCEPT !.passes = 1, !.full = TRUE]

\* A hash indexed collection: a Get beside two writers.
Hashed ==
  [Load(<<N(1, 2), N(3, 0)>>,
        Calls({<<"Put", 2>>, <<"Put", 3>>}, {<<"Delete", 1>>}, {<<"Get", 1>>}))
     EXCEPT !.passes = 1, !.hash = TRUE]

\* An iterator beside a writer, and the cleaner or Expire.
Iterated ==
  [Load(<<N(1, 1), D(2, 1), N(3, 0)>>,
        Calls({<<"Put", 2>>, <<"Delete", 1>>, <<"Delete", 3>>}, {<<"Iterate", 0>>}, {}))
     EXCEPT !.each = 2]

IteratedCleaned == [Iterated EXCEPT !.each = 1, !.passes = 1]

IteratedExpired ==
  Load(<<N(2, 1), N(3, 0)>>,
       Calls({<<"Put", 1>>, <<"Delete", 2>>}, {<<"Iterate", 0>>}, {<<"Expire", 0>>}))

\* Two crashes, the rebuild along the list; a crash, the rebuild in segments.  A
\* checkpoint may be made at any time nothing is in progress.
ListRebuilt ==
  [Load(<<N(1, 1), D(2, 1), N(3, 0)>>,
        Calls({<<"Put", 1>>, <<"Put", 2>>, <<"Delete", 3>>}, {}, {}))
     EXCEPT !.crashes = 2, !.checkpoint = TRUE, !.heights = {0, 2}, !.hash = TRUE]

SegmentsRebuilt ==
  [Load(<<N(1, 1), N(2, 1), N(3, 0)>>, Calls({<<"Put", 2>>, <<"Expire", 0>>}, {}, {}))
     EXCEPT !.each = 2, !.crashes = 1, !.checkpoint = TRUE, !.heights = {1, 2}, !.stride = 2]

\* A Get and a second Put behind a node whose record is being replaced.
GetBehindUpdate ==
  Load(<<N(1, 1), N(2, 1)>>,
       Calls({<<"Put", 1>>}, {<<"Put", 2>>}, {<<"Get", 2>>, <<"Put", 2>>}))

AllWorkloads ==
  {Inserts, Updates, Hashed, Iterated, IteratedCleaned, IteratedExpired, GetBehindUpdate,
   ListRebuilt, SegmentsRebuilt}

StaleNode == {GetBehindUpdate}
StrictLoads == {GetBehindUpdate, Inserts}

\* The header is replaced, then something is put in front.
ExpireThenIterate ==
  {[Load(<<N(2, 1)>>, Calls({<<"Expire", 0>>, <<"Put", 1>>, <<"Iterate", 0>>}, {}, {}))
      EXCEPT !.each = 3]}

\* A deletion record at which a segment may start.
SegmentAtDeletion ==
  {[Load(<<N(1, 1), D(2, 1)>>, Calls({}, {}, {})) EXCEPT !.crashes = 1, !.stride = 2]}
=============================================================================
